-------------------------- MODULE CallsAtOnceProofs --------------------------
(* Proofs about what calls that run at once share: the quota counters, for any     *)
(* number of calls, keys, scopes, windows and snapshots; a gateway's memory of     *)
(* nonces and its records of single calls; its plugins, modules and instances.     *)
EXTENDS MCCallsAtOnce, FiniteSetTheorems, TLAPS

-----------------------------------------------------------------------------
(* QuotaGate *)

\* The calls that have found counter c below its limit and not yet incremented it.
Holders(c) == {r \in Requests : c \in hits[r]}

\* What a counter is and what it is about to become stays within its allowance.
Room ==
  \A c \in Counters : c[2] = "requests" => used[c] + Cardinality(Holders(c)) <= Allowance(c)

\* Only request counters are held.
HoldsRequests == \A r \in Requests : \A c \in hits[r] : c[2] = "requests"

\* A counter that was at its limit when the call arrived still is, and the call has
\* not come to it.
StillFull ==
  \A r \in Requests :
    /\ pc[r] = "check" => \A c \in full[r] :
         /\ c \in Counters
         /\ c[3] >= window[r]
         /\ \E q \in ResolveQuota(key[r], quotas[r], "requests", c[3]) :
              CounterOf(q) = c /\ used[c] >= q.limit
    /\ pc[r] \in {"incr", "call", "tokens"} => full[r] = {}

\* The request counters that apply to call r in the windows W.
Counted(r, W) ==
  {CounterOf(q) : q \in UNION {ResolveQuota(key[r], quotas[r], "requests", w) : w \in W}}

\* A call has passed the windows before the one it looks at; then it has incremented
\* those before, and holds the others.
Progress ==
  \A r \in Requests :
    /\ pc[r] \in {"idle", "call"} => window[r] = 1
    /\ pc[r] = "idle" => hits[r] = {}
    /\ pc[r] = "check" => /\ taken[r] = {}
                         /\ hits[r] = Counted(r, 1..(window[r] - 1))
    /\ pc[r] = "incr" => /\ taken[r] = Counted(r, 1..(window[r] - 1))
                        /\ hits[r] = Counted(r, window[r]..NWindows)
    /\ pc[r] \in {"call", "tokens"} => taken[r] = Counted(r, Windows)
    /\ reply[r] = "denied" => pc[r] = "idle" /\ taken[r] = {}

IInv == TypeOK /\ Room /\ HoldsRequests /\ StillFull /\ Progress

\* What is resolved is a quota of the metric and window asked for, within its ceiling.
LEMMA Resolved ==
  ASSUME NEW k, NEW s \in Snapshots \cup {<< >>}, NEW m, NEW w,
         NEW q \in ResolveQuota(k, s, m, w)
  PROVE  /\ q \in Quota
         /\ q.metric = m /\ q.window = w
         /\ CounterOf(q) \in Counters
         /\ CounterOf(q)[2] = m /\ CounterOf(q)[3] = w
         /\ q.limit \in Nat
         /\ q.limit <= Ceiling[CounterOf(q)]
<1>1. PICK i \in DOMAIN s : q = s[i] /\ s[i].metric = m /\ s[i].window = w
  BY DEF ResolveQuota, Matching
<1>2. s \in Snapshots
  BY <1>1
<1>3. q \in Quota /\ q.limit <= Ceiling[CounterOf(q)]
  BY <1>1, <1>2, QuotaAssumption
<1>4. CounterOf(q) \in Counters
  BY <1>3 DEF Quota, CounterOf, Counters
<1> QED
  BY <1>1, <1>3, <1>4 DEF Quota, CounterOf

\* Holders are calls: finitely many, and no more than there are.
LEMMA HoldersFinite ==
  ASSUME NEW c
  PROVE  /\ IsFiniteSet(Holders(c))
         /\ Cardinality(Holders(c)) \in Nat
         /\ Cardinality(Requests) \in Nat
         /\ Cardinality(Holders(c)) <= Cardinality(Requests)
<1>1. Holders(c) \in SUBSET Requests
  BY DEF Holders
<1>2. IsFiniteSet(Requests)
  BY QuotaAssumption
<1>3. /\ IsFiniteSet(Holders(c))
      /\ Cardinality(Holders(c)) <= Cardinality(Requests)
  BY <1>1, <1>2, FS_Subset
<1> QED
  BY <1>2, <1>3, FS_CardinalityType

\* The same after a step.
LEMMA HoldersFiniteNext ==
  ASSUME NEW c
  PROVE  /\ IsFiniteSet(Holders(c)')
         /\ Cardinality(Holders(c)') \in Nat
         /\ Cardinality(Holders(c)') <= Cardinality(Requests)
<1>1. Holders(c)' \in SUBSET Requests
  BY DEF Holders
<1>2. IsFiniteSet(Requests)
  BY QuotaAssumption
<1>3. /\ IsFiniteSet(Holders(c)')
      /\ Cardinality(Holders(c)') <= Cardinality(Requests)
  BY <1>1, <1>2, FS_Subset
<1> QED
  BY <1>2, <1>3, FS_CardinalityType

\* A step that lets nobody hold more and leaves the counter or lowers it keeps the room.
LEMMA RoomShrinks ==
  ASSUME IInv, TypeOK', NEW c \in Counters, c[2] = "requests",
         Holders(c)' \subseteq Holders(c), used'[c] <= used[c]
  PROVE  used'[c] + Cardinality(Holders(c)') <= Allowance(c)
<1>1. Cardinality(Holders(c)') <= Cardinality(Holders(c))
  BY HoldersFinite, FS_Subset
<1>2. used[c] \in Nat /\ used'[c] \in Nat
  BY DEF IInv, TypeOK
<1>3. used[c] + Cardinality(Holders(c)) <= Allowance(c)
  BY DEF IInv, Room
<1>4. Allowance(c) \in Int
  BY HoldersFinite, QuotaAssumption DEF Allowance
<1> QED
  BY <1>1, <1>2, <1>3, <1>4, HoldersFinite, HoldersFiniteNext

\* The initial state.
LEMMA InitInv == Init => IInv
<1> SUFFICES ASSUME Init PROVE IInv
  OBVIOUS
<1>1. TypeOK
  BY QuotaAssumption DEF Init, TypeOK, Steps, Replies, Windows
<1>2. ASSUME NEW c \in Counters, c[2] = "requests"
      PROVE  used[c] + Cardinality(Holders(c)) <= Allowance(c)
  <2>1. Holders(c) = {}
    BY DEF Init, Holders
  <2>2. Cardinality(Holders(c)) = 0
    BY <2>1, FS_EmptySet
  <2>3. used[c] = 0
    BY DEF Init
  <2>4. Ceiling[c] \in Nat /\ Cardinality(Requests) \in Nat
    BY QuotaAssumption, HoldersFinite
  <2> QED
    BY <2>2, <2>3, <2>4 DEF Allowance
<1>3. HoldsRequests /\ StillFull /\ Progress
  BY DEF Init, HoldsRequests, StillFull, Progress
<1> QED
  BY <1>1, <1>2, <1>3 DEF IInv, Room

\* Leaving keeps the types of what it resets.
LEMMA LeaveTypes ==
  ASSUME TypeOK, NEW r \in Requests, Leave(r)
  PROVE  /\ pc' \in [Requests -> Steps]
         /\ key' \in [Requests -> Keys \cup {<< >>}]
         /\ quotas' \in [Requests -> Snapshots \cup {<< >>}]
         /\ window' \in [Requests -> Windows]
         /\ hits' \in [Requests -> SUBSET Counters]
         /\ tokens' \in [Requests -> Nat]
  BY QuotaAssumption DEF TypeOK, Leave, Steps, Windows

\* Advancing keeps the types of what it moves.
LEMMA AdvanceTypes ==
  ASSUME TypeOK, NEW r \in Requests, NEW step \in Steps, Advance(r, step)
  PROVE  /\ pc' \in [Requests -> Steps]
         /\ window' \in [Requests -> Windows]
<1>1. NWindows \in Nat \ {0} /\ window[r] \in 1..NWindows
  BY QuotaAssumption DEF TypeOK, Windows
<1>2. pc \in [Requests -> Steps] /\ window \in [Requests -> Windows]
  BY DEF TypeOK
<1>3. CASE window[r] = NWindows
  BY <1>1, <1>2, <1>3 DEF Advance, Windows
<1>4. CASE window[r] # NWindows
  BY <1>1, <1>2, <1>4 DEF Advance, Windows
<1> QED
  BY <1>3, <1>4

\* Types are preserved.
LEMMA TypeStep == TypeOK /\ [Next]_vars => TypeOK'
<1> SUFFICES ASSUME TypeOK, [Next]_vars PROVE TypeOK'
  OBVIOUS
<1>1. ASSUME NEW r \in Requests, Arrive(r) PROVE TypeOK'
  <2>1. PICK k \in Keys, s \in Snapshots :
          /\ key' = [key EXCEPT ![r] = k]
          /\ quotas' = [quotas EXCEPT ![r] = s]
          /\ full' = [full EXCEPT ![r] =
               {CounterOf(q) : q \in {q \in Gates(k, s) : used[CounterOf(q)] >= q.limit}}]
    BY <1>1 DEF Arrive
  <2>2. {CounterOf(q) : q \in {q \in Gates(k, s) : used[CounterOf(q)] >= q.limit}}
          \in SUBSET Counters
    BY Resolved DEF Gates
  <2>3. full' \in [Requests -> SUBSET Counters]
    BY <2>1, <2>2 DEF TypeOK
  <2> QED
    BY <1>1, <2>1, <2>3 DEF Arrive, TypeOK, Steps, Replies
<1>2. ASSUME NEW r \in Requests, Pass(r) PROVE TypeOK'
  <2>1. {CounterOf(q) : q \in Current(r, "requests")} \in SUBSET Counters
    BY Resolved DEF Current, TypeOK
  <2>2. hits' \in [Requests -> SUBSET Counters]
    BY <1>2, <2>1 DEF Pass, TypeOK
  <2> QED
    BY <1>2, <2>2, AdvanceTypes DEF Pass, TypeOK, Steps
<1>3. ASSUME NEW r \in Requests, Deny(r) PROVE TypeOK'
  BY <1>3, LeaveTypes DEF Deny, TypeOK, Replies
<1>4. ASSUME NEW r \in Requests, Incr(r) PROVE TypeOK'
  <2>1. Due(r) \in SUBSET Counters
    BY DEF Due, TypeOK
  <2>2. used' \in [Counters -> Nat]
    BY <1>4 DEF Incr, TypeOK
  <2>3. /\ taken' \in [Requests -> SUBSET Counters]
        /\ hits' \in [Requests -> SUBSET Counters]
    BY <1>4, <2>1 DEF Incr, TypeOK
  <2> QED
    BY <1>4, <2>2, <2>3, AdvanceTypes DEF Incr, TypeOK, Steps
<1>5. ASSUME NEW r \in Requests, StoreFails(r) PROVE TypeOK'
  BY <1>5, LeaveTypes DEF StoreFails, TypeOK, Replies
<1>10. ASSUME NEW r \in Requests, IncrLost(r) PROVE TypeOK'
  <2>1. Due(r) \in SUBSET Counters
    BY DEF Due, TypeOK
  <2>2. used' \in [Counters -> Nat] /\ taken' \in [Requests -> SUBSET Counters]
    BY <1>10, <2>1 DEF IncrLost, TypeOK
  <2> QED
    BY <1>10, <2>2, LeaveTypes DEF IncrLost, TypeOK, Replies
<1>6. ASSUME NEW r \in Requests, Call(r) PROVE TypeOK'
  <2>1. CASE Leave(r)
    BY <1>6, <2>1, LeaveTypes DEF Call, TypeOK, Replies
  <2>2. CASE \E n \in 1..MaxTokens :
               /\ tokens' = [tokens EXCEPT ![r] = n]
               /\ pc' = [pc EXCEPT ![r] = "tokens"]
               /\ UNCHANGED <<key, quotas, window, hits>>
    BY <1>6, <2>2 DEF Call, TypeOK, Replies, Steps
  <2> QED
    BY <1>6, <2>1, <2>2 DEF Call
<1>7. ASSUME NEW r \in Requests, IncrTokens(r) PROVE TypeOK'
  <2>1. used' \in [Counters -> Nat]
    BY <1>7 DEF IncrTokens, TypeOK
  <2>2. CASE window[r] = NWindows
    BY <1>7, <2>1, <2>2, LeaveTypes DEF IncrTokens, TypeOK
  <2>3. CASE window[r] # NWindows
    <3>1. window[r] + 1 \in 1..NWindows
      BY <2>3, QuotaAssumption DEF TypeOK, Windows
    <3>2. window' = [window EXCEPT ![r] = window[r] + 1]
          /\ UNCHANGED <<pc, key, quotas, hits, tokens, reply, taken, full, calls, rolls>>
      BY <1>7, <2>3 DEF IncrTokens
    <3>3. window' \in [Requests -> Windows]
      BY <3>1, <3>2 DEF TypeOK, Windows
    <3> QED
      BY <2>1, <3>2, <3>3 DEF TypeOK
  <2> QED
    BY <2>2, <2>3
<1>8. ASSUME NEW w \in Timed, Roll(w) PROVE TypeOK'
  BY <1>8 DEF Roll, localVars, TypeOK
<1>9. CASE UNCHANGED vars
  BY <1>9 DEF vars, localVars, TypeOK
<1>11. ASSUME NEW r \in Requests, Step(r) PROVE TypeOK'
  BY <1>1, <1>2, <1>3, <1>4, <1>5, <1>6, <1>7, <1>10, <1>11 DEF Step
<1> QED
  BY <1>8, <1>9, <1>11 DEF Next

\* Only Pass makes a call hold more counters, and no call but the one that steps does.
LEMMA HoldsRequestsStep == IInv /\ [Next]_vars => HoldsRequests'
<1> SUFFICES ASSUME IInv, [Next]_vars PROVE HoldsRequests'
  OBVIOUS
<1> USE DEF IInv, HoldsRequests
<1>1. ASSUME NEW r \in Requests, Pass(r) PROVE HoldsRequests'
  <2>1. \A c \in {CounterOf(q) : q \in Current(r, "requests")} : c[2] = "requests"
    BY Resolved DEF Current, TypeOK
  <2> QED
    BY <1>1, <2>1 DEF Pass, TypeOK
<1>2. ASSUME NEW r \in Requests, Step(r), ~Pass(r) PROVE HoldsRequests'
  <2>1. \A x \in Requests : hits'[x] \subseteq hits[x]
    <3> hits \in [Requests -> SUBSET Counters]
      BY DEF TypeOK
    <3>1. CASE Arrive(r) \/ Deny(r) \/ StoreFails(r) \/ IncrLost(r)
      BY <3>1 DEF Arrive, Deny, StoreFails, IncrLost, Leave
    <3>2. CASE Incr(r)
      BY <3>2 DEF Incr
    <3>3. CASE Call(r)
      BY <3>3 DEF Call, Leave
    <3>4. CASE IncrTokens(r)
      BY <3>4 DEF IncrTokens, Leave
    <3> QED
      BY <1>2, <3>1, <3>2, <3>3, <3>4 DEF Step
  <2> QED
    BY <2>1
<1>3. ASSUME NEW w \in Timed, Roll(w) PROVE HoldsRequests'
  BY <1>3 DEF Roll, localVars
<1>4. CASE UNCHANGED vars
  BY <1>4 DEF vars, localVars
<1> QED
  BY <1>1, <1>2, <1>3, <1>4 DEF Next

\* The counter's room is kept by a check: the counter was below a limit, so below its
\* ceiling, and no more than all calls can hold it.
LEMMA RoomPass ==
  ASSUME IInv, TypeOK', NEW r \in Requests, Pass(r), NEW c \in Counters, c[2] = "requests"
  PROVE  used'[c] + Cardinality(Holders(c)') <= Allowance(c)
<1> DEFINE Passed == {CounterOf(q) : q \in Current(r, "requests")}
<1>1. used' = used
  BY DEF Pass
<1>2. CASE c \in Passed
  <2>1. PICK q \in Current(r, "requests") : c = CounterOf(q)
    BY <1>2
  <2>2. used[c] < q.limit /\ q.limit <= Ceiling[c] /\ q.limit \in Nat
    <3>1. q.limit \in Nat /\ q.limit <= Ceiling[c]
      BY <2>1, Resolved DEF Current, IInv, TypeOK
    <3>2. ~(used[c] >= q.limit)
      BY <2>1 DEF Pass, Reached
    <3> QED
      BY <3>1, <3>2 DEF IInv, TypeOK
  <2>3. used[c] \in Nat /\ Ceiling[c] \in Nat
    BY QuotaAssumption DEF IInv, TypeOK
  <2>4. Allowance(c) = Ceiling[c] - 1 + Cardinality(Requests)
    BY <2>2, <2>3 DEF Allowance
  <2>5. used[c] <= Ceiling[c] - 1
    BY <2>2, <2>3
  <2>6. /\ Cardinality(Holders(c)') \in Nat
        /\ Cardinality(Requests) \in Nat
        /\ Cardinality(Holders(c)') <= Cardinality(Requests)
    BY HoldersFinite, HoldersFiniteNext
  <2> QED
    BY <1>1, <2>3, <2>4, <2>5, <2>6
<1>3. CASE c \notin Passed
  <2>1. Holders(c)' \subseteq Holders(c)
    BY <1>3 DEF Pass, Holders, IInv, TypeOK
  <2>2. used'[c] <= used[c]
    BY <1>1 DEF IInv, TypeOK
  <2> QED
    BY <2>1, <2>2, RoomShrinks
<1> QED
  BY <1>2, <1>3

\* What an increment takes, its call no longer holds.
LEMMA RoomIncr ==
  ASSUME IInv, TypeOK', NEW r \in Requests, Incr(r) \/ IncrLost(r), NEW c \in Counters, c[2] = "requests"
  PROVE  used'[c] + Cardinality(Holders(c)') <= Allowance(c)
<1>1. CASE c \in Due(r)
  <2>1. r \in Holders(c)
    BY <1>1 DEF Due, Holders
  <2>2. Holders(c)' = Holders(c) \ {r}
    BY <1>1 DEF Incr, IncrLost, Leave, Holders, IInv, TypeOK
  <2>3. Cardinality(Holders(c)') = Cardinality(Holders(c)) - 1
    BY <2>1, <2>2, HoldersFinite, FS_RemoveElement
  <2>4. used'[c] = used[c] + 1 /\ used[c] \in Nat
    BY <1>1 DEF Incr, IncrLost, Leave, IInv, TypeOK
  <2>5. used[c] + Cardinality(Holders(c)) <= Allowance(c)
    BY DEF IInv, Room
  <2>6. Allowance(c) \in Int
    BY HoldersFinite, QuotaAssumption DEF Allowance
  <2> QED
    BY <2>3, <2>4, <2>5, <2>6, HoldersFinite
<1>2. CASE c \notin Due(r)
  <2>1. \A x \in Requests : hits'[x] \subseteq hits[x]
    <3>1. CASE Incr(r)
      BY <3>1 DEF Incr, IInv, TypeOK
    <3>2. CASE IncrLost(r)
      BY <3>2 DEF IncrLost, Leave, IInv, TypeOK
    <3> QED
      BY <3>1, <3>2
  <2>3. Holders(c)' \subseteq Holders(c)
    BY <2>1 DEF Holders
  <2>2. used'[c] <= used[c]
    BY <1>2 DEF Incr, IncrLost, Leave, IInv, TypeOK
  <2> QED
    BY <2>3, <2>2, RoomShrinks
<1> QED
  BY <1>1, <1>2

\* Every step keeps the room.
LEMMA RoomStep == IInv /\ [Next]_vars => Room'
<1> SUFFICES ASSUME IInv, [Next]_vars, NEW c \in Counters, c[2] = "requests"
             PROVE  used'[c] + Cardinality(Holders(c)') <= Allowance(c)
  BY DEF Room, Allowance
<1>0. TypeOK'
  BY TypeStep DEF IInv
<1>1. ASSUME NEW r \in Requests, Arrive(r) \/ Deny(r) \/ StoreFails(r) \/ Call(r)
      PROVE  used'[c] + Cardinality(Holders(c)') <= Allowance(c)
  <2>1. Holders(c)' \subseteq Holders(c)
    BY <1>1 DEF Arrive, Deny, StoreFails, Call, Leave, Holders, IInv, TypeOK
  <2>2. used'[c] <= used[c]
    BY <1>1 DEF Arrive, Deny, StoreFails, Call, IInv, TypeOK
  <2> QED
    BY <1>0, <2>1, <2>2, RoomShrinks
<1>2. ASSUME NEW r \in Requests, IncrTokens(r)
      PROVE  used'[c] + Cardinality(Holders(c)') <= Allowance(c)
  <2>1. Holders(c)' \subseteq Holders(c)
    BY <1>2 DEF IncrTokens, Leave, Holders, IInv, TypeOK
  <2>2. c \notin {CounterOf(q) : q \in Current(r, "tokens")}
    <3>1. \A q \in Current(r, "tokens") : CounterOf(q)[2] = "tokens"
      BY Resolved DEF Current, IInv, TypeOK
    <3> QED
      BY <3>1
  <2>3. used'[c] <= used[c]
    <3>1. \/ used' = used
          \/ used' = [d \in Counters |-> used[d] +
                        IF d \in {CounterOf(q) : q \in Current(r, "tokens")}
                          THEN tokens[r] ELSE 0]
      BY <1>2 DEF IncrTokens
    <3>2. used[c] \in Nat
      BY DEF IInv, TypeOK
    <3> QED
      BY <2>2, <3>1, <3>2
  <2> QED
    BY <1>0, <2>1, <2>3, RoomShrinks
<1>3. ASSUME NEW w \in Timed, Roll(w)
      PROVE  used'[c] + Cardinality(Holders(c)') <= Allowance(c)
  <2>1. Holders(c)' \subseteq Holders(c)
    BY <1>3 DEF Roll, localVars, Holders
  <2>2. used'[c] <= used[c]
    BY <1>3 DEF Roll, IInv, TypeOK
  <2> QED
    BY <1>0, <2>1, <2>2, RoomShrinks
<1>4. CASE UNCHANGED vars
  <2>1. Holders(c)' \subseteq Holders(c) /\ used'[c] <= used[c]
    BY <1>4 DEF vars, localVars, Holders, IInv, TypeOK
  <2> QED
    BY <1>0, <2>1, RoomShrinks
<1> QED
  BY <1>0, <1>1, <1>2, <1>3, <1>4, RoomPass, RoomIncr DEF Next, Step

\* A call's step leaves the others where they are, and takes from no counter.
LEMMA OthersKeep ==
  ASSUME TypeOK, NEW r \in Requests, Step(r)
  PROVE  /\ \A x \in Requests : x # r =>
              /\ pc'[x] = pc[x] /\ key'[x] = key[x] /\ quotas'[x] = quotas[x]
              /\ window'[x] = window[x] /\ hits'[x] = hits[x]
              /\ taken'[x] = taken[x] /\ full'[x] = full[x] /\ reply'[x] = reply[x]
         /\ \A c \in Counters : used'[c] >= used[c]
<1>1. \A x \in Requests : x # r =>
              /\ pc'[x] = pc[x] /\ key'[x] = key[x] /\ quotas'[x] = quotas[x]
              /\ window'[x] = window[x] /\ hits'[x] = hits[x]
              /\ taken'[x] = taken[x] /\ full'[x] = full[x] /\ reply'[x] = reply[x]
  BY DEF Step, Arrive, Pass, Deny, Incr, StoreFails, IncrLost, Call, IncrTokens, Leave, Advance, TypeOK
<1>2. \A c \in Counters : used'[c] >= used[c]
  <2>1. \A c \in Counters : used[c] \in Nat
    BY DEF TypeOK
  <2>2. CASE Incr(r) \/ IncrLost(r)
    BY <2>1, <2>2 DEF Incr, IncrLost
  <2>3. CASE IncrTokens(r)
    <3>1. tokens[r] \in Nat
      BY DEF TypeOK
    <3>2. \/ used' = used
          \/ used' = [d \in Counters |-> used[d] +
                        IF d \in {CounterOf(q) : q \in Current(r, "tokens")}
                          THEN tokens[r] ELSE 0]
      BY <2>3 DEF IncrTokens
    <3> QED
      BY <2>1, <3>1, <3>2
  <2>4. CASE Arrive(r) \/ Pass(r) \/ Deny(r) \/ StoreFails(r) \/ Call(r)
    BY <2>1, <2>4 DEF Arrive, Pass, Deny, StoreFails, Call
  <2> QED
    BY <2>2, <2>3, <2>4 DEF Step
<1> QED
  BY <1>1, <1>2

\* The part of StillFull that speaks of one call.
FullOf(x) ==
  /\ pc[x] = "check" => \A c \in full[x] :
       /\ c \in Counters
       /\ c[3] >= window[x]
       /\ \E q \in ResolveQuota(key[x], quotas[x], "requests", c[3]) :
            CounterOf(q) = c /\ used[c] >= q.limit
  /\ pc[x] \in {"incr", "call", "tokens"} => full[x] = {}

\* A call arrives: what is full is recorded with the quota it reached.
LEMMA FullArrive ==
  ASSUME IInv, NEW r \in Requests, Arrive(r)
  PROVE  FullOf(r)'
<1>1. PICK k \in Keys, s \in Snapshots :
        /\ key' = [key EXCEPT ![r] = k]
        /\ quotas' = [quotas EXCEPT ![r] = s]
        /\ full' = [full EXCEPT ![r] =
             {CounterOf(q) : q \in {q \in Gates(k, s) : used[CounterOf(q)] >= q.limit}}]
  BY DEF Arrive
<1>2. /\ pc'[r] = "check" /\ window'[r] = 1 /\ used' = used
      /\ key'[r] = k /\ quotas'[r] = s
      /\ full'[r] = {CounterOf(q) : q \in {q \in Gates(k, s) : used[CounterOf(q)] >= q.limit}}
  BY <1>1 DEF Arrive, IInv, TypeOK, Progress
<1>3. ASSUME NEW c \in full'[r]
      PROVE  /\ c \in Counters
             /\ c[3] >= 1
             /\ \E q \in ResolveQuota(k, s, "requests", c[3]) :
                  CounterOf(q) = c /\ used[c] >= q.limit
  <2>1. PICK w \in Windows : \E q \in ResolveQuota(k, s, "requests", w) :
               CounterOf(q) = c /\ used[c] >= q.limit
    BY <1>2, <1>3 DEF Gates
  <2>2. PICK q \in ResolveQuota(k, s, "requests", w) : CounterOf(q) = c /\ used[c] >= q.limit
    BY <2>1
  <2>3. c \in Counters /\ c[3] = w
    BY <2>2, Resolved
  <2> QED
    BY <2>2, <2>3, QuotaAssumption DEF Windows
<1> QED
  BY <1>2, <1>3 DEF FullOf

\* A call passes a window: nothing of that window was full.
LEMMA FullPass ==
  ASSUME IInv, NEW r \in Requests, Pass(r)
  PROVE  FullOf(r)'
<1>1. /\ pc[r] = "check" /\ used' = used /\ key' = key /\ quotas' = quotas /\ full' = full
      /\ NWindows \in Nat /\ window[r] \in 1..NWindows
  BY QuotaAssumption DEF Pass, IInv, TypeOK, Windows
<1>2. ASSUME NEW c \in full[r]
      PROVE  /\ c \in Counters
             /\ c[3] \in 1..NWindows
             /\ c[3] >= window[r] + 1
             /\ \E q \in ResolveQuota(key[r], quotas[r], "requests", c[3]) :
                  CounterOf(q) = c /\ used[c] >= q.limit
  <2>1. PICK q \in ResolveQuota(key[r], quotas[r], "requests", c[3]) :
               CounterOf(q) = c /\ used[c] >= q.limit
    BY <1>1 DEF IInv, StillFull
  <2>2. c \in Counters /\ c[3] >= window[r]
    BY <1>1 DEF IInv, StillFull
  <2>3. c[3] # window[r]
    BY <2>1 DEF Pass, Current, Reached
  <2>4. c[3] \in 1..NWindows
    BY <2>2 DEF Counters, Windows
  <2> QED
    BY <1>1, <2>1, <2>2, <2>3, <2>4
<1>3. CASE window[r] = NWindows
  <2>1. full[r] = {}
    BY <1>1, <1>2, <1>3
  <2>2. pc'[r] = "incr"
    BY <1>3 DEF Pass, Advance, IInv, TypeOK
  <2> QED
    BY <1>1, <2>1, <2>2 DEF FullOf
<1>4. CASE window[r] # NWindows
  <2>1. pc'[r] = "check" /\ window'[r] = window[r] + 1
    BY <1>1, <1>4 DEF Pass, Advance, IInv, TypeOK
  <2> QED
    BY <1>1, <1>2, <2>1 DEF FullOf
<1> QED
  BY <1>3, <1>4

\* Every step keeps what is full for a call still to be found so.
LEMMA FullStep == IInv /\ [Next]_vars => StillFull'
<1> SUFFICES ASSUME IInv, [Next]_vars, NEW x \in Requests PROVE FullOf(x)'
  BY DEF StillFull, FullOf
<1>0. FullOf(x) /\ TypeOK
  BY DEF IInv, StillFull, FullOf
<1>1. ASSUME NEW r \in Requests, Step(r), x # r PROVE FullOf(x)'
  <2>1. /\ pc'[x] = pc[x] /\ key'[x] = key[x] /\ quotas'[x] = quotas[x]
        /\ window'[x] = window[x] /\ full'[x] = full[x]
        /\ \A c \in Counters : used'[c] >= used[c]
    BY <1>0, <1>1, OthersKeep
  <2>2. ASSUME pc[x] = "check", NEW c \in full[x]
        PROVE  /\ c \in Counters
               /\ c[3] >= window[x]
               /\ \E q \in ResolveQuota(key[x], quotas[x], "requests", c[3]) :
                    CounterOf(q) = c /\ used'[c] >= q.limit
    <3>1. PICK q \in ResolveQuota(key[x], quotas[x], "requests", c[3]) :
                 CounterOf(q) = c /\ used[c] >= q.limit
      BY <1>0, <2>2 DEF FullOf
    <3>2. c \in Counters /\ c[3] >= window[x]
      BY <1>0, <2>2 DEF FullOf
    <3>3. q.limit \in Nat /\ used[c] \in Nat /\ used'[c] \in Nat
      BY <1>0, <3>1, <3>2, Resolved, TypeStep DEF TypeOK
    <3> QED
      BY <2>1, <3>1, <3>2, <3>3
  <2> QED
    BY <1>0, <2>1, <2>2 DEF FullOf
<1>2. ASSUME Deny(x) \/ StoreFails(x) PROVE FullOf(x)'
  BY <1>0, <1>2 DEF Deny, StoreFails, Leave, FullOf, TypeOK
<1>7. ASSUME IncrLost(x) PROVE FullOf(x)'
  BY <1>0, <1>7 DEF IncrLost, Leave, FullOf, TypeOK
<1>3. ASSUME Incr(x) PROVE FullOf(x)'
  BY <1>0, <1>3 DEF Incr, Advance, FullOf, TypeOK
<1>4. ASSUME Call(x) \/ IncrTokens(x) PROVE FullOf(x)'
  BY <1>0, <1>4 DEF Call, IncrTokens, Leave, FullOf, TypeOK
<1>5. ASSUME NEW w \in Timed, Roll(w) PROVE FullOf(x)'
  BY <1>0, <1>5 DEF Roll, localVars, FullOf, TypeOK
<1>6. CASE UNCHANGED vars
  BY <1>0, <1>6 DEF vars, localVars, FullOf
<1> QED
  BY <1>1, <1>2, <1>3, <1>4, <1>5, <1>6, <1>7, FullArrive, FullPass DEF Next, Step

\* The part of Progress that speaks of one call.
ProgressOf(x) ==
  /\ pc[x] \in {"idle", "call"} => window[x] = 1
  /\ pc[x] = "idle" => hits[x] = {}
  /\ pc[x] = "check" => /\ taken[x] = {}
                       /\ hits[x] = Counted(x, 1..(window[x] - 1))
  /\ pc[x] = "incr" => /\ taken[x] = Counted(x, 1..(window[x] - 1))
                      /\ hits[x] = Counted(x, window[x]..NWindows)
  /\ pc[x] \in {"call", "tokens"} => taken[x] = Counted(x, Windows)
  /\ reply[x] = "denied" => pc[x] = "idle" /\ taken[x] = {}

\* What is counted in one more window, and what is counted in none.
LEMMA CountedMore ==
  ASSUME NEW x \in Requests, NEW W, NEW w
  PROVE  /\ Counted(x, W \cup {w}) = Counted(x, W) \cup
              {CounterOf(q) : q \in ResolveQuota(key[x], quotas[x], "requests", w)}
         /\ Counted(x, {}) = {}
  BY DEF Counted

\* A call passes a window.
LEMMA ProgressPass ==
  ASSUME IInv, NEW x \in Requests, Pass(x)
  PROVE  ProgressOf(x)'
<1>1. /\ pc[x] = "check" /\ key' = key /\ quotas' = quotas /\ taken' = taken /\ reply' = reply
      /\ NWindows \in Nat \ {0} /\ window[x] \in 1..NWindows
      /\ taken[x] = {} /\ reply[x] # "denied"
      /\ hits[x] = Counted(x, 1..(window[x] - 1))
  BY QuotaAssumption DEF Pass, IInv, TypeOK, Windows, Progress
<1>2. hits'[x] = Counted(x, 1..window[x])
  <2>1. hits'[x] = hits[x] \cup {CounterOf(q) :
                       q \in ResolveQuota(key[x], quotas[x], "requests", window[x])}
    BY DEF Pass, Current, IInv, TypeOK
  <2>2. 1..window[x] = (1..(window[x] - 1)) \cup {window[x]}
    BY <1>1
  <2>3. Counted(x, (1..(window[x] - 1)) \cup {window[x]})
          = Counted(x, 1..(window[x] - 1)) \cup
              {CounterOf(q) : q \in ResolveQuota(key[x], quotas[x], "requests", window[x])}
    BY CountedMore
  <2>4. Counted(x, 1..window[x]) = Counted(x, (1..(window[x] - 1)) \cup {window[x]})
    BY <2>2, Zenon
  <2> QED
    BY <1>1, <2>1, <2>3, <2>4, Zenon
<1>3. \A W : Counted(x, W)' = Counted(x, W)
  BY <1>1 DEF Counted
<1>4. CASE window[x] = NWindows
  <2>1. pc'[x] = "incr" /\ window'[x] = 1
    BY <1>4 DEF Pass, Advance, IInv, TypeOK
  <2>2. 1..0 = {}
    OBVIOUS
  <2>3. Counted(x, 1..0) = {}
    BY <2>2, CountedMore
  <2> QED
    BY <1>1, <1>2, <1>3, <1>4, <2>1, <2>3 DEF ProgressOf
<1>5. CASE window[x] # NWindows
  <2>1. pc'[x] = "check" /\ window'[x] = window[x] + 1
    BY <1>1, <1>5 DEF Pass, Advance, IInv, TypeOK
  <2>2. window'[x] - 1 = window[x]
    BY <1>1, <2>1
  <2> QED
    BY <1>1, <1>2, <1>3, <2>1, <2>2 DEF ProgressOf
<1> QED
  BY <1>4, <1>5

\* A call increments the quotas it holds in a window.
LEMMA ProgressIncr ==
  ASSUME IInv, NEW x \in Requests, Incr(x)
  PROVE  ProgressOf(x)'
<1> DEFINE Here == {CounterOf(q) : q \in ResolveQuota(key[x], quotas[x], "requests", window[x])}
<1>1. /\ pc[x] = "incr" /\ key' = key /\ quotas' = quotas /\ reply' = reply
      /\ NWindows \in Nat \ {0} /\ window[x] \in 1..NWindows
      /\ reply[x] # "denied"
      /\ taken[x] = Counted(x, 1..(window[x] - 1))
      /\ hits[x] = Counted(x, window[x]..NWindows)
  BY QuotaAssumption DEF Incr, IInv, TypeOK, Windows, Progress
<1>2. \A w \in Windows : \A q \in ResolveQuota(key[x], quotas[x], "requests", w) :
        CounterOf(q)[3] = w
  BY Resolved DEF IInv, TypeOK
<1>3. Due(x) = Here
  <2>1. \A c \in Here : c \in hits[x] /\ c[3] = window[x]
    BY <1>1, <1>2 DEF Counted, Windows
  <2>2. \A c \in hits[x] : c[3] = window[x] => c \in Here
    <3>1. ASSUME NEW c \in hits[x], c[3] = window[x] PROVE c \in Here
      <4>1. PICK w \in window[x]..NWindows :
              \E q \in ResolveQuota(key[x], quotas[x], "requests", w) : c = CounterOf(q)
        BY <1>1 DEF Counted
      <4>2. w = window[x]
        BY <1>1, <1>2, <3>1, <4>1 DEF Windows
      <4> QED
        BY <4>1, <4>2
    <3> QED
      BY <3>1
  <2> QED
    BY <2>1, <2>2 DEF Due
<1>4. taken'[x] = Counted(x, 1..window[x])
  <2>1. taken'[x] = taken[x] \cup Here
    BY <1>3 DEF Incr, IInv, TypeOK
  <2>2. 1..window[x] = (1..(window[x] - 1)) \cup {window[x]}
    BY <1>1
  <2>3. Counted(x, (1..(window[x] - 1)) \cup {window[x]}) = Counted(x, 1..(window[x] - 1)) \cup Here
    BY CountedMore
  <2>4. Counted(x, 1..window[x]) = Counted(x, (1..(window[x] - 1)) \cup {window[x]})
    BY <2>2, Zenon
  <2> QED
    BY <1>1, <2>1, <2>3, <2>4, Zenon
<1>5. hits'[x] = Counted(x, (window[x] + 1)..NWindows)
  <2>1. hits'[x] = hits[x] \ Here
    BY <1>3 DEF Incr, IInv, TypeOK
  <2>2. window[x]..NWindows = ((window[x] + 1)..NWindows) \cup {window[x]}
    BY <1>1
  <2>3. hits[x] = Counted(x, (window[x] + 1)..NWindows) \cup Here
    <3>1. Counted(x, ((window[x] + 1)..NWindows) \cup {window[x]})
            = Counted(x, (window[x] + 1)..NWindows) \cup Here
      BY CountedMore
    <3>2. Counted(x, window[x]..NWindows)
            = Counted(x, ((window[x] + 1)..NWindows) \cup {window[x]})
      BY <2>2, Zenon
    <3> QED
      BY <1>1, <3>1, <3>2, Zenon
  <2>4. \A c \in Counted(x, (window[x] + 1)..NWindows) : c \notin Here
    <3>1. ASSUME NEW c \in Counted(x, (window[x] + 1)..NWindows) PROVE c \notin Here
      <4>1. PICK w \in (window[x] + 1)..NWindows :
              \E q \in ResolveQuota(key[x], quotas[x], "requests", w) : c = CounterOf(q)
        BY <3>1 DEF Counted
      <4>2. c[3] = w /\ w # window[x]
        BY <1>1, <1>2, <4>1 DEF Windows
      <4>3. \A d \in Here : d[3] = window[x]
        BY <1>1, <1>2 DEF Windows
      <4> QED
        BY <4>2, <4>3
    <3> QED
      BY <3>1
  <2> QED
    BY <2>1, <2>3, <2>4
<1>6. \A W : Counted(x, W)' = Counted(x, W)
  BY <1>1 DEF Counted
<1>7. CASE window[x] = NWindows
  <2>1. pc'[x] = "call" /\ window'[x] = 1
    BY <1>7 DEF Incr, Advance, IInv, TypeOK
  <2> QED
    BY <1>1, <1>4, <1>6, <1>7, <2>1 DEF ProgressOf, Windows
<1>8. CASE window[x] # NWindows
  <2>1. pc'[x] = "incr" /\ window'[x] = window[x] + 1
    BY <1>1, <1>8 DEF Incr, Advance, IInv, TypeOK
  <2>2. window'[x] - 1 = window[x]
    BY <1>1, <2>1
  <2> QED
    BY <1>1, <1>4, <1>5, <1>6, <2>1, <2>2 DEF ProgressOf
<1> QED
  BY <1>7, <1>8

\* Every step keeps the calls' progress.
LEMMA ProgressStep == IInv /\ [Next]_vars => Progress'
<1> SUFFICES ASSUME IInv, [Next]_vars, NEW x \in Requests PROVE ProgressOf(x)'
  BY DEF Progress, ProgressOf
<1>0. ProgressOf(x) /\ TypeOK
  BY DEF IInv, Progress, ProgressOf
<1>1. ASSUME NEW r \in Requests, Step(r), x # r PROVE ProgressOf(x)'
  <2>1. /\ pc'[x] = pc[x] /\ key'[x] = key[x] /\ quotas'[x] = quotas[x]
        /\ window'[x] = window[x] /\ hits'[x] = hits[x]
        /\ taken'[x] = taken[x] /\ reply'[x] = reply[x]
    BY <1>0, <1>1, OthersKeep
  <2>2. \A W : Counted(x, W)' = Counted(x, W)
    BY <2>1 DEF Counted
  <2> QED
    BY <1>0, <2>1, <2>2 DEF ProgressOf
<1>2. ASSUME Arrive(x) PROVE ProgressOf(x)'
  <2>1. /\ pc'[x] = "check" /\ window'[x] = 1 /\ taken'[x] = {} /\ reply'[x] = "none"
    BY <1>0, <1>2 DEF Arrive, ProgressOf, TypeOK
  <2>2. hits'[x] = {} /\ Counted(x, 1..0)' = {}
    BY <1>0, <1>2 DEF Arrive, Counted, ProgressOf
  <2> QED
    BY <2>1, <2>2 DEF ProgressOf
<1>3. ASSUME Deny(x) \/ StoreFails(x) PROVE ProgressOf(x)'
  BY <1>0, <1>3 DEF Deny, StoreFails, Leave, ProgressOf, TypeOK
<1>9. ASSUME IncrLost(x) PROVE ProgressOf(x)'
  BY <1>0, <1>9 DEF IncrLost, Leave, ProgressOf, TypeOK
<1>4. ASSUME Call(x) PROVE ProgressOf(x)'
  <2>1. CASE Leave(x)
    BY <1>0, <1>4, <2>1 DEF Call, Leave, ProgressOf, TypeOK
  <2>2. CASE ~Leave(x)
    <3>1. /\ pc[x] = "call" /\ pc'[x] = "tokens" /\ key' = key /\ quotas' = quotas
          /\ taken' = taken /\ reply'[x] = "admitted"
      BY <1>0, <1>4, <2>2 DEF Call, TypeOK
    <3>2. Counted(x, Windows)' = Counted(x, Windows)
      BY <3>1 DEF Counted
    <3> QED
      BY <1>0, <3>1, <3>2 DEF ProgressOf
  <2> QED
    BY <2>1, <2>2
<1>5. ASSUME IncrTokens(x) PROVE ProgressOf(x)'
  <2>1. CASE window[x] = NWindows
    BY <1>0, <1>5, <2>1 DEF IncrTokens, Leave, ProgressOf, TypeOK
  <2>2. CASE window[x] # NWindows
    <3>1. /\ pc[x] = "tokens" /\ pc' = pc /\ key' = key /\ quotas' = quotas
          /\ taken' = taken /\ reply' = reply
      BY <1>5, <2>2 DEF IncrTokens
    <3>2. Counted(x, Windows)' = Counted(x, Windows)
      BY <3>1 DEF Counted
    <3> QED
      BY <1>0, <3>1, <3>2 DEF ProgressOf
  <2> QED
    BY <2>1, <2>2
<1>6. ASSUME UNCHANGED <<pc, localVars, reply, taken>> PROVE ProgressOf(x)'
  <2>1. \A W : Counted(x, W)' = Counted(x, W)
    BY <1>6 DEF localVars, Counted
  <2> QED
    BY <1>0, <1>6, <2>1 DEF localVars, ProgressOf
<1>7. ASSUME NEW w \in Timed, Roll(w) PROVE ProgressOf(x)'
  BY <1>6, <1>7 DEF Roll
<1>8. CASE UNCHANGED vars
  BY <1>6, <1>8 DEF vars
<1> QED
  BY <1>1, <1>2, <1>3, <1>4, <1>5, <1>7, <1>8, <1>9, ProgressPass, ProgressIncr DEF Next, Step

\* The inductive invariant holds in every reachable state.
THEOREM Invariant == Spec => []IInv
<1>1. IInv /\ [Next]_vars => IInv'
  BY TypeStep, RoomStep, HoldsRequestsStep, FullStep, ProgressStep DEF IInv
<1> QED
  BY <1>1, InitInv, PTL DEF Spec

\* The type invariant of checkAndIncrRequests' locals and of the counters.
THEOREM TypeCorrect == Spec => []TypeOK
<1>1. IInv => TypeOK
  BY DEF IInv
<1> QED
  BY <1>1, Invariant, PTL

\* Whatever the number of calls in flight, a request counter goes over its limit by less
\* than that number.
THEOREM Overshoot == Spec => []OvershootBounded
<1>1. IInv => OvershootBounded
  <2> SUFFICES ASSUME IInv, NEW c \in Counters, c[2] = "requests"
               PROVE  used[c] <= Allowance(c)
    BY DEF OvershootBounded
  <2>1. used[c] + Cardinality(Holders(c)) <= Allowance(c)
    BY DEF IInv, Room
  <2>2. used[c] \in Nat /\ Ceiling[c] \in Nat
    BY QuotaAssumption DEF IInv, TypeOK
  <2>3. Allowance(c) \in Int
    <3>1. Cardinality(Requests) \in Nat
      BY QuotaAssumption, FS_CardinalityType
    <3> QED
      BY <2>2, <3>1 DEF Allowance
  <2> QED
    BY <2>1, <2>2, <2>3, HoldersFinite
<1> QED
  BY <1>1, Invariant, PTL

\* A call that arrives after a quota of its key is used up is never admitted in that window.
THEOREM Exhausted == Spec => []ExhaustedDenies
<1>1. IInv => ExhaustedDenies
  BY DEF IInv, StillFull, ExhaustedDenies
<1> QED
  BY <1>1, Invariant, PTL

\* A 429 consumes nothing.
THEOREM DenialIsFree == Spec => []DeniedTakesNothing
<1>1. IInv => DeniedTakesNothing
  BY DEF IInv, Progress, DeniedTakesNothing
<1> QED
  BY <1>1, Invariant, PTL

\* An admitted call has been counted once in each window it has a quota in.
THEOREM Admission == Spec => []AdmittedTookAll
<1>1. IInv => AdmittedTookAll
  BY DEF IInv, Progress, AdmittedTookAll, Counted, Gates
<1> QED
  BY <1>1, Invariant, PTL

-----------------------------------------------------------------------------
(* SingleCalls: the inductive invariant *)

Places == {"idle", "arrived", "gate", "find", "call", "reply", "persist", "record", "after",
           "done", "lost"}
JobRecord ==
  [at : Places, r : Signed \cup {0}, began : Nat, reached : BOOLEAN,
   answer : {"none", "failed", "status", "ok", "cut"}, moved : Nat,
   body : {"none", "error", "upstream", "part", "rewritten"},
   status : {"none", "ok", "error"}, usages : Nat, afters : Nat]

SingleTypes ==
  /\ job \in [Deliveries -> JobRecord]
  /\ request \in [Signed -> [kind : Kinds, signed : BOOLEAN, created : Nat, images : {MaxImages},
                             type : Types, keeps : BOOLEAN]]
  /\ now \in Nat /\ run \in Nat
  /\ DOMAIN nonces \subseteq Signed
  /\ \A r \in DOMAIN nonces : nonces[r] \in Nat
  /\ passed \subseteq Signed \X Nat \X Deliveries
  /\ \A p \in passed : p[2] <= run

\* A request that was let in during this run is remembered until no clock lets it look
\* fresh any more.
Remembered ==
  \A p \in passed : p[2] = run =>
    \/ p[1] \in DOMAIN nonces /\ nonces[p[1]] >= request[p[1]].created + Skew
    \/ now >= request[p[1]].created + Skew

\* What a handler of kind k has recorded when it comes to its steps.
AsAnswered(j) == j.status = "ok" => j.answer = "ok" /\ j.body # "part"
Accounted(j, k) ==
  /\ j.at # "idle" => j.r \in Signed
  /\ j.at \in {"idle", "arrived", "gate", "find", "call"} => ~j.reached
  /\ j.at \in {"idle", "arrived", "gate", "find", "call", "reply", "persist"} =>
       j.usages = 0 /\ j.afters = 0 /\ j.status = "none"
  /\ j.at = "persist" => j.answer = "ok"
  /\ j.at = "record" => j.usages = 0 /\ j.afters = 0 /\ AsAnswered(j)
  /\ j.at = "after" => j.usages = 1 /\ j.afters = 0 /\ AsAnswered(j)
  /\ j.at = "done" =>
       /\ j.usages = j.afters /\ AsAnswered(j)
       /\ j.reached => \/ j.usages = 1
                       \/ k = "card" /\ j.answer = "ok" /\ j.body = "error"

SingleInv ==
  /\ SingleTypes
  /\ Remembered
  /\ S!ServedOnce
  /\ \A d \in Deliveries : Accounted(job[d], S!kind(d))

\* Each step leaves the handler's locals typed, and with the account its next step expects.
LEMMA Onward ==
  ASSUME NEW j \in JobRecord, NEW k, Accounted(j, k),
         NEW new, NEW to, new = [j EXCEPT !.at = to],
         \/ j.at = "arrived" /\ to = "gate"
         \/ j.at = "gate" /\ to = "find"
         \/ j.at = "find" /\ to = "call"
         \/ j.at = "reply" /\ to = "persist" /\ j.answer = "ok"
  PROVE  new \in JobRecord /\ Accounted(new, k)
BY DEF JobRecord, Places, Accounted

LEMMA Refused ==
  ASSUME NEW j \in JobRecord, NEW k, Accounted(j, k),
         NEW new, new = [j EXCEPT !.at = "done", !.body = "error"],
         \/ j.at \in {"arrived", "gate", "find"}
         \/ j.at = "reply" /\ k = "card" /\ j.answer = "ok"
  PROVE  new \in JobRecord /\ Accounted(new, k)
<1>1. new \in JobRecord
  BY DEF JobRecord, Places
<1>2. /\ new.at = "done" /\ new.usages = j.usages /\ new.afters = j.afters /\ new.body = "error"
      /\ new.status = j.status /\ new.reached = j.reached /\ new.answer = j.answer
      /\ new.r = j.r
  BY DEF JobRecord
<1> QED
  BY <1>1, <1>2 DEF Accounted, AsAnswered

LEMMA Replied ==
  ASSUME NEW j \in JobRecord, NEW k, Accounted(j, k), j.at \in {"reply", "persist"},
         NEW new, NEW body \in {"error", "upstream", "part", "rewritten"},
         NEW status \in {"ok", "error"},
         new = S!Ended(j, body, status), status = "ok" => j.answer = "ok" /\ body # "part"
  PROVE  new \in JobRecord /\ Accounted(new, k)
<1>1. new \in JobRecord
  BY DEF JobRecord, Places, S!Ended
<1>2. /\ new.at = "record" /\ new.usages = j.usages /\ new.afters = j.afters
      /\ new.body = body /\ new.status = status /\ new.answer = j.answer /\ new.r = j.r
  BY DEF JobRecord, S!Ended
<1> QED
  BY <1>1, <1>2 DEF Accounted, AsAnswered

\* A step changes the locals of its own handler only.
LEMMA HandlerStep ==
  ASSUME SingleInv, NEW d \in Deliveries, S!Step(d) \/ S!Deliver(d)
  PROVE  /\ job' = [job EXCEPT ![d] = job'[d]]
         /\ job'[d] \in JobRecord
         /\ Accounted(job'[d], S!kind(d)')
         /\ UNCHANGED <<request, now, run>>
<1> DEFINE j == job[d]
           k == S!kind(d)
<1>1. job \in [Deliveries -> JobRecord] /\ j \in JobRecord /\ Accounted(j, k)
  BY DEF SingleInv, SingleTypes
<1>2. SUFFICES /\ job' = [job EXCEPT ![d] = job'[d]] /\ job'[d] \in JobRecord
               /\ \/ job'[d].r = j.r /\ Accounted(job'[d], k)
                  \/ \A any : Accounted(job'[d], any)
               /\ UNCHANGED <<request, now, run>>
  BY DEF S!kind
<1> USE DEF S!Quiet
<1>3. CASE S!Authenticate(d)
  <2>1. CASE S!Refuse(d)
    <3>1. job'[d] = [j EXCEPT !.at = "done", !.body = "error"] /\ j.at = "arrived"
      BY <1>1, <1>3, <2>1 DEF S!Refuse, S!Authenticate
    <3>2. job'[d] \in JobRecord /\ Accounted(job'[d], k)
      BY <1>1, <3>1, Refused
    <3>3. job'[d].r = j.r
      BY <1>1, <3>1 DEF JobRecord
    <3> QED
      BY <1>1, <1>3, <2>1, <3>2, <3>3 DEF S!Refuse, S!Authenticate
  <2>2. CASE S!Goes(d, "gate")
    <3>1. job'[d] = [j EXCEPT !.at = "gate"] /\ j.at = "arrived"
      BY <1>1, <1>3, <2>2 DEF S!Goes, S!Authenticate
    <3>2. job'[d] \in JobRecord /\ Accounted(job'[d], k)
      BY <1>1, <3>1, Onward
    <3>3. job'[d].r = j.r
      BY <1>1, <3>1 DEF JobRecord
    <3> QED
      BY <1>1, <1>3, <2>2, <3>2, <3>3 DEF S!Goes, S!Authenticate
  <2> QED
    BY <1>3, <2>1, <2>2 DEF S!Authenticate
<1>4. CASE S!Gate(d) \/ S!Find(d)
  <2>1. /\ UNCHANGED <<request, now, run>>
        /\ S!Refuse(d) \/ (j.at = "gate" /\ S!Goes(d, "find")) \/ (j.at = "find" /\ S!Goes(d, "call"))
        /\ j.at \in {"gate", "find"}
    BY <1>4 DEF S!Gate, S!Find, S!FindEmbeddings, S!FindImages, S!FindMCP, S!FindAgent, S!Finds
  <2>2. CASE S!Refuse(d)
    <3>1. job'[d] = [j EXCEPT !.at = "done", !.body = "error"]
      BY <1>1, <2>2 DEF S!Refuse
    <3>2. job'[d] \in JobRecord /\ Accounted(job'[d], k)
      BY <1>1, <2>1, <3>1, Refused
    <3>3. job'[d].r = j.r
      BY <1>1, <3>1 DEF JobRecord
    <3> QED
      BY <1>1, <2>1, <2>2, <3>2, <3>3 DEF S!Refuse
  <2>3. ASSUME NEW to \in {"find", "call"}, S!Goes(d, to),
               \/ j.at = "gate" /\ to = "find"
               \/ j.at = "find" /\ to = "call"
        PROVE  /\ job' = [job EXCEPT ![d] = job'[d]] /\ job'[d] \in JobRecord
               /\ job'[d].r = j.r /\ Accounted(job'[d], k)
    <3>1. job'[d] = [j EXCEPT !.at = to]
      BY <1>1, <2>3 DEF S!Goes
    <3>2. job'[d] \in JobRecord /\ Accounted(job'[d], k)
      BY <1>1, <2>3, <3>1, Onward
    <3>3. job'[d].r = j.r
      BY <1>1, <3>1 DEF JobRecord
    <3> QED
      BY <1>1, <2>3, <3>2, <3>3 DEF S!Goes
  <2> QED
    BY <2>1, <2>2, <2>3
<1>5. CASE S!Call(d) \/ S!LoadCard(d)
  <2>1. PICK answer \in {"failed", "status", "ok", "cut"}, reached \in BOOLEAN :
          job' = [job EXCEPT ![d] = [j EXCEPT !.at = "reply", !.reached = reached, !.answer = answer]]
    <3>1. CASE \E x : S!Answered(d, x)
      <4>1. PICK answer \in {"failed", "status", "ok", "cut"} :
              job' = [job EXCEPT ![d].at = "reply", ![d].reached = TRUE, ![d].answer = answer]
        BY <3>1 DEF S!Answered
      <4>2. job' = [job EXCEPT ![d] = [j EXCEPT !.at = "reply", !.reached = TRUE, !.answer = answer]]
        BY <1>1, <4>1
      <4> QED
        BY <4>2
    <3>2. CASE job' = [job EXCEPT ![d].at = "reply", ![d].answer = "ok"]
      <4>1. j.reached \in BOOLEAN
        BY <1>1 DEF JobRecord
      <4>2. [j EXCEPT !.at = "reply", !.reached = j.reached, !.answer = "ok"]
              = [j EXCEPT !.at = "reply", !.answer = "ok"]
        BY <1>1 DEF JobRecord
      <4> QED
        BY <1>1, <3>2, <4>1, <4>2
    <3> QED
      BY <1>5, <3>1, <3>2 DEF S!Call, S!LoadCard
  <2>2. UNCHANGED <<request, now, run>> /\ j.at = "call"
    BY <1>5 DEF S!Call, S!LoadCard, S!Answered
  <2> DEFINE new == [j EXCEPT !.at = "reply", !.reached = reached, !.answer = answer]
  <2>3. job'[d] = new /\ job' = [job EXCEPT ![d] = job'[d]]
    BY <1>1, <2>1
  <2>4. new \in JobRecord /\ new.r = j.r /\ new.at = "reply" /\ new.usages = j.usages
        /\ new.afters = j.afters /\ new.status = j.status
    BY <1>1 DEF JobRecord, Places
  <2>5. Accounted(new, k)
    BY <1>1, <2>2, <2>4 DEF Accounted
  <2> QED
    BY <2>2, <2>3, <2>4, <2>5
<1>6. CASE S!Reply(d) \/ S!Persist(d)
  <2>1. UNCHANGED <<request, now, run>> /\ j.at \in {"reply", "persist"}
    BY <1>6 DEF S!Reply, S!Persist, S!ReplyFailed, S!ReplyStatus, S!ReplyMCP, S!ReplyA2A,
       S!ReplyEmbeddings, S!ReplyCard, S!ReplyImages
  <2>2. \/ \E body \in {"error", "upstream", "part", "rewritten"}, status \in {"ok", "error"} :
             /\ job' = [job EXCEPT ![d] = S!Ended(@, body, status)]
             /\ status = "ok" => j.answer = "ok" /\ body # "part"
        \/ S!Refuse(d) /\ j.at = "reply" /\ k = "card" /\ j.answer = "ok"
        \/ S!Goes(d, "persist") /\ j.at = "reply" /\ j.answer = "ok"
        \/ j.at = "persist" /\ job' = [job EXCEPT ![d].moved = @ + 1]
    <3>1. CASE S!CopyResponse(d)
      BY <1>1, <3>1 DEF S!CopyResponse
    <3>2. CASE S!ReplyFailed(d) \/ S!ReplyEmbeddings(d)
      BY <1>1, <3>2 DEF S!ReplyFailed, S!ReplyEmbeddings
    <3>3. CASE S!ReplyCard(d)
      BY <1>1, <3>3 DEF S!ReplyCard
    <3>4. CASE S!ReplyImages(d)
      BY <1>1, <3>4 DEF S!ReplyImages
    <3>5. CASE S!Persist(d)
      <4>1. j.at = "persist" /\ j.answer = "ok"
        BY <1>1, <3>5 DEF S!Persist, Accounted
      <4> QED
        BY <1>1, <3>5, <4>1 DEF S!Persist
    <3> QED
      BY <1>6, <3>1, <3>2, <3>3, <3>4, <3>5 DEF S!Reply, S!ReplyStatus, S!ReplyMCP, S!ReplyA2A
  <2>3. ASSUME NEW body \in {"error", "upstream", "part", "rewritten"}, NEW status \in {"ok", "error"},
               job' = [job EXCEPT ![d] = S!Ended(@, body, status)],
               status = "ok" => j.answer = "ok" /\ body # "part"
        PROVE  /\ job' = [job EXCEPT ![d] = job'[d]] /\ job'[d] \in JobRecord
               /\ job'[d].r = j.r /\ Accounted(job'[d], k)
    <3>1. job'[d] = S!Ended(j, body, status)
      BY <1>1, <2>3
    <3>2. job'[d] \in JobRecord /\ Accounted(job'[d], k)
      BY <1>1, <2>1, <2>3, <3>1, Replied
    <3>3. job'[d].r = j.r
      BY <1>1, <3>1 DEF JobRecord, S!Ended
    <3> QED
      BY <1>1, <2>3, <3>2, <3>3
  <2>4. CASE S!Refuse(d) /\ j.at = "reply" /\ k = "card" /\ j.answer = "ok"
    <3>1. job'[d] = [j EXCEPT !.at = "done", !.body = "error"]
      BY <1>1, <2>4 DEF S!Refuse
    <3>2. job'[d] \in JobRecord /\ Accounted(job'[d], k)
      BY <1>1, <2>4, <3>1, Refused
    <3>3. job'[d].r = j.r
      BY <1>1, <3>1 DEF JobRecord
    <3> QED
      BY <1>1, <2>1, <2>4, <3>2, <3>3 DEF S!Refuse
  <2>5. CASE S!Goes(d, "persist") /\ j.at = "reply" /\ j.answer = "ok"
    <3>1. job'[d] = [j EXCEPT !.at = "persist"]
      BY <1>1, <2>5 DEF S!Goes
    <3>2. job'[d] \in JobRecord /\ Accounted(job'[d], k)
      BY <1>1, <2>5, <3>1, Onward
    <3>3. job'[d].r = j.r
      BY <1>1, <3>1 DEF JobRecord
    <3> QED
      BY <1>1, <2>1, <2>5, <3>2, <3>3 DEF S!Goes
  <2>6. CASE j.at = "persist" /\ job' = [job EXCEPT ![d].moved = @ + 1]
    <3>1. job'[d] = [j EXCEPT !.moved = j.moved + 1] /\ job' = [job EXCEPT ![d] = job'[d]]
      BY <1>1, <2>6
    <3>2. job'[d] \in JobRecord /\ job'[d].r = j.r
      BY <1>1, <3>1 DEF JobRecord
    <3>3. Accounted(job'[d], k)
      BY <1>1, <3>1 DEF Accounted, AsAnswered, JobRecord
    <3> QED
      BY <2>1, <3>1, <3>2, <3>3
  <2> QED
    BY <2>1, <2>2, <2>3, <2>4, <2>5, <2>6
<1>7. CASE S!Record(d)
  <2>1. /\ j.at = "record" /\ job'[d] = [j EXCEPT !.at = "after", !.usages = j.usages + 1]
        /\ job' = [job EXCEPT ![d] = job'[d]] /\ UNCHANGED <<request, now, run>>
    BY <1>1, <1>7 DEF S!Record
  <2> DEFINE more == j.usages + 1
  <2>0. more \in Nat
    BY <1>1 DEF JobRecord
  <2> HIDE DEF more
  <2>2. job'[d] \in JobRecord /\ job'[d].r = j.r
    <3>1. job'[d] = [j EXCEPT !.at = "after", !.usages = more]
      BY <2>1 DEF more
    <3> QED
      BY <1>1, <2>0, <3>1 DEF JobRecord, Places
  <2>3. Accounted(job'[d], k)
    BY <1>1, <2>1 DEF Accounted, AsAnswered, JobRecord
  <2> QED
    BY <2>1, <2>2, <2>3
<1>8. CASE S!After(d)
  <2>1. /\ j.at = "after" /\ job'[d] = [j EXCEPT !.at = "done", !.afters = j.afters + 1]
        /\ job' = [job EXCEPT ![d] = job'[d]] /\ UNCHANGED <<request, now, run>>
    BY <1>1, <1>8 DEF S!After
  <2> DEFINE more == j.afters + 1
  <2>0. more \in Nat
    BY <1>1 DEF JobRecord
  <2> HIDE DEF more
  <2>2. job'[d] \in JobRecord /\ job'[d].r = j.r
    <3>1. job'[d] = [j EXCEPT !.at = "done", !.afters = more]
      BY <2>1 DEF more
    <3> QED
      BY <1>1, <2>0, <3>1 DEF JobRecord, Places
  <2>3. Accounted(job'[d], k)
    BY <1>1, <2>1 DEF Accounted, AsAnswered, JobRecord
  <2> QED
    BY <2>1, <2>2, <2>3
<1>9. CASE S!Deliver(d)
  <2>1. PICK r \in Signed :
          job' = [job EXCEPT ![d] = [S!Idle EXCEPT !.at = "arrived", !.r = r, !.began = run]]
    BY <1>9 DEF S!Deliver
  <2> DEFINE new == [S!Idle EXCEPT !.at = "arrived", !.r = r, !.began = run]
  <2>2. job'[d] = new /\ job' = [job EXCEPT ![d] = job'[d]]
    BY <1>1, <2>1
  <2>3. new \in JobRecord
    BY DEF S!Idle, S!NoRequest, JobRecord, Places, SingleInv, SingleTypes
  <2>4. \A any : Accounted(new, any)
    BY DEF S!Idle, Accounted
  <2>5. UNCHANGED <<request, now, run>>
    BY <1>9 DEF S!Deliver
  <2> QED
    BY <2>2, <2>3, <2>4, <2>5
<1> QED
  BY <1>3, <1>4, <1>5, <1>6, <1>7, <1>8, <1>9 DEF S!Step

\* What a handler does, and deliveries, keep the invariant.
LEMMA HandlerInv ==
  ASSUME ReplayAssumption, SingleInv, NEW d \in Deliveries, S!Step(d) \/ S!Deliver(d)
  PROVE  SingleInv'
<1>1. /\ job' = [job EXCEPT ![d] = job'[d]] /\ job'[d] \in JobRecord
      /\ Accounted(job'[d], S!kind(d)') /\ UNCHANGED <<request, now, run>>
  BY HandlerStep
<1>2. job' \in [Deliveries -> JobRecord] /\ \A e \in Deliveries : e # d => job'[e] = job[e]
  BY <1>1 DEF SingleInv, SingleTypes
<1>3. \A e \in Deliveries : Accounted(job'[e], S!kind(e)')
  BY <1>1, <1>2 DEF SingleInv, S!kind
<1>4. /\ Skew \in Nat /\ now \in Nat /\ run \in Nat /\ ReplayTTL \in Nat /\ ReplayTTL >= 2 * Skew
      /\ \A r \in Signed : request[r].created \in Nat
      /\ passed \subseteq Signed \X Nat \X Deliveries /\ DOMAIN nonces \subseteq Signed
      /\ \A r \in DOMAIN nonces : nonces[r] \in Nat
  BY DEF ReplayAssumption, SingleInv, SingleTypes
<1>5. CASE UNCHANGED <<nonces, passed>>
  <2>1. SingleTypes'
    BY <1>1, <1>2, <1>5 DEF SingleInv, SingleTypes
  <2>2. Remembered' /\ S!ServedOnce'
    BY <1>1, <1>5 DEF SingleInv, Remembered, S!ServedOnce
  <2> QED
    BY <1>3, <2>1, <2>2 DEF SingleInv
<1>6. CASE /\ S!Fresh(request[job[d].r].created) /\ S!Use(job[d].r)
           /\ passed' = passed \cup {<<job[d].r, run, d>>}
           /\ request[job[d].r].signed /\ S!Goes(d, "gate") /\ job[d].at = "arrived"
  <2> DEFINE r == job[d].r
             kept == {n \in DOMAIN nonces : nonces[n] > now}
  <2>1. /\ r \notin kept
        /\ nonces' = [n \in kept \cup {r} |-> IF n = r THEN now + ReplayTTL ELSE nonces[n]]
    BY <1>6 DEF S!Use, S!Live
  <2>2. r \in Signed
    BY <1>6 DEF SingleInv, Accounted
  <2>3. request[r].created - Skew <= now /\ now < request[r].created + Skew
    BY <1>6 DEF S!Fresh
  <2>4. \A p \in passed : p[1] = r => p[2] # run
    <3> SUFFICES ASSUME NEW p \in passed, p[1] = r, p[2] = run PROVE FALSE
      OBVIOUS
    <3>1. \/ r \in DOMAIN nonces /\ nonces[r] >= request[r].created + Skew
          \/ now >= request[r].created + Skew
      BY DEF SingleInv, Remembered
    <3> QED
      BY <1>4, <2>1, <2>2, <2>3, <3>1
  <2>5. SingleTypes'
    <3>1. passed' \subseteq Signed \X Nat \X Deliveries /\ \A p \in passed' : p[2] <= run
      BY <1>4, <1>6, <2>2 DEF SingleInv, SingleTypes
    <3>2. DOMAIN nonces' \subseteq Signed /\ \A n \in DOMAIN nonces' : nonces'[n] \in Nat
      BY <1>4, <2>1, <2>2
    <3> QED
      BY <1>1, <1>2, <3>1, <3>2 DEF SingleInv, SingleTypes
  <2>6. S!ServedOnce'
    <3>1. \A a \in passed' : a \in passed \/ a = <<r, run, d>>
      BY <1>6
    <3>2. \A a, b \in passed : a[1] = b[1] /\ a[2] = b[2] => a[3] = b[3]
      BY DEF SingleInv, S!ServedOnce
    <3> QED
      BY <2>4, <3>1, <3>2 DEF S!ServedOnce
  <2>7. Remembered'
    <3> SUFFICES ASSUME NEW p \in passed', p[2] = run
                 PROVE  \/ p[1] \in DOMAIN nonces' /\ nonces'[p[1]] >= request[p[1]].created + Skew
                        \/ now >= request[p[1]].created + Skew
      BY <1>1 DEF Remembered
    <3>1. CASE p[1] = r
      <4>1. r \in DOMAIN nonces' /\ nonces'[r] = now + ReplayTTL
        BY <2>1
      <4> QED
        BY <1>4, <2>2, <2>3, <3>1, <4>1
    <3>2. CASE p[1] # r
      <4>1. p \in passed
        BY <1>6, <3>2
      <4>2. p[1] \in Signed
        BY <1>4, <4>1
      <4>3. \/ p[1] \in DOMAIN nonces /\ nonces[p[1]] >= request[p[1]].created + Skew
            \/ now >= request[p[1]].created + Skew
        BY <4>1 DEF SingleInv, Remembered
      <4>4. CASE p[1] \in kept
        BY <2>1, <3>2, <4>3, <4>4
      <4>5. CASE p[1] \notin kept
        BY <1>4, <4>2, <4>3, <4>5
      <4> QED
        BY <4>4, <4>5
    <3> QED
      BY <3>1, <3>2
  <2> QED
    BY <1>3, <2>5, <2>6, <2>7 DEF SingleInv
<1>7. \/ UNCHANGED <<nonces, passed>>
      \/ /\ S!Fresh(request[job[d].r].created) /\ S!Use(job[d].r)
         /\ passed' = passed \cup {<<job[d].r, run, d>>}
         /\ request[job[d].r].signed /\ S!Goes(d, "gate") /\ job[d].at = "arrived"
  BY DEF S!Step, S!Deliver, S!Authenticate, S!Gate, S!Find, S!FindEmbeddings, S!FindImages,
     S!FindMCP, S!FindAgent, S!Finds, S!Call, S!LoadCard, S!Answered, S!Reply, S!ReplyFailed,
     S!ReplyStatus, S!ReplyMCP, S!ReplyA2A, S!ReplyEmbeddings, S!ReplyCard, S!ReplyImages,
     S!Persist, S!Record, S!After, S!Quiet
<1> QED
  BY <1>5, <1>6, <1>7

\* Nothing has been let in at the start.
LEMMA SingleInitially == ReplayAssumption /\ S!Init => SingleInv
<1> SUFFICES ASSUME ReplayAssumption, S!Init PROVE SingleInv
  OBVIOUS
<1>1. S!Idle \in JobRecord
  BY DEF S!Idle, S!NoRequest, JobRecord, Places
<1>2. SingleTypes
  <2>1. request \in [Signed -> [kind : Kinds, signed : BOOLEAN, created : Nat,
                                images : {MaxImages}, type : Types, keeps : BOOLEAN]]
    BY DEF S!Init, ReplayAssumption
  <2>2. DOMAIN nonces = {} /\ passed = {}
    BY DEF S!Init
  <2> QED
    BY <1>1, <2>1, <2>2 DEF S!Init, SingleTypes
<1>3. Remembered /\ S!ServedOnce
  BY DEF S!Init, Remembered, S!ServedOnce
<1>4. \A d \in Deliveries : Accounted(job[d], S!kind(d))
  BY DEF S!Init, Accounted, S!Idle
<1> QED
  BY <1>2, <1>3, <1>4 DEF SingleInv

\* What goes on around the handlers keeps it, too: time, and a restart, which empties
\* the memory of nonces and begins another run.
LEMMA AroundInv ==
  ASSUME ReplayAssumption, SingleInv, S!Tick \/ S!Restart \/ UNCHANGED single
  PROVE  SingleInv'
<1>1. /\ now \in Nat /\ run \in Nat /\ Skew \in Nat
      /\ \A r \in Signed : request[r].created \in Nat
      /\ passed \subseteq Signed \X Nat \X Deliveries
      /\ \A p \in passed : p[2] <= run
  BY DEF ReplayAssumption, SingleInv, SingleTypes
<1>2. CASE S!Tick
  <2>1. now' = now + 1 /\ UNCHANGED <<request, nonces, run, job, passed>>
    BY <1>2 DEF S!Tick
  <2>2. SingleTypes'
    BY <1>1, <2>1 DEF SingleInv, SingleTypes
  <2>3. Remembered'
    BY <1>1, <2>1 DEF SingleInv, Remembered
  <2>4. S!ServedOnce' /\ \A d \in Deliveries : Accounted(job'[d], S!kind(d)')
    BY <2>1 DEF SingleInv, S!ServedOnce, S!kind
  <2> QED
    BY <2>2, <2>3, <2>4 DEF SingleInv
<1>3. CASE S!Restart
  <2>1. /\ run' = run + 1 /\ DOMAIN nonces' = {} /\ UNCHANGED <<request, now, passed>>
        /\ job' = [d \in Deliveries |-> IF job[d].at \in {"idle", "done"} THEN job[d]
                                        ELSE [job[d] EXCEPT !.at = "lost"]]
    BY <1>3 DEF S!Restart
  <2>2. \A d \in Deliveries : [job[d] EXCEPT !.at = "lost"] \in JobRecord
    BY DEF SingleInv, SingleTypes, JobRecord, Places
  <2>3. SingleTypes'
    BY <1>1, <2>1, <2>2 DEF SingleInv, SingleTypes
  <2>4. Remembered'
    BY <1>1, <2>1 DEF Remembered
  <2>5. S!ServedOnce'
    BY <2>1 DEF SingleInv, S!ServedOnce
  <2>6. ASSUME NEW d \in Deliveries PROVE Accounted(job'[d], S!kind(d)')
    <3>1. CASE job[d].at \in {"idle", "done"}
      BY <2>1, <3>1 DEF SingleInv, S!kind
    <3>2. CASE job[d].at \notin {"idle", "done"}
      <4>1. job'[d].at = "lost" /\ job'[d].r = job[d].r
        BY <2>1, <3>2 DEF SingleInv, SingleTypes, JobRecord
      <4> QED
        BY <3>2, <4>1 DEF SingleInv, Accounted
    <3> QED
      BY <3>1, <3>2
  <2> QED
    BY <2>3, <2>4, <2>5, <2>6 DEF SingleInv
<1>4. CASE UNCHANGED single
  <2>1. UNCHANGED <<request, now, nonces, run, job, passed>>
    BY <1>4 DEF single
  <2> QED
    BY <2>1 DEF SingleInv, SingleTypes, Remembered, S!ServedOnce, S!kind
<1> QED
  BY <1>2, <1>3, <1>4

THEOREM SingleInvariant == S!Spec => []SingleInv
<1>1. SingleInv /\ [S!Next]_(S!vars) => SingleInv'
  BY ReplayAssumption, HandlerInv, AroundInv DEF S!Next, S!vars, single
<1>2. S!Init => SingleInv
  BY ReplayAssumption, SingleInitially
<1> QED
  BY <1>1, <1>2, PTL DEF S!Spec

\* While it runs a gateway lets a signed request in once, however its copies, the clocks
\* and the restarts of the gateway come.
THEOREM LetInOnce == S!Spec => []ServedOnce
<1>1. SingleInv => ServedOnce
  BY DEF SingleInv, ServedOnce
<1> QED
  BY <1>1, SingleInvariant, PTL

\* Of any number of calls at once, each that reached its upstream is recorded once.
THEOREM AccountedOnce == S!Spec => []RecordedOnce
<1>1. SingleInv => RecordedOnce
  BY DEF SingleInv, RecordedOnce, S!RecordedOnce, Accounted, AsAnswered
<1> QED
  BY <1>1, SingleInvariant, PTL

-----------------------------------------------------------------------------
(* Extensions: the inductive invariant *)

CallFields == {"step", "phase", "at", "org", "snap", "passed", "charged", "module", "inst", "answer"}
Holding == {"guest", "release"}
Using   == {"install", "ready", "instantiate"} \cup Holding
Running == {"hooks", "load", "quota", "upstream"} \cup Using

ModuleFields == {"bytes", "closed", "pool"}
IsSeq(s) == \E any : s \in Seq(any)

HookTypes ==
  /\ DOMAIN call = Calls
  /\ \A c \in Calls : \/ call[c].step \in {"idle", "done"}
                      \/ call[c].step \in Running /\ DOMAIN call[c] = CallFields
  /\ DOMAIN gateway = {"step", "at"} /\ gateway.at \in Nat
  /\ DOMAIN procs = X!Plugins
  /\ closers \in Seq({"proc", "conn"} \X X!Plugins)
  /\ IsSeq(modules)
  /\ \A m \in DOMAIN modules : /\ DOMAIN modules[m] = ModuleFields
                               /\ modules[m].pool \in Seq(DOMAIN insts)
  /\ insts \in Seq([module : Nat, state : {"live", "ended", "closed"}])
  /\ \A k \in DOMAIN cache : cache[k] \in DOMAIN modules
  /\ gateway.step \in {"dial", "handshake"} => gateway.at \in X!Plugins

\* Whatever was started can be ended.
InClosers ==
  /\ \A i \in X!Plugins : procs[i] = "running" => \E n \in DOMAIN closers : closers[n] = <<"proc", i>>
  /\ \A i \in conns : \E n \in DOMAIN closers : closers[n] = <<"conn", i>>
  /\ gateway.step \in {"refused", "exited"} => closers = << >>

\* A call uses a module that exists, and holds an instance of it, which is closed with it only.
UsesItsOwn ==
  \A c \in Calls :
    /\ call[c].step \in Using => call[c].module \in DOMAIN modules
    /\ call[c].step \in Holding =>
         /\ call[c].inst \in DOMAIN insts
         /\ insts[call[c].inst].module = call[c].module
         /\ insts[call[c].inst].state = "closed" => modules[call[c].module].closed

\* An instance is held by one call.
HeldApart ==
  \A c, d \in Calls :
    call[c].step \in Holding /\ call[d].step \in Holding /\ call[c].inst = call[d].inst => c = d

\* The pool of a module has instances of it that are not closed, each once, and none that
\* a call holds; that of a closed module is empty.
PoolOf(m) ==
  /\ modules[m].closed => modules[m].pool = << >>
  /\ \A i, j \in DOMAIN modules[m].pool : modules[m].pool[i] = modules[m].pool[j] => i = j
  /\ \A i \in DOMAIN modules[m].pool :
       /\ insts[modules[m].pool[i]].module = m
       /\ insts[modules[m].pool[i]].state # "closed"
       /\ \A c \in Calls : call[c].step \in Holding => call[c].inst # modules[m].pool[i]

\* A module is open only while the cache or the call that compiled it has it.
Reachable(m) ==
  \/ modules[m].closed
  \/ \E k \in DOMAIN cache : cache[k] = m
  \/ \E c \in Calls : call[c].step = "install" /\ call[c].module = m

HookInv ==
  /\ HookTypes
  /\ InClosers
  /\ UsesItsOwn
  /\ HeldApart
  /\ \A m \in DOMAIN modules : PoolOf(m) /\ Reachable(m)

\* Appending to a sequence of anything, and replacing one of its entries.
LEMMA AppendSeq ==
  ASSUME NEW s, IsSeq(s), NEW x
  PROVE  /\ IsSeq(Append(s, x)) /\ DOMAIN Append(s, x) = DOMAIN s \cup {Len(s) + 1}
         /\ Append(s, x)[Len(s) + 1] = x /\ \A i \in DOMAIN s : Append(s, x)[i] = s[i]
         /\ Len(s) + 1 \notin DOMAIN s
<1>1. PICK any : s \in Seq(any)
  BY DEF IsSeq
<1>2. s \in Seq(any \cup {x})
  BY <1>1
<1>3. Append(s, x) \in Seq(any \cup {x})
  BY <1>2
<1> QED
  BY <1>2, <1>3 DEF IsSeq

LEMMA ExceptSeq ==
  ASSUME NEW s, IsSeq(s), NEW i \in DOMAIN s, NEW x, NEW t, t = [s EXCEPT ![i] = x]
  PROVE  /\ IsSeq(t) /\ DOMAIN t = DOMAIN s
         /\ t[i] = x /\ \A j \in DOMAIN s : j # i => t[j] = s[j]
<1>1. PICK any : s \in Seq(any)
  BY DEF IsSeq
<1>2. s \in Seq(any \cup {x})
  BY <1>1
<1>3. t \in Seq(any \cup {x})
  BY <1>2
<1> QED
  BY <1>2, <1>3 DEF IsSeq

\* What the steps of main and of the plugins leave alone.
LEMMA MainFrame ==
  ASSUME HookInv, UNCHANGED <<cache, modules, insts, call>>,
         DOMAIN gateway' = {"step", "at"}, gateway'.at \in Nat, DOMAIN procs' = X!Plugins,
         closers' \in Seq({"proc", "conn"} \X X!Plugins), InClosers',
         gateway'.step \in {"dial", "handshake"} => gateway'.at \in X!Plugins
  PROVE  HookInv'
<1>1. HookTypes'
  BY DEF HookInv, HookTypes, IsSeq
<1>2. UsesItsOwn' /\ HeldApart'
  BY DEF HookInv, UsesItsOwn, HeldApart
<1>3. \A m \in DOMAIN modules' : PoolOf(m)' /\ Reachable(m)'
  BY DEF HookInv, PoolOf, Reachable
<1> QED
  BY <1>1, <1>2, <1>3 DEF HookInv

\* closeAll ends whatever was started.
LEMMA AllClosed ==
  ASSUME HookInv, NEW ps, X!closeAll(ps),
         \A i \in X!Plugins : ps[i] = "running" => \E n \in DOMAIN closers : closers[n] = <<"proc", i>>
  PROVE  /\ DOMAIN procs' = X!Plugins /\ \A i \in X!Plugins : procs'[i] # "running"
         /\ conns' = {} /\ closers' = << >>
<1>1. X!Range(closers) = {closers[n] : n \in DOMAIN closers}
  BY DEF X!Range
<1>2. /\ procs' = [i \in X!Plugins |-> IF <<"proc", i>> \in X!Range(closers) THEN "gone" ELSE ps[i]]
      /\ conns' = {i \in conns : <<"conn", i>> \notin X!Range(closers)} /\ closers' = << >>
  BY DEF X!closeAll
<1>3. \A i \in conns : <<"conn", i>> \in X!Range(closers)
  BY <1>1 DEF HookInv, InClosers
<1> QED
  BY <1>1, <1>2, <1>3

LEMMA RefuseInv ==
  ASSUME HookInv, NEW ps, X!Refuse(ps), UNCHANGED <<cache, modules, insts, call>>,
         \A i \in X!Plugins : ps[i] = "running" => \E n \in DOMAIN closers : closers[n] = <<"proc", i>>
  PROVE  HookInv'
<1>1. /\ DOMAIN procs' = X!Plugins /\ \A i \in X!Plugins : procs'[i] # "running"
      /\ conns' = {} /\ closers' = << >>
  BY AllClosed DEF X!Refuse
<1>2. DOMAIN gateway' = {"step", "at"} /\ gateway'.at = gateway.at /\ gateway'.step = "refused"
  BY DEF X!Refuse, HookInv, HookTypes
<1>3. InClosers'
  BY <1>1 DEF InClosers
<1> QED
  BY <1>1, <1>2, <1>3, MainFrame DEF HookInv, HookTypes

\* Another process or connection to end.
LEMMA MoreToClose ==
  ASSUME HookInv, NEW e \in {"proc", "conn"} \X X!Plugins, closers' = Append(closers, e),
         gateway'.step \notin {"refused", "exited"},
         \A i \in X!Plugins : procs'[i] = "running" => procs[i] = "running" \/ e = <<"proc", i>>,
         \A i \in conns' : i \in conns \/ e = <<"conn", i>>
  PROVE  closers' \in Seq({"proc", "conn"} \X X!Plugins) /\ InClosers'
<1>1. closers \in Seq({"proc", "conn"} \X X!Plugins)
  BY DEF HookInv, HookTypes
<1>2. /\ closers' \in Seq({"proc", "conn"} \X X!Plugins)
      /\ \A n \in DOMAIN closers : n \in DOMAIN closers' /\ closers'[n] = closers[n]
      /\ \E n \in DOMAIN closers' : closers'[n] = e
  BY <1>1
<1>3. \A i \in X!Plugins : procs'[i] = "running" => \E n \in DOMAIN closers' : closers'[n] = <<"proc", i>>
  <2>1. \A i \in X!Plugins : procs[i] = "running" => \E n \in DOMAIN closers : closers[n] = <<"proc", i>>
    BY DEF HookInv, InClosers
  <2>2. \A x : (\E n \in DOMAIN closers : closers[n] = x) \/ e = x =>
               \E n \in DOMAIN closers' : closers'[n] = x
    BY <1>2
  <2> QED
    BY <2>1, <2>2
<1>4. \A i \in conns' : \E n \in DOMAIN closers' : closers'[n] = <<"conn", i>>
  <2>1. \A i \in conns : TRUE => \E n \in DOMAIN closers : closers[n] = <<"conn", i>>
    BY DEF HookInv, InClosers
  <2>2. \A x : (\E n \in DOMAIN closers : closers[n] = x) \/ e = x =>
               \E n \in DOMAIN closers' : closers'[n] = x
    BY <1>2
  <2> QED
    BY <2>1, <2>2
<1> QED
  BY <1>2, <1>3, <1>4 DEF InClosers

\* The steps of main until the hooks run, and the plugins' own.
LEMMA MainInv ==
  ASSUME HookInv,
         \/ X!startProcess \/ X!dialTarget \/ X!Handshake \/ X!Serve \/ X!Abort
         \/ X!Stop \/ X!Drained \/ X!Swept
         \/ \E i \in X!Plugins : X!Crash(i)
  PROVE  HookInv'
<1> USE DEF X!guests
<1>1. /\ DOMAIN gateway = {"step", "at"} /\ gateway.at \in Nat /\ DOMAIN procs = X!Plugins
      /\ closers \in Seq({"proc", "conn"} \X X!Plugins)
      /\ gateway.step \in {"dial", "handshake"} => gateway.at \in X!Plugins
  BY DEF HookInv, HookTypes
<1>2. \A i \in X!Plugins : procs[i] = "running" => \E n \in DOMAIN closers : closers[n] = <<"proc", i>>
  BY DEF HookInv, InClosers
<1>3. UNCHANGED <<cache, modules, insts, call>>
  BY DEF X!startProcess, X!dialTarget, X!Handshake, X!Serve, X!Abort, X!Stop, X!Drained, X!Swept,
     X!Crash
<1>4. CASE X!startProcess
  <2> DEFINE i == gateway.at
  <2>1. i \in X!Plugins /\ gateway.step = "load"
    BY <1>4 DEF X!startProcess
  <2>2. CASE gateway' = [gateway EXCEPT !.step = "dial"] /\ UNCHANGED <<procs, conns, closers>>
    <3>1. /\ DOMAIN gateway' = {"step", "at"} /\ gateway'.at = gateway.at
          /\ gateway'.step = "dial"
      BY <1>1, <2>2
    <3>2. InClosers'
      BY <2>1, <2>2, <3>1 DEF HookInv, InClosers
    <3> QED
      BY <1>1, <1>3, <2>1, <2>2, <3>1, <3>2, MainFrame
  <2>3. CASE /\ procs' = [procs EXCEPT ![i] = "running"]
             /\ closers' = Append(closers, <<"proc", i>>)
             /\ gateway' = [gateway EXCEPT !.step = "dial"] /\ UNCHANGED conns
    <3>1. /\ DOMAIN gateway' = {"step", "at"} /\ gateway'.at = gateway.at
          /\ gateway'.step = "dial"
      BY <1>1, <2>3
    <3>2. /\ DOMAIN procs' = X!Plugins
          /\ \A n \in X!Plugins : procs'[n] = "running" => procs[n] = "running" \/ n = i
      BY <1>1, <2>1, <2>3
    <3>3. closers' \in Seq({"proc", "conn"} \X X!Plugins) /\ InClosers'
      BY <2>1, <2>3, <3>1, <3>2, MoreToClose
    <3> QED
      BY <1>1, <1>3, <2>1, <3>1, <3>2, <3>3, MainFrame
  <2>4. ASSUME NEW left \in {"none", "gone"}, X!Refuse([procs EXCEPT ![i] = left])
        PROVE  HookInv'
    <3>1. \A n \in X!Plugins : [procs EXCEPT ![i] = left][n] = "running" => procs[n] = "running"
      BY <1>1, <2>1
    <3> QED
      BY <1>2, <1>3, <2>4, <3>1, RefuseInv
  <2> QED
    BY <1>4, <2>2, <2>3, <2>4 DEF X!startProcess
<1>5. CASE X!dialTarget
  <2>1. CASE /\ conns' = conns \cup {gateway.at} /\ closers' = Append(closers, <<"conn", gateway.at>>)
             /\ gateway' = [gateway EXCEPT !.step = "handshake"] /\ UNCHANGED procs
    <3>1. /\ DOMAIN gateway' = {"step", "at"} /\ gateway'.at = gateway.at
          /\ gateway'.step = "handshake" /\ gateway.at \in X!Plugins
      BY <1>1, <1>5, <2>1 DEF X!dialTarget
    <3>2. closers' \in Seq({"proc", "conn"} \X X!Plugins) /\ InClosers'
      BY <2>1, <3>1, MoreToClose
    <3> QED
      BY <1>1, <1>3, <2>1, <3>1, <3>2, MainFrame
  <2> QED
    BY <1>2, <1>3, <1>5, <2>1, RefuseInv DEF X!dialTarget
<1>6. CASE X!Handshake
  <2>1. CASE /\ gateway' = [step |-> "load", at |-> gateway.at + 1]
             /\ UNCHANGED <<procs, conns, closers>>
    <3>1. /\ DOMAIN gateway' = {"step", "at"} /\ gateway'.at \in Nat /\ gateway'.step = "load"
      BY <1>1, <2>1
    <3>2. InClosers'
      BY <2>1, <3>1 DEF HookInv, InClosers
    <3> QED
      BY <1>1, <1>3, <2>1, <3>1, <3>2, MainFrame
  <2> QED
    BY <1>2, <1>3, <1>6, <2>1, RefuseInv DEF X!Handshake
<1>7. CASE X!Serve \/ X!Abort \/ X!Drained \/ X!Swept
  <2>1. /\ UNCHANGED <<procs, conns, closers>> /\ DOMAIN gateway' = {"step", "at"}
        /\ gateway'.at = gateway.at
        /\ gateway'.step \in {"serving", "aborted", "sweeping", "closing"}
    BY <1>1, <1>7 DEF X!Serve, X!Abort, X!Drained, X!Swept
  <2>2. InClosers'
    BY <2>1 DEF HookInv, InClosers
  <2> QED
    BY <1>1, <1>3, <2>1, <2>2, MainFrame
<1>8. CASE X!Stop
  <2>1. /\ UNCHANGED <<conns, closers>> /\ DOMAIN gateway' = {"step", "at"}
        /\ gateway'.at = gateway.at /\ gateway'.step = "stopping"
        /\ DOMAIN procs' = X!Plugins /\ \A n \in X!Plugins : procs'[n] # "running"
    BY <1>1, <1>8 DEF X!Stop
  <2>2. InClosers'
    BY <2>1 DEF HookInv, InClosers
  <2> QED
    BY <1>1, <1>3, <2>1, <2>2, MainFrame
<1>9. CASE \E i \in X!Plugins : X!Crash(i)
  <2>1. /\ UNCHANGED <<gateway, conns, closers>> /\ DOMAIN procs' = X!Plugins
        /\ \A n \in X!Plugins : procs'[n] = "running" => procs[n] = "running"
    BY <1>1, <1>9 DEF X!Crash
  <2>2. InClosers'
    BY <2>1 DEF HookInv, InClosers
  <2> QED
    BY <1>1, <1>3, <2>1, <2>2, MainFrame
<1> QED
  BY <1>4, <1>5, <1>6, <1>7, <1>8, <1>9

\* What a step of a call that takes and leaves no instance changes.
LEMMA CallMoves ==
  ASSUME HookInv, NEW c \in Calls, NEW new, call' = [call EXCEPT ![c] = new],
         UNCHANGED <<gateway, procs, conns, closers, cache, modules, insts>>,
         call[c].step # "install",
         \/ new.step \in {"idle", "done"}
         \/ new.step \in Running \ (Holding \cup {"install"}) /\ DOMAIN new = CallFields,
         new.step \in Using => new.module \in DOMAIN modules
  PROVE  HookInv'
<1>1. /\ DOMAIN call = Calls /\ DOMAIN call' = Calls /\ call'[c] = new
      /\ \A d \in Calls : d # c => call'[d] = call[d]
  BY DEF HookInv, HookTypes
<1>2. HookTypes'
  BY <1>1 DEF HookInv, HookTypes, IsSeq
<1>3. InClosers'
  BY DEF HookInv, InClosers
<1>4. new.step \notin Holding /\ new.step # "install"
  BY DEF Holding
<1>5. UsesItsOwn'
  BY <1>1, <1>4 DEF HookInv, UsesItsOwn
<1>6. HeldApart'
  BY <1>1, <1>4 DEF HookInv, HeldApart
<1>7. \A m \in DOMAIN modules' : PoolOf(m)'
  BY <1>1, <1>4 DEF HookInv, PoolOf
<1>8. \A m \in DOMAIN modules' : Reachable(m)'
  BY <1>1, <1>4 DEF HookInv, Reachable
<1> QED
  BY <1>2, <1>3, <1>5, <1>6, <1>7, <1>8 DEF HookInv

\* What becomes of a call when a hook has answered it: on to the next one, or over.
LEMMA AfterAnswer ==
  ASSUME NEW c, DOMAIN call[c] = CallFields, NEW answer, NEW o
  PROVE  \/ X!Answered(c, answer, o).step = "done"
         \/ /\ X!Answered(c, answer, o).step = "hooks"
            /\ DOMAIN X!Answered(c, answer, o) = CallFields
<1> DEFINE onward == [call[c] EXCEPT !.step = "hooks", !.at = @ + 1, !.org = o, !.module = 0,
                                     !.inst = 0, !.answer = "none"]
<1>1. onward.step = "hooks" /\ DOMAIN onward = CallFields
  BY DEF CallFields
<1>2. \A e : LET more == [onward EXCEPT !.passed = Append(@, e)]
             IN  more.step = "hooks" /\ DOMAIN more = CallFields
  BY <1>1 DEF CallFields
<1>3. X!Done(answer).step = "done"
  BY DEF X!Done
<1> HIDE DEF onward
<1>4. X!Answered(c, answer, o) =
        CASE call[c].phase = "after_call" -> onward
          [] call[c].phase # "after_call" /\ answer = "allow" ->
               [onward EXCEPT !.passed = Append(@, <<call[c].phase, X!current(c)>>)]
          [] OTHER -> X!Done(answer)
  BY DEF X!Answered, onward
<1> QED
  BY <1>1, <1>2, <1>3, <1>4

\* A call that a hook answers while it holds nothing.
LEMMA Answering ==
  ASSUME HookInv, NEW c \in Calls, NEW answer, NEW o,
         call' = [call EXCEPT ![c] = X!Answered(c, answer, o)],
         call[c].step \in Running, call[c].step # "install",
         UNCHANGED <<gateway, procs, conns, closers, cache, modules, insts>>
  PROVE  HookInv'
<1>1. DOMAIN call[c] = CallFields
  BY DEF HookInv, HookTypes, Running, Using, Holding
<1>2. \/ X!Answered(c, answer, o).step = "done"
      \/ /\ X!Answered(c, answer, o).step = "hooks"
         /\ DOMAIN X!Answered(c, answer, o) = CallFields
  BY <1>1, AfterAnswer
<1>3. "hooks" \in Running \ (Holding \cup {"install"}) /\ "hooks" \notin Using
  BY DEF Running, Using, Holding
<1>4. "done" \notin Using
  BY DEF Using, Holding
<1> QED
  BY <1>2, <1>3, <1>4, CallMoves

\* The steps of a call that leave the modules and instances alone.
LEMMA WalkInv ==
  ASSUME HookInv, NEW c \in Calls,
         \/ X!Arrive(c) \/ X!AskPlugin(c) \/ X!Lookup(c) \/ X!PhaseEnds(c)
         \/ X!CheckQuota(c) \/ X!Execute(c)
  PROVE  HookInv'
<1> USE DEF X!plugins, X!guests, X!At, X!AtHook
<1>1. /\ UNCHANGED <<gateway, procs, conns, closers, cache, modules, insts>>
  BY DEF X!Arrive, X!AskPlugin, X!Lookup, X!PhaseEnds, X!CheckQuota, X!Execute
<1>2. CASE X!Arrive(c)
  <2>1. PICK snap \in Snaps :
          call' = [call EXCEPT ![c] =
            [step |-> "hooks", phase |-> "before_call", at |-> 1, org |-> OrgOf[c], snap |-> snap,
             passed |-> << >>, charged |-> FALSE, module |-> 0, inst |-> 0, answer |-> "none"]]
    BY <1>2 DEF X!Arrive
  <2>2. call[c].step = "idle"
    BY <1>2 DEF X!Arrive, X!Idle
  <2> DEFINE new == [step |-> "hooks", phase |-> "before_call", at |-> 1, org |-> OrgOf[c],
                     snap |-> snap, passed |-> << >>, charged |-> FALSE, module |-> 0,
                     inst |-> 0, answer |-> "none"]
  <2>3. new.step = "hooks" /\ DOMAIN new = CallFields
    BY DEF CallFields
  <2>4. "hooks" \in Running \ (Holding \cup {"install"}) /\ "hooks" \notin Using
    BY DEF Running, Using, Holding
  <2>5. call' = [call EXCEPT ![c] = new]
    BY <2>1
  <2> HIDE DEF new
  <2> QED
    BY <1>1, <2>2, <2>3, <2>4, <2>5, CallMoves
<1>3. CASE ~X!Arrive(c)
  <2>1. call[c].step \in {"hooks", "quota", "upstream"}
    BY <1>3 DEF X!AskPlugin, X!Lookup, X!PhaseEnds, X!CheckQuota, X!Execute
  <2>2. DOMAIN call[c] = CallFields /\ call[c].step \in Running /\ call[c].step # "install"
    BY <2>1 DEF HookInv, HookTypes, Running, Using, Holding
  <2>3. CASE X!AskPlugin(c)
    <3>1. \E answer, o : call' = [call EXCEPT ![c] = X!Answered(c, answer, o)]
      BY <2>3 DEF X!AskPlugin, X!Proceed
    <3> QED
      BY <1>1, <2>2, <3>1, Answering
  <2>4. CASE X!Lookup(c)
    <3> DEFINE k == X!cacheKey(X!current(c)[2])
    <3>1. call' = [call EXCEPT ![c] = IF k \in DOMAIN cache
                     THEN [call[c] EXCEPT !.step = "ready", !.module = cache[k]]
                     ELSE [call[c] EXCEPT !.step = "load"]]
      BY <2>4 DEF X!Lookup, HookInv, HookTypes
    <3> HIDE DEF k
    <3>2. CASE k \in DOMAIN cache
      <4> DEFINE new == [call[c] EXCEPT !.step = "ready", !.module = cache[k]]
      <4>1. /\ new.step = "ready" /\ new.module = cache[k] /\ DOMAIN new = CallFields
            /\ cache[k] \in DOMAIN modules
        BY <2>2, <3>2 DEF CallFields, HookInv, HookTypes
      <4>2. call' = [call EXCEPT ![c] = new] /\ "ready" \in Running \ (Holding \cup {"install"})
        BY <3>1, <3>2 DEF Running, Using, Holding
      <4> HIDE DEF new
      <4> QED
        BY <1>1, <2>2, <4>1, <4>2, CallMoves
    <3>3. CASE k \notin DOMAIN cache
      <4> DEFINE new == [call[c] EXCEPT !.step = "load"]
      <4>1. new.step = "load" /\ DOMAIN new = CallFields
        BY <2>2 DEF CallFields
      <4>2. /\ call' = [call EXCEPT ![c] = new] /\ "load" \in Running \ (Holding \cup {"install"})
            /\ "load" \notin Using
        BY <3>1, <3>3 DEF Running, Using, Holding
      <4> HIDE DEF new
      <4> QED
        BY <1>1, <2>2, <4>1, <4>2, CallMoves
    <3> QED
      BY <3>2, <3>3
  <2>5. CASE X!PhaseEnds(c) \/ X!CheckQuota(c) \/ X!Execute(c)
    <3>1. \E new : /\ call' = [call EXCEPT ![c] = new]
                   /\ \/ new.step = "done"
                      \/ new.step \in {"hooks", "quota", "upstream"} /\ DOMAIN new = CallFields
      <4>1. CASE X!PhaseEnds(c)
        <5>1. \A s : [call[c] EXCEPT !.step = s].step = s
                     /\ DOMAIN [call[c] EXCEPT !.step = s] = CallFields
          BY <2>2 DEF CallFields
        <5>2. X!Done("answered").step = "done"
          BY DEF X!Done
        <5>3. call' = [call EXCEPT ![c] =
                CASE call[c].phase = "before_call" -> [call[c] EXCEPT !.step = "quota"]
                  [] call[c].phase = "before_chat" -> [call[c] EXCEPT !.step = "upstream"]
                  [] OTHER -> X!Done("answered")]
          BY <4>1 DEF X!PhaseEnds, HookInv, HookTypes
        <5>4. CASE call[c].phase = "before_call"
          BY <5>1, <5>3, <5>4
        <5>5. CASE call[c].phase = "before_chat"
          BY <5>1, <5>3, <5>5
        <5>6. CASE call[c].phase \notin {"before_call", "before_chat"}
          BY <5>2, <5>3, <5>6
        <5> QED
          BY <5>4, <5>5, <5>6
      <4>2. \A phase : /\ X!Enter(c, phase).step = "hooks" /\ DOMAIN X!Enter(c, phase) = CallFields
        BY <2>2 DEF X!Enter, CallFields
      <4>3. CASE X!CheckQuota(c)
        <5> DEFINE new == [X!Enter(c, "before_chat") EXCEPT !.charged = TRUE]
        <5>1. new.step = "hooks" /\ DOMAIN new = CallFields /\ X!Done("quota").step = "done"
          BY <4>2 DEF CallFields, X!Done
        <5>2. call' = [call EXCEPT ![c] = new] \/ call' = [call EXCEPT ![c] = X!Done("quota")]
          BY <4>3 DEF X!CheckQuota
        <5> HIDE DEF new
        <5> QED
          BY <5>1, <5>2
      <4>4. CASE X!Execute(c)
        BY <4>2, <4>4 DEF X!Execute
      <4> QED
        BY <2>5, <4>1, <4>3, <4>4
    <3>2. \A s \in {"hooks", "quota", "upstream"} :
            s \in Running \ (Holding \cup {"install"}) /\ s \notin Using
      BY DEF Running, Using, Holding
    <3>3. "done" \notin Using
      BY DEF Using, Holding
    <3> QED
      BY <1>1, <2>2, <3>1, <3>2, <3>3, CallMoves
  <2> QED
    BY <1>3, <2>3, <2>4, <2>5
<1> QED
  BY <1>2, <1>3

\* A module is compiled: its call has it until it is installed.
LEMMA CompileInv ==
  ASSUME HookInv, NEW c \in Calls, X!Compile(c)
  PROVE  HookInv'
<1> USE DEF X!plugins, X!store, X!At
<1>1. call[c].step = "load"
  BY DEF X!Compile
<1>2. call[c].step \in Running /\ DOMAIN call[c] = CallFields /\ call[c].step \notin Using
  BY <1>1 DEF HookInv, HookTypes, Running, Using, Holding
<1>3. CASE X!Proceed(c, "error") /\ UNCHANGED modules
  BY <1>1, <1>2, <1>3, Answering DEF X!Compile, X!Proceed
<1>4. CASE \E b : /\ modules' = Append(modules, [bytes |-> b, closed |-> FALSE, pool |-> << >>])
                  /\ call' = [call EXCEPT ![c].step = "install", ![c].module = Len(modules) + 1]
  <2>1. PICK b : modules' = Append(modules, [bytes |-> b, closed |-> FALSE, pool |-> << >>])
    BY <1>4
  <2> DEFINE new == [call[c] EXCEPT !.step = "install", !.module = Len(modules) + 1]
             fresh == [bytes |-> b, closed |-> FALSE, pool |-> << >>]
             n == Len(modules) + 1
  <2>2. UNCHANGED <<gateway, procs, conns, closers, cache, insts>>
    BY DEF X!Compile
  <2>3. /\ DOMAIN call = Calls /\ DOMAIN call' = Calls /\ call'[c] = new
        /\ \A d \in Calls : d # c => call'[d] = call[d]
    BY <1>4 DEF HookInv, HookTypes
  <2>4. new.step = "install" /\ new.module = n /\ DOMAIN new = CallFields
    BY <1>2 DEF CallFields
  <2>5. /\ DOMAIN fresh = ModuleFields /\ ~fresh.closed /\ fresh.pool = << >>
    BY DEF ModuleFields
  <2>6. /\ IsSeq(modules') /\ DOMAIN modules' = DOMAIN modules \cup {n} /\ modules'[n] = fresh
        /\ \A m \in DOMAIN modules : modules'[m] = modules[m]
        /\ n \notin DOMAIN modules
    BY <2>1, AppendSeq DEF HookInv, HookTypes
  <2> HIDE DEF new, fresh, n
  <2>7. << >> \in Seq(DOMAIN insts)
    OBVIOUS
  <2>8. HookTypes'
    BY <2>2, <2>3, <2>4, <2>5, <2>6, <2>7 DEF HookInv, HookTypes, Running, Using
  <2>9. InClosers'
    BY <2>2 DEF HookInv, InClosers
  <2>10. UsesItsOwn'
    BY <2>2, <2>3, <2>4, <2>6 DEF HookInv, UsesItsOwn, Using, Holding
  <2>11. HeldApart'
    BY <2>3, <2>4 DEF HookInv, HeldApart, Holding
  <2>12. \A m \in DOMAIN modules' : PoolOf(m)'
    BY <2>2, <2>3, <2>4, <2>5, <2>6 DEF HookInv, PoolOf, Holding
  <2>13. \A m \in DOMAIN modules' : Reachable(m)'
    BY <1>1, <2>2, <2>3, <2>4, <2>6 DEF HookInv, Reachable
  <2> QED
    BY <2>8, <2>9, <2>10, <2>11, <2>12, <2>13 DEF HookInv
<1> QED
  BY <1>3, <1>4 DEF X!Compile

\* What closing a module, and its instances with it, keeps.
LEMMA CloseModule ==
  ASSUME HookInv, NEW m \in DOMAIN modules, NEW gone, gone \subseteq DOMAIN insts,
         modules' = [modules EXCEPT ![m] = X!Close(@)],
         \A n \in gone : insts[n].module = m,
         insts' = X!Shut(gone) \/ insts' = insts
  PROVE  /\ IsSeq(modules') /\ DOMAIN modules' = DOMAIN modules
         /\ modules'[m].closed /\ modules'[m].pool = << >> /\ DOMAIN modules'[m] = ModuleFields
         /\ \A o \in DOMAIN modules : o # m => modules'[o] = modules[o]
         /\ insts' \in Seq([module : Nat, state : {"live", "ended", "closed"}])
         /\ DOMAIN insts' = DOMAIN insts
         /\ \A n \in DOMAIN insts : /\ insts'[n].module = insts[n].module
                                    /\ insts'[n].state \in {insts[n].state, "closed"}
                                    /\ n \notin gone => insts'[n].state = insts[n].state
<1>1. IsSeq(modules) /\ DOMAIN modules[m] = ModuleFields
      /\ insts \in Seq([module : Nat, state : {"live", "ended", "closed"}])
  BY DEF HookInv, HookTypes
<1>2. /\ DOMAIN X!Close(modules[m]) = ModuleFields /\ X!Close(modules[m]).closed
      /\ X!Close(modules[m]).pool = << >>
  BY <1>1 DEF X!Close, ModuleFields
<1>3. /\ IsSeq(modules') /\ DOMAIN modules' = DOMAIN modules
      /\ modules'[m] = X!Close(modules[m])
      /\ \A o \in DOMAIN modules : o # m => modules'[o] = modules[o]
  <2> DEFINE x == X!Close(modules[m])
  <2>1. modules' = [modules EXCEPT ![m] = x] /\ IsSeq(modules)
    BY <1>1
  <2> HIDE DEF x
  <2>2. /\ IsSeq(modules') /\ DOMAIN modules' = DOMAIN modules /\ modules'[m] = x
        /\ \A o \in DOMAIN modules : o # m => modules'[o] = modules[o]
    BY <2>1, ExceptSeq
  <2> QED
    BY <2>2 DEF x
<1>4. insts \in Seq([module : Nat, state : {"live", "ended", "closed"}])
  BY <1>1
<1>5. CASE insts' = X!Shut(gone)
  <2>1. insts' = [n \in DOMAIN insts |->
                    IF n \in gone THEN [insts[n] EXCEPT !.state = "closed"] ELSE insts[n]]
    BY <1>5 DEF X!Shut
  <2>2. \A n \in DOMAIN insts : insts[n] \in [module : Nat, state : {"live", "ended", "closed"}]
    <3> DEFINE R == [module : Nat, state : {"live", "ended", "closed"}]
    <3>1. insts \in Seq(R)
      BY <1>4
    <3> HIDE DEF R
    <3>2. \A n \in DOMAIN insts : insts[n] \in R
      BY <3>1
    <3> QED
      BY <3>2 DEF R
  <2>3. \A n \in DOMAIN insts :
          /\ [insts[n] EXCEPT !.state = "closed"] \in [module : Nat, state : {"live", "ended", "closed"}]
          /\ [insts[n] EXCEPT !.state = "closed"].module = insts[n].module
          /\ [insts[n] EXCEPT !.state = "closed"].state = "closed"
    BY <2>2
  <2>4. /\ DOMAIN insts' = DOMAIN insts
        /\ \A n \in DOMAIN insts : /\ insts'[n] \in [module : Nat, state : {"live", "ended", "closed"}]
                                   /\ insts'[n].module = insts[n].module
                                   /\ insts'[n].state \in {insts[n].state, "closed"}
                                   /\ n \notin gone => insts'[n].state = insts[n].state
    BY <2>1, <2>2, <2>3
  <2>5. insts' \in [1..Len(insts) -> [module : Nat, state : {"live", "ended", "closed"}]]
    BY <1>4, <2>1, <2>4
  <2>6. insts' \in Seq([module : Nat, state : {"live", "ended", "closed"}])
    BY <1>4, <2>5
  <2> QED
    BY <1>2, <1>3, <2>4, <2>6
<1>6. CASE insts' = insts
  <2>1. \A n \in DOMAIN insts : insts[n].state \in {insts[n].state, "closed"}
    OBVIOUS
  <2> QED
    BY <1>2, <1>3, <1>4, <1>6, <2>1
<1> QED
  BY <1>5, <1>6

\* Back under the lock, the module is in the cache or closed.
LEMMA InstallInv ==
  ASSUME HookInv, NEW c \in Calls, X!Install(c)
  PROVE  HookInv'
<1> USE DEF X!plugins, X!store, X!At
<1> DEFINE k == X!cacheKey(X!current(c)[2])
           m == call[c].module
<1>1. call[c].step = "install" /\ UNCHANGED <<gateway, procs, conns, closers, insts>>
  BY DEF X!Install
<1>2. DOMAIN call[c] = CallFields /\ m \in DOMAIN modules
  BY <1>1 DEF HookInv, HookTypes, UsesItsOwn, Running, Using, Holding
<1>3. InClosers'
  BY <1>1 DEF HookInv, InClosers
<1>4. CASE k \in DOMAIN cache
  <2> DEFINE new == [call[c] EXCEPT !.step = "ready", !.module = cache[k]]
  <2>1. /\ modules' = [modules EXCEPT ![m] = X!Close(@)] /\ cache' = cache
        /\ call' = [call EXCEPT ![c] = new]
    BY <1>4 DEF X!Install, HookInv, HookTypes
  <2>2. /\ new.step = "ready" /\ new.module = cache[k] /\ DOMAIN new = CallFields
        /\ cache[k] \in DOMAIN modules
    BY <1>2, <1>4 DEF CallFields, HookInv, HookTypes
  <2>3. /\ IsSeq(modules') /\ DOMAIN modules' = DOMAIN modules
        /\ modules'[m].closed /\ modules'[m].pool = << >> /\ DOMAIN modules'[m] = ModuleFields
        /\ \A o \in DOMAIN modules : o # m => modules'[o] = modules[o]
    <3> DEFINE gone == {}
    <3>1. gone \subseteq DOMAIN insts /\ \A n \in gone : insts[n].module = m
      OBVIOUS
    <3> HIDE DEF gone, m
    <3>2. m \in DOMAIN modules /\ modules' = [modules EXCEPT ![m] = X!Close(@)] /\ insts' = insts
      BY <1>1, <1>2, <2>1
    <3> QED
      BY <3>1, <3>2, CloseModule
  <2>4. /\ DOMAIN call' = Calls /\ call'[c] = new
        /\ \A d \in Calls : d # c => call'[d] = call[d]
    BY <2>1 DEF HookInv, HookTypes
  <2> HIDE DEF new, k, m
  <2>5. << >> \in Seq(DOMAIN insts)
    OBVIOUS
  <2>6. HookTypes'
    <3>1. \A d \in Calls : \/ call'[d].step \in {"idle", "done"}
                           \/ call'[d].step \in Running /\ DOMAIN call'[d] = CallFields
      BY <2>2, <2>4 DEF HookInv, HookTypes, Running, Using
    <3>2. \A o \in DOMAIN modules' : /\ DOMAIN modules'[o] = ModuleFields
                                    /\ modules'[o].pool \in Seq(DOMAIN insts')
      BY <1>1, <2>3, <2>5 DEF HookInv, HookTypes
    <3> QED
      BY <1>1, <2>1, <2>3, <2>4, <3>1, <3>2 DEF HookInv, HookTypes
  <2>7. UsesItsOwn'
    BY <1>1, <2>2, <2>3, <2>4 DEF HookInv, UsesItsOwn, Using, Holding
  <2>8. HeldApart'
    BY <2>2, <2>4 DEF HookInv, HeldApart, Holding
  <2>9. \A o \in DOMAIN modules' : PoolOf(o)'
    BY <1>1, <2>2, <2>3, <2>4 DEF HookInv, PoolOf, Holding
  <2>10. \A o \in DOMAIN modules' : Reachable(o)'
    BY <2>1, <2>3, <2>4 DEF HookInv, Reachable, m
  <2> QED
    BY <1>3, <2>6, <2>7, <2>8, <2>9, <2>10 DEF HookInv
<1>5. CASE k \notin DOMAIN cache
  <2> DEFINE new == [call[c] EXCEPT !.step = "ready"]
  <2>1. /\ cache' = [j \in DOMAIN cache \cup {k} |-> IF j = k THEN m ELSE cache[j]]
        /\ modules' = modules /\ call' = [call EXCEPT ![c] = new]
    BY <1>5 DEF X!Install, HookInv, HookTypes
  <2>2. new.step = "ready" /\ new.module = m /\ DOMAIN new = CallFields
    BY <1>2 DEF CallFields
  <2>3. /\ DOMAIN call' = Calls /\ call'[c] = new
        /\ \A d \in Calls : d # c => call'[d] = call[d]
    BY <2>1 DEF HookInv, HookTypes
  <2> HIDE DEF new, k, m
  <2>4. /\ \A j \in DOMAIN cache' : cache'[j] \in DOMAIN modules
        /\ \E j \in DOMAIN cache' : cache'[j] = m
        /\ \A j \in DOMAIN cache : j \in DOMAIN cache' /\ cache'[j] = cache[j]
    BY <1>2, <1>5, <2>1 DEF HookInv, HookTypes
  <2>5. HookTypes'
    BY <1>1, <2>1, <2>2, <2>3, <2>4 DEF HookInv, HookTypes, Running, Using
  <2>6. UsesItsOwn'
    BY <1>1, <1>2, <2>1, <2>2, <2>3 DEF HookInv, UsesItsOwn, Holding
  <2>7. HeldApart'
    BY <2>2, <2>3 DEF HookInv, HeldApart, Holding
  <2>8. \A o \in DOMAIN modules' : PoolOf(o)'
    BY <1>1, <2>1, <2>2, <2>3 DEF HookInv, PoolOf, Holding
  <2>9. \A o \in DOMAIN modules' : Reachable(o)'
    BY <2>1, <2>3, <2>4 DEF HookInv, Reachable, m
  <2> QED
    BY <1>3, <2>5, <2>6, <2>7, <2>8, <2>9 DEF HookInv
<1> QED
  BY <1>4, <1>5

\* What leaves the head of a sequence, and what stays.
LEMMA HeadTail ==
  ASSUME NEW W, NEW s \in Seq(W), s # << >>
  PROVE  /\ 1 \in DOMAIN s /\ Head(s) = s[1] /\ s[1] \in W /\ Tail(s) \in Seq(W)
         /\ \A i \in DOMAIN Tail(s) : i + 1 \in DOMAIN s /\ Tail(s)[i] = s[i + 1] /\ i + 1 # 1
         /\ \A i, j \in DOMAIN Tail(s) : i + 1 = j + 1 => i = j
<1>1. Len(s) \in Nat /\ Len(s) # 0 /\ DOMAIN s = 1..Len(s)
  OBVIOUS
<1>2. Tail(s) \in Seq(W) /\ Len(Tail(s)) = Len(s) - 1 /\ DOMAIN Tail(s) = 1..(Len(s) - 1)
  BY <1>1
<1>3. \A i \in 1..(Len(s) - 1) : Tail(s)[i] = s[i + 1]
  BY <1>1
<1>4. 1 \in DOMAIN s /\ Head(s) = s[1] /\ s[1] \in W
  BY <1>1
<1> QED
  BY <1>1, <1>2, <1>3, <1>4

\* An instance that waits is taken: it leaves the pool for one call.
LEMMA AcquireInv ==
  ASSUME HookInv, NEW c \in Calls, X!acquire(c)
  PROVE  HookInv'
<1> USE DEF X!plugins, X!store, X!At
<1> DEFINE m == call[c].module
           pool == modules[m].pool
<1>1. call[c].step = "ready" /\ UNCHANGED <<gateway, procs, conns, closers, cache, insts>>
  BY DEF X!acquire
<1>2. /\ DOMAIN call[c] = CallFields /\ call[c].step \in Running /\ call[c].step # "install"
      /\ m \in DOMAIN modules /\ DOMAIN modules[m] = ModuleFields /\ pool \in Seq(DOMAIN insts)
      /\ IsSeq(modules)
  BY <1>1 DEF HookInv, HookTypes, UsesItsOwn, Running, Using, Holding
<1>3. CASE X!Proceed(c, "error") /\ UNCHANGED modules
  BY <1>1, <1>2, <1>3, Answering DEF X!Proceed
<1>4. CASE call' = [call EXCEPT ![c].step = "instantiate"] /\ UNCHANGED modules
  <2> DEFINE new == [call[c] EXCEPT !.step = "instantiate"]
  <2>1. new.step = "instantiate" /\ new.module = m /\ DOMAIN new = CallFields
    BY <1>2 DEF CallFields
  <2>2. call' = [call EXCEPT ![c] = new] /\ "instantiate" \in Running \ (Holding \cup {"install"})
    BY <1>4 DEF HookInv, HookTypes, Running, Using, Holding
  <2> HIDE DEF new
  <2> QED
    BY <1>1, <1>2, <1>4, <2>1, <2>2, CallMoves
<1>5. CASE /\ ~modules[m].closed /\ pool # << >>
           /\ call' = [call EXCEPT ![c].step = "guest", ![c].inst = Head(pool)]
           /\ modules' = [modules EXCEPT ![m].pool = Tail(@)]
  <2> DEFINE n == Head(pool)
             new == [call[c] EXCEPT !.step = "guest", !.inst = n]
             rest == [modules[m] EXCEPT !.pool = Tail(pool)]
  <2>1. /\ n \in DOMAIN insts /\ n = pool[1] /\ 1 \in DOMAIN pool /\ Tail(pool) \in Seq(DOMAIN insts)
        /\ \A i \in DOMAIN Tail(pool) : i + 1 \in DOMAIN pool /\ Tail(pool)[i] = pool[i + 1] /\ i + 1 # 1
        /\ \A i, j \in DOMAIN Tail(pool) : i + 1 = j + 1 => i = j
    <3> DEFINE W == DOMAIN insts
               p == pool
    <3>1. p \in Seq(W) /\ p # << >>
      BY <1>2, <1>5
    <3> HIDE DEF W, p
    <3>2. /\ 1 \in DOMAIN p /\ Head(p) = p[1] /\ p[1] \in W /\ Tail(p) \in Seq(W)
          /\ \A i \in DOMAIN Tail(p) : i + 1 \in DOMAIN p /\ Tail(p)[i] = p[i + 1] /\ i + 1 # 1
          /\ \A i, j \in DOMAIN Tail(p) : i + 1 = j + 1 => i = j
      BY <3>1, HeadTail
    <3> QED
      BY <3>2 DEF W, p
  <2>2. new.step = "guest" /\ new.inst = n /\ new.module = m /\ DOMAIN new = CallFields
    BY <1>2 DEF CallFields
  <2>3. rest.pool = Tail(pool) /\ ~rest.closed /\ DOMAIN rest = ModuleFields
    BY <1>2, <1>5 DEF ModuleFields
  <2>4. modules' = [modules EXCEPT ![m] = rest] /\ call' = [call EXCEPT ![c] = new]
    BY <1>2, <1>5 DEF HookInv, HookTypes
  <2>5. /\ DOMAIN call' = Calls /\ call'[c] = new
        /\ \A d \in Calls : d # c => call'[d] = call[d]
    BY <2>4 DEF HookInv, HookTypes
  <2> HIDE DEF new, rest, n, m
  <2>6. /\ IsSeq(modules') /\ DOMAIN modules' = DOMAIN modules /\ modules'[m] = rest
        /\ \A o \in DOMAIN modules : o # m => modules'[o] = modules[o]
    BY <1>2, <2>4, ExceptSeq
  <2>7. PoolOf(m)
    BY <1>2 DEF HookInv
  <2>8. insts[n].module = m /\ insts[n].state # "closed"
        /\ \A d \in Calls : call[d].step \in Holding => call[d].inst # n
    BY <2>1, <2>7 DEF PoolOf
  <2>9. HookTypes'
    BY <1>1, <2>1, <2>2, <2>3, <2>5, <2>6 DEF HookInv, HookTypes, Running, Using, Holding
  <2>10. InClosers'
    BY <1>1 DEF HookInv, InClosers
  <2>11. UsesItsOwn'
    <3> SUFFICES ASSUME NEW d \in Calls
                 PROVE  /\ call'[d].step \in Using => call'[d].module \in DOMAIN modules
                        /\ call'[d].step \in Holding =>
                             /\ call'[d].inst \in DOMAIN insts
                             /\ insts[call'[d].inst].module = call'[d].module
                             /\ insts[call'[d].inst].state = "closed" => modules'[call'[d].module].closed
      BY <1>1, <2>6 DEF UsesItsOwn
    <3>1. CASE d = c
      BY <1>2, <2>1, <2>2, <2>5, <2>8, <3>1
    <3>2. CASE d # c
      <4>1. call'[d] = call[d]
        BY <2>5, <3>2
      <4>2. insts[call[d].inst].state = "closed" /\ call[d].step \in Holding
              => call[d].module # m
        BY <1>5 DEF HookInv, UsesItsOwn, m
      <4> QED
        BY <2>6, <4>1, <4>2 DEF HookInv, UsesItsOwn, Using
    <3> QED
      BY <3>1, <3>2
  <2>12. HeldApart'
    BY <2>2, <2>5, <2>8 DEF HookInv, HeldApart
  <2>13. ASSUME NEW o \in DOMAIN modules, o = m PROVE PoolOf(o)'
    <3> DEFINE tail == Tail(pool)
    <3>1. modules'[o].pool = tail /\ ~modules'[o].closed
      BY <2>3, <2>6, <2>13
    <3>2. \A i, j \in DOMAIN pool : pool[i] = pool[j] => i = j
      BY <2>7 DEF PoolOf, m
    <3>3. \A i \in DOMAIN pool :
            /\ insts[pool[i]].module = m /\ insts[pool[i]].state # "closed"
            /\ \A d \in Calls : call[d].step \in Holding => call[d].inst # pool[i]
      BY <2>7 DEF PoolOf, m
    <3> HIDE DEF tail, pool
    <3>4. \A i, j \in DOMAIN tail : tail[i] = tail[j] => i = j
      BY <2>1, <3>2 DEF tail
    <3>5. \A i \in DOMAIN tail :
            /\ insts[tail[i]].module = m /\ insts[tail[i]].state # "closed" /\ tail[i] # n
            /\ \A d \in Calls : call[d].step \in Holding => call[d].inst # tail[i]
      BY <2>1, <3>2, <3>3 DEF tail
    <3>6. \A i \in DOMAIN tail : \A d \in Calls : call'[d].step \in Holding => call'[d].inst # tail[i]
      BY <2>2, <2>5, <3>5
    <3> QED
      BY <1>1, <2>13, <3>1, <3>4, <3>5, <3>6 DEF PoolOf
  <2>14. ASSUME NEW o \in DOMAIN modules, o # m PROVE PoolOf(o)'
    <3>1. modules'[o] = modules[o] /\ PoolOf(o)
      BY <2>6, <2>14 DEF HookInv
    <3>2. \A i \in DOMAIN modules[o].pool : modules[o].pool[i] # n
      BY <2>8, <2>14, <3>1 DEF PoolOf
    <3>3. \A i \in DOMAIN modules[o].pool : \A d \in Calls :
            call'[d].step \in Holding => call'[d].inst # modules[o].pool[i]
      BY <2>2, <2>5, <3>1, <3>2 DEF PoolOf
    <3> QED
      BY <1>1, <3>1, <3>3 DEF PoolOf
  <2>15. ASSUME NEW o \in DOMAIN modules PROVE Reachable(o)'
    <3>1. modules'[o].closed <=> modules[o].closed
      BY <1>5, <2>3, <2>6 DEF m
    <3>2. Reachable(o)
      BY DEF HookInv
    <3>3. \A d \in Calls : call[d].step = "install" => call'[d] = call[d]
      BY <1>1, <2>5
    <3> QED
      BY <1>1, <3>1, <3>2, <3>3 DEF Reachable
  <2>16. DOMAIN modules' = DOMAIN modules
    BY <2>6
  <2> QED
    BY <2>9, <2>10, <2>11, <2>12, <2>13, <2>14, <2>15, <2>16 DEF HookInv
<1>6. \/ X!Proceed(c, "error") /\ UNCHANGED modules
      \/ call' = [call EXCEPT ![c].step = "instantiate"] /\ UNCHANGED modules
      \/ /\ ~modules[m].closed /\ pool # << >>
         /\ call' = [call EXCEPT ![c].step = "guest", ![c].inst = Head(pool)]
         /\ modules' = [modules EXCEPT ![m].pool = Tail(@)]
  BY DEF X!acquire, X!usable
<1> QED
  BY <1>3, <1>4, <1>5, <1>6

\* An instance is made of a module that is open, and held by the call that made it.
LEMMA NewInstInv ==
  ASSUME HookInv, NEW c \in Calls, X!newInst(c)
  PROVE  HookInv'
<1> USE DEF X!plugins, X!store, X!At
<1> DEFINE m == call[c].module
           n == Len(insts) + 1
<1>1. call[c].step = "instantiate" /\ UNCHANGED <<gateway, procs, conns, closers, cache, modules>>
  BY DEF X!newInst
<1>2. /\ DOMAIN call[c] = CallFields /\ call[c].step \in Running /\ call[c].step # "install"
      /\ m \in DOMAIN modules /\ insts \in Seq([module : Nat, state : {"live", "ended", "closed"}])
  BY <1>1 DEF HookInv, HookTypes, UsesItsOwn, Running, Using, Holding
<1>3. CASE X!Proceed(c, "error") /\ UNCHANGED insts
  BY <1>1, <1>2, <1>3, Answering DEF X!Proceed
<1>4. CASE call' = [call EXCEPT ![c] = X!Done("panic")] /\ UNCHANGED insts
  <2>1. X!Done("panic").step = "done" /\ "done" \notin Using
    BY DEF X!Done, Using, Holding
  <2> QED
    BY <1>1, <1>2, <1>4, <2>1, CallMoves
<1>5. CASE /\ ~modules[m].closed
           /\ insts' = Append(insts, [module |-> m, state |-> "live"])
           /\ call' = [call EXCEPT ![c].step = "guest", ![c].inst = n]
  <2> DEFINE new == [call[c] EXCEPT !.step = "guest", !.inst = n]
             R == [module : Nat, state : {"live", "ended", "closed"}]
             fresh == [module |-> m, state |-> "live"]
  <2>1. m \in Nat
    <3>1. PICK any : modules \in Seq(any)
      BY DEF HookInv, HookTypes, IsSeq
    <3> QED
      BY <1>2, <3>1
  <2>2. fresh \in R /\ fresh.module = m /\ fresh.state = "live"
    BY <2>1
  <2>3. insts \in Seq(R) /\ insts' = Append(insts, fresh)
    BY <1>2, <1>5
  <2>4. new.step = "guest" /\ new.inst = n /\ new.module = m /\ DOMAIN new = CallFields
    BY <1>2 DEF CallFields
  <2>5. /\ DOMAIN call' = Calls /\ call'[c] = new
        /\ \A d \in Calls : d # c => call'[d] = call[d]
    BY <1>5 DEF HookInv, HookTypes
  <2> HIDE DEF new, R, fresh, m
  <2>6. /\ insts' \in Seq(R) /\ DOMAIN insts' = DOMAIN insts \cup {n} /\ insts'[n] = fresh
        /\ \A i \in DOMAIN insts : insts'[i] = insts[i]
        /\ n \notin DOMAIN insts
    BY <2>2, <2>3
  <2> HIDE DEF n
  <2>7. \A o \in DOMAIN modules : /\ modules[o].pool \in Seq(DOMAIN insts)
                                  /\ \A i \in DOMAIN modules[o].pool : modules[o].pool[i] \in DOMAIN insts
    <3>1. \A o \in DOMAIN modules : modules[o].pool \in Seq(DOMAIN insts)
      BY DEF HookInv, HookTypes
    <3> QED
      BY <3>1
  <2>8. \A o \in DOMAIN modules : modules[o].pool \in Seq(DOMAIN insts')
    <3>1. \A s \in Seq(DOMAIN insts) : s \in Seq(DOMAIN insts \cup {n})
      OBVIOUS
    <3> QED
      BY <2>6, <2>7, <3>1
  <2>9. HookTypes'
    BY <1>1, <2>4, <2>5, <2>6, <2>8 DEF HookInv, HookTypes, Running, Using, Holding, R
  <2>10. InClosers'
    BY <1>1 DEF HookInv, InClosers
  <2>11. \A d \in Calls : call[d].step \in Holding => call[d].inst \in DOMAIN insts
    BY DEF HookInv, UsesItsOwn
  <2>12. UsesItsOwn'
    BY <1>1, <1>2, <2>2, <2>4, <2>5, <2>6, <2>11 DEF HookInv, UsesItsOwn, Using, m
  <2>13. HeldApart'
    BY <2>4, <2>5, <2>6, <2>11 DEF HookInv, HeldApart
  <2>14. ASSUME NEW o \in DOMAIN modules PROVE PoolOf(o)'
    <3>1. PoolOf(o) /\ \A i \in DOMAIN modules[o].pool : modules[o].pool[i] # n
      BY <2>6, <2>7 DEF HookInv
    <3>2. \A i \in DOMAIN modules[o].pool : insts'[modules[o].pool[i]] = insts[modules[o].pool[i]]
      BY <2>6, <2>7
    <3>3. \A i \in DOMAIN modules[o].pool : \A d \in Calls :
            call'[d].step \in Holding => call'[d].inst # modules[o].pool[i]
      BY <2>4, <2>5, <3>1 DEF PoolOf
    <3> QED
      BY <1>1, <3>1, <3>2, <3>3 DEF PoolOf
  <2>15. ASSUME NEW o \in DOMAIN modules PROVE Reachable(o)'
    <3>1. Reachable(o) /\ \A d \in Calls : call[d].step = "install" => call'[d] = call[d]
      BY <1>1, <2>5 DEF HookInv
    <3> QED
      BY <1>1, <3>1 DEF Reachable
  <2> QED
    BY <1>1, <2>9, <2>10, <2>12, <2>13, <2>14, <2>15 DEF HookInv
<1> QED
  BY <1>3, <1>4, <1>5 DEF X!newInst

\* What a step that changes the state of some instances keeps.
LEMMA StateChanges ==
  ASSUME HookInv, NEW W, NEW x \in {"live", "ended", "closed"},
         insts' = [n \in DOMAIN insts |-> IF n \in W THEN [insts[n] EXCEPT !.state = x] ELSE insts[n]]
  PROVE  /\ insts' \in Seq([module : Nat, state : {"live", "ended", "closed"}])
         /\ DOMAIN insts' = DOMAIN insts
         /\ \A n \in DOMAIN insts :
              /\ insts'[n].module = insts[n].module
              /\ insts'[n].state = IF n \in W THEN x ELSE insts[n].state
<1> DEFINE R == [module : Nat, state : {"live", "ended", "closed"}]
<1>1. insts \in Seq(R)
  BY DEF HookInv, HookTypes
<1>2. \A r \in R : /\ [r EXCEPT !.state = x] \in R /\ [r EXCEPT !.state = x].module = r.module
                   /\ [r EXCEPT !.state = x].state = x
  OBVIOUS
<1> HIDE DEF R
<1>3. \A n \in DOMAIN insts : insts[n] \in R
  BY <1>1
<1>4. insts' \in [1..Len(insts) -> R]
  BY <1>1, <1>2, <1>3
<1>5. insts' \in Seq(R)
  BY <1>1, <1>4
<1> QED
  BY <1>2, <1>3, <1>5 DEF R

\* A guest answers: its instance ends at most, and is held as before.
LEMMA GuestInv ==
  ASSUME HookInv, NEW c \in Calls, X!CallGuest(c)
  PROVE  HookInv'
<1> USE DEF X!plugins, X!store, X!At
<1> DEFINE n == call[c].inst
<1>1. call[c].step = "guest" /\ UNCHANGED <<gateway, procs, conns, closers, cache, modules>>
  BY DEF X!CallGuest
<1>2. DOMAIN call[c] = CallFields /\ call[c].module \in DOMAIN modules /\ n \in DOMAIN insts
  BY <1>1 DEF HookInv, HookTypes, UsesItsOwn, Running, Using, Holding
<1>3. PICK answer : call' = [call EXCEPT ![c].step = "release", ![c].answer = answer]
  BY DEF X!CallGuest
<1> DEFINE new == [call[c] EXCEPT !.step = "release", !.answer = answer]
<1>4. /\ new.step = "release" /\ new.inst = n /\ new.module = call[c].module
      /\ DOMAIN new = CallFields
  BY <1>2 DEF CallFields
<1>5. /\ DOMAIN call' = Calls /\ call'[c] = new
      /\ \A d \in Calls : d # c => call'[d] = call[d]
  BY <1>3 DEF HookInv, HookTypes
<1>6. /\ insts' \in Seq([module : Nat, state : {"live", "ended", "closed"}])
      /\ DOMAIN insts' = DOMAIN insts
      /\ \A i \in DOMAIN insts : /\ insts'[i].module = insts[i].module
                                 /\ insts'[i].state = "closed" <=> insts[i].state = "closed"
  <2>1. CASE insts' = insts
    BY <2>1 DEF HookInv, HookTypes
  <2>2. CASE insts' = [insts EXCEPT ![n].state = "ended"] /\ insts[n].state = "live"
    <3> DEFINE W == {n}
    <3>1. insts' = [i \in DOMAIN insts |->
                      IF i \in W THEN [insts[i] EXCEPT !.state = "ended"] ELSE insts[i]]
      BY <1>2, <2>2 DEF HookInv, HookTypes
    <3> HIDE DEF W
    <3>2. /\ insts' \in Seq([module : Nat, state : {"live", "ended", "closed"}])
          /\ DOMAIN insts' = DOMAIN insts
          /\ \A i \in DOMAIN insts :
               /\ insts'[i].module = insts[i].module
               /\ insts'[i].state = IF i \in W THEN "ended" ELSE insts[i].state
      BY <3>1, StateChanges
    <3> QED
      BY <2>2, <3>2 DEF W
  <2> QED
    BY <2>1, <2>2 DEF X!CallGuest
<1> HIDE DEF new
<1>7. HookTypes'
  BY <1>1, <1>4, <1>5, <1>6 DEF HookInv, HookTypes, Running, Using, Holding
<1>8. InClosers'
  BY <1>1 DEF HookInv, InClosers
<1>9. UsesItsOwn'
  BY <1>1, <1>2, <1>4, <1>5, <1>6 DEF HookInv, UsesItsOwn, Using, Holding
<1>10. HeldApart'
  BY <1>1, <1>4, <1>5 DEF HookInv, HeldApart, Holding
<1>11. ASSUME NEW o \in DOMAIN modules PROVE PoolOf(o)' /\ Reachable(o)'
  <2>1. \A i \in DOMAIN modules[o].pool : modules[o].pool[i] \in DOMAIN insts
    BY DEF HookInv, HookTypes
  <2>2. PoolOf(o)'
    BY <1>1, <1>4, <1>5, <1>6, <2>1 DEF HookInv, PoolOf, Holding
  <2>3. Reachable(o)'
    BY <1>1, <1>4, <1>5 DEF HookInv, Reachable
  <2> QED
    BY <2>2, <2>3
<1> QED
  BY <1>1, <1>7, <1>8, <1>9, <1>10, <1>11 DEF HookInv

\* An instance goes back into the pool of its open module, or is closed.
LEMMA ReleaseInv ==
  ASSUME HookInv, NEW c \in Calls, X!release(c)
  PROVE  HookInv'
<1> USE DEF X!plugins, X!store, X!At
<1> DEFINE m == call[c].module
           n == call[c].inst
<1>1. call[c].step = "release" /\ UNCHANGED <<gateway, procs, conns, closers, cache>>
  BY DEF X!release
<1>2. /\ DOMAIN call[c] = CallFields /\ m \in DOMAIN modules /\ n \in DOMAIN insts
      /\ insts[n].module = m
      /\ (insts[n].state = "closed" => modules[m].closed)
  BY <1>1 DEF HookInv, HookTypes, UsesItsOwn, Running, Using, Holding
<1> PICK answer, by : call' = [call EXCEPT ![c] = X!Answered(c, answer, by)]
  BY DEF X!release, X!Proceed
<1> DEFINE new == X!Answered(c, answer, by)
<1>3. \/ new.step = "done"
      \/ new.step = "hooks" /\ DOMAIN new = CallFields
  BY <1>2, AfterAnswer
<1>4. /\ DOMAIN call' = Calls /\ call'[c] = new
      /\ \A d \in Calls : d # c => call'[d] = call[d]
  BY DEF HookInv, HookTypes
<1> HIDE DEF new
<1>5. new.step \notin Using /\ new.step \notin Holding /\ new.step # "install"
  BY <1>3 DEF Using, Holding
<1>6. \A d \in Calls : d # c /\ call[d].step \in Holding => call[d].inst # n
  BY <1>1 DEF HookInv, HeldApart, Holding
<1>7. InClosers'
  BY <1>1 DEF HookInv, InClosers
<1>8. HeldApart'
  BY <1>4, <1>5 DEF HookInv, HeldApart
<1>9. \A o \in DOMAIN modules : \A i \in DOMAIN modules[o].pool : modules[o].pool[i] # n
  BY <1>1 DEF HookInv, PoolOf, Holding
<1>10. CASE /\ ~modules[m].closed /\ insts' = insts
            /\ modules' = [modules EXCEPT ![m].pool = Append(@, n)]
  <2> DEFINE pool == modules[m].pool
             more == [modules[m] EXCEPT !.pool = Append(pool, n)]
  <2>1. IsSeq(modules) /\ DOMAIN modules[m] = ModuleFields /\ pool \in Seq(DOMAIN insts)
    BY <1>2 DEF HookInv, HookTypes
  <2>2. modules' = [modules EXCEPT ![m] = more]
    BY <1>2, <1>10
  <2>3. more.pool = Append(pool, n) /\ ~more.closed /\ DOMAIN more = ModuleFields
    BY <1>10, <2>1 DEF ModuleFields
  <2>4. PoolOf(m)
    BY <1>2 DEF HookInv
  <2>5. /\ \A i, j \in DOMAIN pool : pool[i] = pool[j] => i = j
        /\ \A i \in DOMAIN pool :
             /\ insts[pool[i]].module = m /\ insts[pool[i]].state # "closed" /\ pool[i] # n
             /\ \A d \in Calls : call[d].step \in Holding => call[d].inst # pool[i]
    BY <1>2, <1>9, <2>4 DEF PoolOf
  <2> HIDE DEF more, m, n
  <2>6. /\ IsSeq(modules') /\ DOMAIN modules' = DOMAIN modules /\ modules'[m] = more
        /\ \A o \in DOMAIN modules : o # m => modules'[o] = modules[o]
    BY <1>2, <2>1, <2>2, ExceptSeq
  <2> DEFINE longer == Append(pool, n)
             last == Len(pool) + 1
             W == DOMAIN insts
  <2>7. pool \in Seq(W) /\ n \in W
    BY <1>2, <2>1
  <2> HIDE DEF pool, W
  <2>8. /\ longer \in Seq(W) /\ DOMAIN longer = DOMAIN pool \cup {last} /\ longer[last] = n
        /\ \A i \in DOMAIN pool : longer[i] = pool[i]
    BY <2>7
  <2> HIDE DEF longer, last
  <2>9. more.pool = longer
    BY <2>3 DEF longer
  <2>10. HookTypes'
    <3>1. modules'[m].pool \in Seq(DOMAIN insts')
      BY <1>10, <2>6, <2>8, <2>9 DEF W
    <3>2. \A o \in DOMAIN modules' : /\ DOMAIN modules'[o] = ModuleFields
                                     /\ modules'[o].pool \in Seq(DOMAIN insts')
      BY <1>10, <2>3, <2>6, <3>1 DEF HookInv, HookTypes
    <3>3. \A d \in Calls : \/ call'[d].step \in {"idle", "done"}
                           \/ call'[d].step \in Running /\ DOMAIN call'[d] = CallFields
      BY <1>3, <1>4 DEF HookInv, HookTypes, Running
    <3> QED
      BY <1>1, <1>4, <1>10, <2>6, <3>2, <3>3 DEF HookInv, HookTypes
  <2>11. UsesItsOwn'
    <3> SUFFICES ASSUME NEW d \in Calls
                 PROVE  /\ call'[d].step \in Using => call'[d].module \in DOMAIN modules
                        /\ call'[d].step \in Holding =>
                             /\ call'[d].inst \in DOMAIN insts
                             /\ insts[call'[d].inst].module = call'[d].module
                             /\ insts[call'[d].inst].state = "closed" => modules'[call'[d].module].closed
      BY <1>10, <2>6 DEF UsesItsOwn
    <3>1. CASE d = c
      BY <1>4, <1>5, <3>1
    <3>2. CASE d # c
      <4>1. call'[d] = call[d]
        BY <1>4, <3>2
      <4>2. insts[call[d].inst].state = "closed" /\ call[d].step \in Holding => call[d].module # m
        BY <1>10 DEF HookInv, UsesItsOwn
      <4> QED
        BY <2>6, <4>1, <4>2 DEF HookInv, UsesItsOwn, Using
    <3> QED
      BY <3>1, <3>2
  <2>12. ASSUME NEW p \in DOMAIN modules, p = m PROVE PoolOf(p)'
    <3>1. modules'[p].pool = longer /\ ~modules'[p].closed
      BY <2>3, <2>6, <2>9, <2>12
    <3>2. \A i, j \in DOMAIN longer : longer[i] = longer[j] => i = j
      BY <2>5, <2>8
    <3>3. \A i \in DOMAIN longer : insts[longer[i]].module = m /\ insts[longer[i]].state # "closed"
      BY <1>2, <1>10, <2>5, <2>8
    <3>4. \A i \in DOMAIN longer : \A d \in Calls :
            call'[d].step \in Holding => call'[d].inst # longer[i]
      BY <1>4, <1>5, <1>6, <2>5, <2>8
    <3>5. insts' = insts
      BY <1>10
    <3> HIDE DEF longer
    <3> QED
      BY <2>12, <3>1, <3>2, <3>3, <3>4, <3>5 DEF PoolOf
  <2>13. ASSUME NEW p \in DOMAIN modules, p # m PROVE PoolOf(p)'
    <3>1. modules'[p] = modules[p] /\ PoolOf(p) /\ insts' = insts
      BY <1>10, <2>6, <2>13 DEF HookInv
    <3>2. \A d \in Calls : call'[d].step \in Holding => call[d].step \in Holding /\ call'[d] = call[d]
      BY <1>4, <1>5
    <3>3. \A i \in DOMAIN modules[p].pool : \A d \in Calls :
            call'[d].step \in Holding => call'[d].inst # modules[p].pool[i]
      BY <3>1, <3>2 DEF PoolOf
    <3> QED
      BY <3>1, <3>3 DEF PoolOf
  <2>14. ASSUME NEW p \in DOMAIN modules PROVE Reachable(p)'
    <3>1. modules'[p].closed <=> modules[p].closed
      BY <1>10, <2>3, <2>6
    <3>2. Reachable(p) /\ \A d \in Calls : call[d].step = "install" => call'[d] = call[d]
      BY <1>1, <1>4 DEF HookInv
    <3> QED
      BY <1>1, <3>1, <3>2 DEF Reachable
  <2>15. DOMAIN modules' = DOMAIN modules
    BY <2>6
  <2> QED
    BY <1>7, <1>8, <2>10, <2>11, <2>12, <2>13, <2>14, <2>15 DEF HookInv
<1>11. CASE modules' = modules /\ insts' = X!Shut({n})
  <2> DEFINE W == {n}
  <2>1. insts' = [i \in DOMAIN insts |->
                    IF i \in W THEN [insts[i] EXCEPT !.state = "closed"] ELSE insts[i]]
    BY <1>11 DEF X!Shut
  <2> HIDE DEF W
  <2>2. /\ insts' \in Seq([module : Nat, state : {"live", "ended", "closed"}])
        /\ DOMAIN insts' = DOMAIN insts
        /\ \A i \in DOMAIN insts :
             /\ insts'[i].module = insts[i].module
             /\ insts'[i].state = IF i \in W THEN "closed" ELSE insts[i].state
    BY <2>1, StateChanges
  <2>3. \A i \in DOMAIN insts : /\ insts'[i].module = insts[i].module
                                /\ i # n => insts'[i].state = insts[i].state
    BY <2>2 DEF W
  <2> HIDE DEF n, m
  <2>4. HookTypes'
    <3>1. \A d \in Calls : \/ call'[d].step \in {"idle", "done"}
                           \/ call'[d].step \in Running /\ DOMAIN call'[d] = CallFields
      BY <1>3, <1>4 DEF HookInv, HookTypes, Running
    <3> QED
      BY <1>1, <1>4, <1>11, <2>2, <3>1 DEF HookInv, HookTypes
  <2>5. UsesItsOwn'
    <3> SUFFICES ASSUME NEW d \in Calls
                 PROVE  /\ call'[d].step \in Using => call'[d].module \in DOMAIN modules
                        /\ call'[d].step \in Holding =>
                             /\ call'[d].inst \in DOMAIN insts
                             /\ insts'[call'[d].inst].module = call'[d].module
                             /\ insts'[call'[d].inst].state = "closed" => modules[call'[d].module].closed
      BY <1>11, <2>2 DEF UsesItsOwn
    <3>1. CASE d = c
      BY <1>4, <1>5, <3>1
    <3>2. CASE d # c
      BY <1>4, <1>6, <2>3, <3>2 DEF HookInv, UsesItsOwn
    <3> QED
      BY <3>1, <3>2
  <2>6. ASSUME NEW p \in DOMAIN modules PROVE PoolOf(p)' /\ Reachable(p)'
    <3>1. PoolOf(p) /\ \A i \in DOMAIN modules[p].pool : modules[p].pool[i] \in DOMAIN insts
      BY DEF HookInv, HookTypes
    <3>2. PoolOf(p)'
      <4>1. \A i \in DOMAIN modules[p].pool : /\ insts'[modules[p].pool[i]].module = insts[modules[p].pool[i]].module
                                               /\ insts'[modules[p].pool[i]].state = insts[modules[p].pool[i]].state
        BY <1>9, <2>3, <3>1
      <4>2. \A d \in Calls : call'[d].step \in Holding => call[d].step \in Holding /\ call'[d] = call[d]
        BY <1>4, <1>5
      <4>3. \A i \in DOMAIN modules[p].pool : \A d \in Calls :
              call'[d].step \in Holding => call'[d].inst # modules[p].pool[i]
        BY <3>1, <4>2 DEF PoolOf
      <4>4. modules' = modules
        BY <1>11
      <4> QED
        BY <3>1, <4>1, <4>3, <4>4 DEF PoolOf
    <3>3. Reachable(p)'
      BY <1>1, <1>4, <1>11 DEF HookInv, Reachable
    <3> QED
      BY <3>2, <3>3
  <2> QED
    BY <1>7, <1>8, <1>11, <2>4, <2>5, <2>6 DEF HookInv
<1> QED
  BY <1>10, <1>11 DEF X!release

\* A module of the cache is closed, and its instances with it.
LEMMA SweepInv ==
  ASSUME HookInv, NEW k \in DOMAIN cache, X!SweepModule(k)
  PROVE  HookInv'
<1> USE DEF X!plugins, X!store
<1> DEFINE m == cache[k]
           gone == X!InstancesOf(m)
<1>1. UNCHANGED <<gateway, procs, conns, closers, call>>
  BY DEF X!SweepModule
<1>2. /\ m \in DOMAIN modules /\ modules' = [modules EXCEPT ![m] = X!Close(@)]
      /\ gone \subseteq DOMAIN insts /\ \A n \in DOMAIN insts : n \in gone <=> insts[n].module = m
      /\ insts' = X!Shut(gone)
  BY DEF X!SweepModule, HookInv, HookTypes, X!InstancesOf
<1>3. /\ DOMAIN cache' = DOMAIN cache \ {k}
      /\ \A j \in DOMAIN cache' : cache'[j] = cache[j]
  BY DEF X!SweepModule
<1> HIDE DEF m, gone
<1>4. \A n \in gone : insts[n].module = m
  BY <1>2
<1>5. /\ IsSeq(modules') /\ DOMAIN modules' = DOMAIN modules
      /\ modules'[m].closed /\ modules'[m].pool = << >> /\ DOMAIN modules'[m] = ModuleFields
      /\ \A o \in DOMAIN modules : o # m => modules'[o] = modules[o]
      /\ insts' \in Seq([module : Nat, state : {"live", "ended", "closed"}])
      /\ DOMAIN insts' = DOMAIN insts
      /\ \A n \in DOMAIN insts : /\ insts'[n].module = insts[n].module
                                 /\ n \notin gone => insts'[n].state = insts[n].state
  BY <1>2, <1>4, CloseModule
<1>6. << >> \in Seq(DOMAIN insts)
  OBVIOUS
<1>7. HookTypes'
  BY <1>1, <1>3, <1>5, <1>6 DEF HookInv, HookTypes
<1>8. InClosers'
  BY <1>1 DEF HookInv, InClosers
<1>9. UsesItsOwn'
  BY <1>1, <1>2, <1>5 DEF HookInv, UsesItsOwn
<1>10. HeldApart'
  BY <1>1 DEF HookInv, HeldApart
<1>11. ASSUME NEW o \in DOMAIN modules PROVE PoolOf(o)'
  <2>1. \A i \in DOMAIN modules[o].pool : modules[o].pool[i] \in DOMAIN insts
    BY DEF HookInv, HookTypes
  <2>2. CASE o = m
    BY <1>5, <2>2 DEF PoolOf
  <2>3. CASE o # m
    BY <1>1, <1>2, <1>5, <2>1, <2>3 DEF HookInv, PoolOf
  <2> QED
    BY <2>2, <2>3
<1>12. ASSUME NEW o \in DOMAIN modules PROVE Reachable(o)'
  <2>1. CASE o = m
    BY <1>5, <2>1 DEF Reachable
  <2>2. CASE o # m
    BY <1>1, <1>3, <1>5, <2>2 DEF HookInv, Reachable, m
  <2> QED
    BY <2>1, <2>2
<1> QED
  BY <1>5, <1>7, <1>8, <1>9, <1>10, <1>11, <1>12 DEF HookInv

\* The process ends, and what it held with it.
LEMMA ExitInv ==
  ASSUME HookInv, X!Exit
  PROVE  HookInv'
<1>1. \A i \in X!Plugins : procs[i] = "running" => \E n \in DOMAIN closers : closers[n] = <<"proc", i>>
  BY DEF HookInv, InClosers
<1>2. X!closeAll(procs)
  BY DEF X!Exit
<1>3. /\ DOMAIN procs' = X!Plugins /\ \A i \in X!Plugins : procs'[i] # "running"
      /\ conns' = {} /\ closers' = << >>
  BY <1>1, <1>2, AllClosed
<1>4. /\ DOMAIN gateway' = {"step", "at"} /\ gateway'.at \in Nat /\ gateway'.step = "exited"
      /\ cache' = << >> /\ modules' = << >> /\ insts' = << >>
      /\ DOMAIN call' = Calls /\ \A c \in Calls : call'[c].step = "idle"
  BY DEF X!Exit, X!Idle, HookInv, HookTypes
<1>5. HookTypes' /\ InClosers'
  BY <1>3, <1>4 DEF HookTypes, InClosers, IsSeq
<1>6. "idle" \notin Using /\ "idle" \notin Holding
  BY DEF Using, Holding
<1>7. UsesItsOwn' /\ HeldApart'
  BY <1>4, <1>6 DEF UsesItsOwn, HeldApart
<1>8. DOMAIN modules' = {}
  BY <1>4
<1> QED
  BY <1>5, <1>7, <1>8 DEF HookInv

\* What the store of the modules, and a step that changes nothing, leave alone.
LEMMA HookFrame ==
  ASSUME HookInv, UNCHANGED <<gateway, procs, conns, closers, cache, modules, insts, call>>
  PROVE  HookInv'
<1>1. HookTypes' /\ InClosers' /\ UsesItsOwn' /\ HeldApart'
  BY DEF HookInv, HookTypes, IsSeq, InClosers, UsesItsOwn, HeldApart
<1>2. \A m \in DOMAIN modules' : PoolOf(m)' /\ Reachable(m)'
  BY DEF HookInv, PoolOf, Reachable
<1> QED
  BY <1>1, <1>2 DEF HookInv

LEMMA HookInitially == X!Init => HookInv
<1> SUFFICES ASSUME X!Init PROVE HookInv
  OBVIOUS
<1>1. /\ gateway = [step |-> "load", at |-> 1] /\ procs = [i \in X!Plugins |-> "none"]
      /\ conns = {} /\ closers = << >> /\ cache = << >> /\ modules = << >> /\ insts = << >>
      /\ call = [c \in Calls |-> [step |-> "idle"]]
  BY DEF X!Init, X!Idle
<1>2. HookTypes /\ InClosers
  BY <1>1 DEF HookTypes, InClosers, IsSeq
<1>3. "idle" \notin Using /\ "idle" \notin Holding
  BY DEF Using, Holding
<1>4. UsesItsOwn /\ HeldApart
  BY <1>1, <1>3 DEF UsesItsOwn, HeldApart
<1>5. DOMAIN modules = {}
  BY <1>1
<1> QED
  BY <1>2, <1>4, <1>5 DEF HookInv

LEMMA HookStep == HookInv /\ [X!Next]_(X!vars) => HookInv'
<1> SUFFICES ASSUME HookInv, [X!Next]_(X!vars) PROVE HookInv'
  OBVIOUS
<1>1. CASE \/ X!startProcess \/ X!dialTarget \/ X!Handshake \/ X!Serve \/ X!Abort
           \/ X!Stop \/ X!Drained \/ X!Swept
           \/ \E i \in X!Plugins : X!Crash(i)
  BY <1>1, MainInv
<1>2. CASE X!Exit
  BY <1>2, ExitInv
<1>3. CASE X!Upload \/ UNCHANGED X!vars
  BY <1>3, HookFrame DEF X!Upload, X!vars, X!plugins, X!guests
<1>4. CASE \E k \in DOMAIN cache : X!SweepModule(k)
  BY <1>4, SweepInv
<1>5. ASSUME NEW c \in Calls, X!Walk(c) PROVE HookInv'
  <2>1. CASE \/ X!Arrive(c) \/ X!AskPlugin(c) \/ X!Lookup(c) \/ X!PhaseEnds(c)
             \/ X!CheckQuota(c) \/ X!Execute(c)
    BY <2>1, WalkInv
  <2>2. CASE X!Compile(c)
    BY <2>2, CompileInv
  <2>3. CASE X!Install(c)
    BY <2>3, InstallInv
  <2>4. CASE X!acquire(c)
    BY <2>4, AcquireInv
  <2>5. CASE X!newInst(c)
    BY <2>5, NewInstInv
  <2>6. CASE X!CallGuest(c)
    BY <2>6, GuestInv
  <2>7. CASE X!release(c)
    BY <2>7, ReleaseInv
  <2> QED
    BY <1>5, <2>1, <2>2, <2>3, <2>4, <2>5, <2>6, <2>7 DEF X!Walk
<1> QED
  BY <1>1, <1>2, <1>3, <1>4, <1>5 DEF X!Next

\* The invariant of the hooks: types; the list of what is to be closed has every process and
\* connection; a call uses a module that exists and holds an instance of it, which no other
\* call and no pool has; an open module is in the cache or with the call that compiled it.
THEOREM HooksInvariant == X!Spec => []HookInv
<1>1. X!Init => HookInv
  BY HookInitially
<1>2. HookInv /\ [X!Next]_(X!vars) => HookInv'
  BY HookStep
<1> QED
  BY <1>1, <1>2, PTL DEF X!Spec

\* A guest instance serves one call at a time (wasmguest.Module.acquire, newInst and
\* release), for any number of calls, plugins and modules and any size of the pools.
THEOREM OneCallEach == X!Spec => []OneCallPerInstance
<1>1. HookInv => OneCallPerInstance
  <2> SUFFICES ASSUME HookInv, NEW n \in DOMAIN insts
               PROVE  /\ \A c, d \in X!Held(n) : c = d
                      /\ \A v, w \in X!Waiting(n) : v = w
                      /\ X!Held(n) = {} \/ X!Waiting(n) = {}
                      /\ \A w \in X!Waiting(n) :
                           w[1] = insts[n].module /\ ~modules[w[1]].closed /\ insts[n].state # "closed"
    BY DEF OneCallPerInstance, X!OneCallPerInstance
  <2>1. \A c \in X!Held(n) : c \in Calls /\ call[c].step \in Holding /\ call[c].inst = n
    BY DEF X!Held, Holding
  <2>2. ASSUME NEW w \in X!Waiting(n)
        PROVE  /\ w[1] \in DOMAIN modules /\ w[2] \in DOMAIN modules[w[1]].pool
               /\ modules[w[1]].pool[w[2]] = n /\ w = <<w[1], w[2]>>
    <3>1. /\ w \in (DOMAIN modules) \X (1..PoolSize) /\ w[2] <= Len(modules[w[1]].pool)
          /\ modules[w[1]].pool[w[2]] = n
      BY DEF X!Waiting
    <3>2. w[1] \in DOMAIN modules /\ w[2] \in 1..PoolSize /\ w = <<w[1], w[2]>>
      BY <3>1
    <3>3. modules[w[1]].pool \in Seq(DOMAIN insts)
      BY <3>2 DEF HookInv, HookTypes
    <3>4. w[2] \in Nat \ {0} /\ w[2] \in 1..Len(modules[w[1]].pool)
      BY <3>1, <3>2, <3>3
    <3> QED
      BY <3>1, <3>2, <3>3, <3>4
  <2>3. \A w \in X!Waiting(n) :
          /\ PoolOf(w[1]) /\ insts[n].module = w[1] /\ insts[n].state # "closed"
          /\ ~modules[w[1]].closed
          /\ \A c \in Calls : call[c].step \in Holding => call[c].inst # n
    <3> SUFFICES ASSUME NEW w \in X!Waiting(n)
                 PROVE  /\ PoolOf(w[1]) /\ insts[n].module = w[1] /\ insts[n].state # "closed"
                        /\ ~modules[w[1]].closed
                        /\ \A c \in Calls : call[c].step \in Holding => call[c].inst # n
      OBVIOUS
    <3>1. PoolOf(w[1])
      BY <2>2 DEF HookInv
    <3>2. modules[w[1]].pool # << >>
      BY <2>2
    <3> QED
      BY <2>2, <3>1, <3>2 DEF PoolOf
  <2>4. \A c, d \in X!Held(n) : c = d
    BY <2>1 DEF HookInv, HeldApart
  <2>5. ASSUME NEW v \in X!Waiting(n), NEW w \in X!Waiting(n) PROVE v = w
    <3>1. v[1] = w[1]
      BY <2>3
    <3>2. v[2] = w[2]
      BY <2>2, <2>3, <3>1 DEF PoolOf
    <3> QED
      BY <2>2, <3>1, <3>2
  <2>6. X!Held(n) = {} \/ X!Waiting(n) = {}
    BY <2>1, <2>3
  <2> QED
    BY <2>3, <2>4, <2>5, <2>6
<1> QED
  BY <1>1, HooksInvariant, PTL

\* What was started is ended (Runtime.Close, ModuleCache.Get): a gateway that is refused or
\* has exited leaves no plugin, and an open module is in the cache or being installed.
THEOREM NothingLeft == X!Spec => []NothingLeaks
<1>1. HookInv => NothingLeaks
  <2> SUFFICES ASSUME HookInv PROVE NothingLeaks
    OBVIOUS
  <2>1. ASSUME gateway.step \in {"refused", "exited"}
        PROVE  conns = {} /\ \A i \in X!Plugins : procs[i] # "running"
    <3>1. closers = << >>
      BY <2>1 DEF HookInv, InClosers
    <3>2. DOMAIN closers = {}
      BY <3>1
    <3> QED
      BY <3>2 DEF HookInv, InClosers
  <2>2. \A m \in DOMAIN modules :
          \/ modules[m].closed
          \/ m \in {cache[k] : k \in DOMAIN cache}
          \/ \E c \in Calls : call[c].step = "install" /\ call[c].module = m
    BY DEF HookInv, Reachable
  <2> QED
    BY <2>1, <2>2 DEF NothingLeaks, X!NothingLeaks
<1> QED
  BY <1>1, HooksInvariant, PTL

-----------------------------------------------------------------------------
(* Extensions: the hooks of a phase in order *)

\* The hooks a phase has for a call of an organization, and how many come before one.
DueFor(phase, snap, o) == X!registered(phase) \cup X!filterWasmHooks(snap, o, phase)
LineOf(A) == [n \in 1..Cardinality(A) |->
               CHOOSE h \in A : Cardinality({g \in A : X!before(g, h)}) = n - 1]
Place(A, h) == Cardinality({g \in A : X!before(g, h)}) + 1

StrictlyOrdered(A) ==
  /\ \A h \in A : ~X!before(h, h)
  /\ \A g, h \in A : g # h => X!before(g, h) \/ X!before(h, g)
  /\ \A f, g, h \in A : X!before(f, g) /\ X!before(g, h) => X!before(f, h)

\* Each hook has a place of its own, and the line has it there.
InLine(A) ==
  /\ Cardinality(A) \in Nat
  /\ \A h \in A : Place(A, h) \in 1..Cardinality(A) /\ LineOf(A)[Place(A, h)] = h
  /\ \A n \in 1..Cardinality(A) : LineOf(A)[n] \in A /\ Place(A, LineOf(A)[n]) = n
  /\ \A m, n \in 1..Cardinality(A) : m < n => X!before(LineOf(A)[m], LineOf(A)[n])

LEMMA TheLine == ASSUME NEW A PROVE X!inOrder(A) = LineOf(A)
BY DEF X!inOrder, LineOf, X!Cardinality, Cardinality

LEMMA Lines ==
  ASSUME NEW A, IsFiniteSet(A), StrictlyOrdered(A)
  PROVE  InLine(A)
<1> DEFINE N == Cardinality(A)
           Ahead(h) == {g \in A : X!before(g, h)}
           place == [h \in A |-> Cardinality(Ahead(h)) + 1]
<1> USE DEF StrictlyOrdered
<1>1. N \in Nat
  BY FS_CardinalityType
<1>2. \A h \in A : IsFiniteSet(Ahead(h)) /\ Cardinality(Ahead(h)) \in Nat
  BY FS_Subset, FS_CardinalityType
<1>3. ASSUME NEW h \in A
      PROVE  place[h] \in 1..N
  <2>1. IsFiniteSet(A \ {h}) /\ Cardinality(A \ {h}) = N - 1
    BY FS_RemoveElement
  <2>2. Ahead(h) \in SUBSET (A \ {h})
    OBVIOUS
  <2>3. Cardinality(Ahead(h)) <= N - 1
    BY <2>1, <2>2, FS_Subset
  <2> QED
    BY <1>1, <1>2, <2>3
<1>4. ASSUME NEW g \in A, NEW h \in A, X!before(g, h)
      PROVE  place[g] < place[h]
  <2>1. Ahead(g) \in SUBSET Ahead(h) /\ g \in Ahead(h) /\ g \notin Ahead(g)
    BY <1>4
  <2>2. Cardinality(Ahead(g)) <= Cardinality(Ahead(h)) /\ Cardinality(Ahead(g)) # Cardinality(Ahead(h))
    BY <1>2, <2>1, FS_Subset
  <2> QED
    BY <1>2, <2>2
<1> HIDE DEF Ahead
<1>5. \A g, h \in A : place[g] = place[h] => g = h
  BY <1>1, <1>3, <1>4
<1>6. place \in Injection(A, 1..N)
  <2>1. place \in [A -> 1..N]
    BY <1>3
  <2> QED
    BY <1>5, <2>1, Zenon DEF Injection, IsInjective
<1>7. IsFiniteSet(1..N) /\ Cardinality(1..N) = N
  <2>1. 1 \in Int /\ N \in Int
    BY <1>1
  <2>2. IsFiniteSet(1..N) /\ Cardinality(1..N) = IF 1 > N THEN 0 ELSE N - 1 + 1
    BY <2>1, FS_Interval, Zenon
  <2> QED
    BY <1>1, <2>2
<1>8. \A n \in 1..N : \E h \in A : place[h] = n
  <2>1. place \in Surjection(A, 1..N)
    BY <1>6, <1>7, FS_Injection
  <2> QED
    BY <2>1, Zenon DEF Surjection
<1>9. \A h \in A : place[h] = Place(A, h)
  BY DEF Place, Ahead
<1> HIDE DEF place
<1>10. ASSUME NEW n \in 1..N
       PROVE  LineOf(A)[n] \in A /\ place[LineOf(A)[n]] = n
  <2> DEFINE At(h) == Cardinality({g \in A : X!before(g, h)}) = n - 1
             it == CHOOSE h \in A : At(h)
  <2>1. \A h \in A : At(h) <=> place[h] = n
    <3>1. \A h \in A : place[h] = Cardinality({g \in A : X!before(g, h)}) + 1
      BY <1>9 DEF Place
    <3>2. \A h \in A : Cardinality({g \in A : X!before(g, h)}) \in Nat
      BY <1>2 DEF Ahead
    <3> QED
      BY <1>1, <3>1, <3>2
  <2>2. LineOf(A)[n] = it
    BY DEF LineOf
  <2> HIDE DEF At
  <2>3. \E h \in A : At(h)
    BY <1>8, <2>1
  <2>4. it \in A /\ At(it)
    BY <2>3
  <2> QED
    BY <2>1, <2>2, <2>4
<1>11. \A h \in A : Place(A, h) \in 1..N /\ LineOf(A)[Place(A, h)] = h
  BY <1>3, <1>5, <1>9, <1>10
<1>12. \A n \in 1..N : LineOf(A)[n] \in A /\ Place(A, LineOf(A)[n]) = n
  BY <1>9, <1>10
<1>13. ASSUME NEW m \in 1..N, NEW n \in 1..N, m < n
       PROVE  X!before(LineOf(A)[m], LineOf(A)[n])
  <2>1. LineOf(A)[m] # LineOf(A)[n] /\ ~(place[LineOf(A)[n]] < place[LineOf(A)[m]])
    BY <1>10, <1>13
  <2> QED
    BY <1>4, <1>10, <2>1
<1> QED
  BY <1>1, <1>11, <1>12, <1>13 DEF InLine

\* The hooks of a phase have one order: the plugins by their place, then those of the
\* snapshot by priority and order.
LEMMA DueInLine ==
  ASSUME NEW snap \in Snaps, NEW phase, NEW o
  PROVE  InLine(DueFor(phase, snap, o))
<1> DEFINE A == DueFor(phase, snap, o)
           P == {i \in X!Plugins : phase \in Manifests[i].caps}
           W == {h \in snap : h.enabled /\ h.org = o /\ h.phase = phase}
<1>1. /\ Len(Manifests) \in Nat /\ IsFiniteSet(snap)
      /\ \A h \in W : h.priority \in Int /\ h.order \in Int
      /\ \A g, h \in W : g.priority = h.priority /\ g.order = h.order => g = h
  BY HooksAssumption
<1>2. X!registered(phase) = {<<"plugin", i>> : i \in P}
  BY DEF X!registered
<1>3. X!filterWasmHooks(snap, o, phase) = {<<"wasm", h>> : h \in W}
  BY DEF X!filterWasmHooks
<1>4. IsFiniteSet({<<"plugin", i>> : i \in P})
  <2> DEFINE I == {<<"plugin", i>> : i \in P}
             unwrap == [t \in I |-> t[2]]
  <2>1. IsFiniteSet(P)
    <3>1. IsFiniteSet(1..Len(Manifests))
      BY <1>1, FS_Interval
    <3>2. P \in SUBSET (1..Len(Manifests))
      BY DEF X!Plugins
    <3> QED
      BY <3>1, <3>2, FS_Subset
  <2>2. unwrap \in [I -> P] /\ \A s, t \in I : unwrap[s] = unwrap[t] => s = t
    OBVIOUS
  <2>3. unwrap \in Injection(I, P)
    BY <2>2, Zenon DEF Injection, IsInjective
  <2> QED
    BY <2>1, <2>3, FS_Injection
<1>5. IsFiniteSet({<<"wasm", h>> : h \in W})
  <2> DEFINE I == {<<"wasm", h>> : h \in W}
             unwrap == [t \in I |-> t[2]]
  <2>1. IsFiniteSet(W)
    BY <1>1, FS_Subset
  <2> HIDE DEF W
  <2>2. unwrap \in [I -> W] /\ \A s, t \in I : unwrap[s] = unwrap[t] => s = t
    OBVIOUS
  <2>3. unwrap \in Injection(I, W)
    BY <2>2, Zenon DEF Injection, IsInjective
  <2> QED
    BY <2>1, <2>3, FS_Injection
<1>6. IsFiniteSet(A)
  BY <1>2, <1>3, <1>4, <1>5, FS_Union DEF DueFor
<1>7. \A t \in A : \/ t[1] = "plugin" /\ t[2] \in Nat /\ t = <<"plugin", t[2]>>
                   \/ t[1] = "wasm" /\ t[2] \in W /\ t = <<"wasm", t[2]>>
  BY <1>2, <1>3 DEF DueFor, X!Plugins
<1> HIDE DEF A, W
<1>8. \A h \in A : ~X!before(h, h)
  BY <1>1, <1>7 DEF X!before, X!sooner
<1>9. \A g, h \in A : g # h => X!before(g, h) \/ X!before(h, g)
  BY <1>1, <1>7 DEF X!before, X!sooner
<1>10. \A f, g, h \in A : X!before(f, g) /\ X!before(g, h) => X!before(f, h)
  BY <1>1, <1>7 DEF X!before, X!sooner
<1>11. StrictlyOrdered(A)
  BY <1>8, <1>9, <1>10, Zenon DEF StrictlyOrdered
<1> QED
  BY <1>6, <1>11, Lines DEF A

\* The plugins have the same places whatever organization's hooks follow them.
LEMMA PluginsFirst ==
  ASSUME NEW snap \in Snaps, NEW phase, NEW o, NEW q,
         NEW n \in 1..Cardinality(DueFor(phase, snap, o)),
         LineOf(DueFor(phase, snap, o))[n][1] = "plugin"
  PROVE  /\ n <= Cardinality(DueFor(phase, snap, q))
         /\ \A m \in 1..n : LineOf(DueFor(phase, snap, q))[m] = LineOf(DueFor(phase, snap, o))[m]
<1> DEFINE A == DueFor(phase, snap, o)
           B == DueFor(phase, snap, q)
           R == X!registered(phase)
<1>1. InLine(A) /\ InLine(B)
  BY DueInLine
<1>2. R \subseteq A /\ R \subseteq B /\ \A h \in A \cup B : h \in R \/ h[1] = "wasm"
  BY DEF DueFor, X!filterWasmHooks
<1>3. \A h \in R : h[1] = "plugin"
  BY DEF X!registered
<1> HIDE DEF A, B, R
<1>4. \A g, h : h[1] = "plugin" /\ X!before(g, h) => g[1] = "plugin"
  BY DEF X!before
<1>5. \A h \in R : Place(A, h) = Place(B, h)
  <2>1. \A h \in R : {g \in A : X!before(g, h)} = {g \in B : X!before(g, h)}
    BY <1>2, <1>3, <1>4
  <2> QED
    BY <2>1, Zenon DEF Place
<1>6. ASSUME NEW m \in 1..n
      PROVE  m \in 1..Cardinality(B) /\ LineOf(B)[m] = LineOf(A)[m]
  <2> DEFINE h == LineOf(A)[m]
  <2>1. Cardinality(A) \in Nat /\ n \in 1..Cardinality(A) /\ LineOf(A)[n][1] = "plugin"
    BY <1>1 DEF InLine, A
  <2>2. m \in 1..Cardinality(A) /\ (m = n \/ m < n)
    BY <2>1
  <2>3. h \in A /\ Place(A, h) = m /\ (m = n \/ X!before(h, LineOf(A)[n]))
    BY <1>1, <2>1, <2>2 DEF InLine
  <2> HIDE DEF h
  <2>4. h[1] = "plugin"
    BY <1>4, <2>1, <2>3 DEF h
  <2>5. h \in R /\ h \in B
    BY <1>2, <2>3, <2>4
  <2>6. Place(B, h) = m
    BY <1>5, <2>3, <2>5
  <2> QED
    BY <1>1, <2>5, <2>6 DEF InLine, h
<1>7. Cardinality(B) \in Nat /\ n \in 1..n
  BY <1>1 DEF InLine
<1> QED
  BY <1>6, <1>7 DEF A, B

\* The last k entries are the first k hooks of the line, and there are no others of the phase.
Walking(p, phase, line, k) ==
  /\ k \in 0..Len(p)
  /\ \A i \in 1..(Len(p) - k) : p[i][1] # phase
  /\ \A i \in 1..k : p[Len(p) - k + i] = <<phase, line[i]>>

\* Every hook has answered, once and in order.
Complete(p, phase, A) ==
  LET mine == {i \in DOMAIN p : p[i][1] = phase}
  IN  /\ {p[i][2] : i \in mine} = A
      /\ \A i, j \in mine : i # j => p[i][2] # p[j][2]
      /\ \A i, j \in mine : i < j => X!before(p[i][2], p[j][2])

LEMMA SeqDomain == ASSUME NEW p, IsSeq(p) PROVE Len(p) \in Nat /\ DOMAIN p = 1..Len(p)
BY DEF IsSeq

LEMMA WalksOn ==
  ASSUME NEW p, IsSeq(p), NEW phase, NEW line, NEW k, Walking(p, phase, line, k)
  PROVE  LET more == Append(p, <<phase, line[k + 1]>>)
         IN  IsSeq(more) /\ Walking(more, phase, line, k + 1)
<1> DEFINE e == <<phase, line[k + 1]>>
           more == Append(p, e)
<1>1. Len(p) \in Nat /\ DOMAIN p = 1..Len(p)
  BY SeqDomain
<1>2. /\ IsSeq(more) /\ DOMAIN more = DOMAIN p \cup {Len(p) + 1}
      /\ more[Len(p) + 1] = e /\ \A i \in DOMAIN p : more[i] = p[i]
  BY AppendSeq
<1> HIDE DEF more, e
<1>3. Len(more) = Len(p) + 1
  <2>1. Len(more) \in Nat /\ DOMAIN more = 1..Len(more)
    BY <1>2, SeqDomain
  <2>2. \A i \in Nat : i \in 1..Len(more) <=> i \in 1..(Len(p) + 1)
    BY <1>1, <1>2, <2>1
  <2>3. Len(p) + 1 \in 1..Len(more)
    BY <1>1, <2>2
  <2>4. Len(more) \in 1..(Len(p) + 1)
    BY <2>1, <2>2, <2>3
  <2>5. \A a, b \in Nat : b + 1 \in 1..a /\ a \in 1..(b + 1) => a = b + 1
    OBVIOUS
  <2>6. Len(p) \in Nat /\ Len(more) \in Nat
    BY <1>1, <2>1
  <2> QED
    BY ONLY <2>3, <2>4, <2>5, <2>6
<1>4. k \in Nat /\ k <= Len(p)
  BY <1>1 DEF Walking
<1>5. \A i \in 1..(Len(more) - (k + 1)) : more[i][1] # phase
  BY <1>1, <1>2, <1>3, <1>4 DEF Walking
<1>6. ASSUME NEW i \in 1..(k + 1)
      PROVE  more[Len(more) - (k + 1) + i] = <<phase, line[i]>>
  <2>1. CASE i = k + 1
    BY <1>1, <1>2, <1>3, <1>4, <2>1 DEF e
  <2>2. CASE i # k + 1
    <3>1. i \in 1..k /\ Len(more) - (k + 1) + i = Len(p) - k + i /\ Len(p) - k + i \in DOMAIN p
      BY <1>1, <1>3, <1>4, <2>2
    <3> QED
      BY <1>2, <3>1 DEF Walking
  <2> QED
    BY <2>1, <2>2
<1>7. k + 1 \in 0..Len(more)
  BY <1>1, <1>3, <1>4
<1> QED
  BY <1>2, <1>5, <1>6, <1>7 DEF Walking, more, e

LEMMA WalkedAll ==
  ASSUME NEW p, IsSeq(p), NEW phase, NEW A, InLine(A),
         Walking(p, phase, LineOf(A), Cardinality(A))
  PROVE  Complete(p, phase, A)
<1> DEFINE N == Cardinality(A)
           b == Len(p) - N
           mine == {i \in DOMAIN p : p[i][1] = phase}
           L == LineOf(A)
<1>1. Len(p) \in Nat /\ DOMAIN p = 1..Len(p) /\ N \in Nat /\ N <= Len(p) /\ b \in Nat
  BY SeqDomain DEF InLine, Walking
<1>2. \A i \in 1..b : p[i][1] # phase
  BY DEF Walking
<1>3. \A i \in 1..N : p[b + i] = <<phase, L[i]>>
  BY DEF Walking
<1>4. /\ \A n \in 1..N : L[n] \in A /\ Place(A, L[n]) = n
      /\ \A m, n \in 1..N : m < n => X!before(L[m], L[n])
      /\ \A h \in A : \E n \in 1..N : L[n] = h
  BY DEF InLine
<1> HIDE DEF N, L
<1>5. \A i \in mine : i - b \in 1..N /\ p[i][2] = L[i - b]
  <2> SUFFICES ASSUME NEW i \in mine PROVE i - b \in 1..N /\ p[i][2] = L[i - b]
    OBVIOUS
  <2>1. i \in Nat /\ i - b \in 1..N
    <3>1. i \in 1..Len(p) /\ i \notin 1..b
      BY <1>1, <1>2
    <3>2. Len(p) \in Nat /\ N \in Nat /\ b \in Nat /\ b = Len(p) - N
      BY <1>1
    <3>3. i \in Nat /\ i <= Len(p) /\ b < i
      BY ONLY <3>1, <3>2
    <3> HIDE DEF b
    <3>4. i - b \in Int /\ 1 <= i - b /\ i - b <= N
      BY ONLY <3>2, <3>3
    <3> QED
      BY <3>2, <3>3, <3>4
  <2>2. b + (i - b) = i
    <3>1. b \in Int /\ i \in Int
      BY <1>1, <2>1
    <3> QED
      BY ONLY <3>1
  <2>3. \A n \in 1..N : b + n = i => p[i] = <<phase, L[n]>>
    BY <1>3
  <2>4. p[i] = <<phase, L[i - b]>>
    BY <2>1, <2>2, <2>3
  <2> QED
    BY <2>1, <2>4
<1>6. \A n \in 1..N : b + n \in mine /\ (b + n) - b = n
  <2> SUFFICES ASSUME NEW n \in 1..N PROVE b + n \in mine /\ (b + n) - b = n
    OBVIOUS
  <2>1. b + n \in DOMAIN p /\ (b + n) - b = n
    BY <1>1
  <2> QED
    BY <1>3, <2>1
<1>7. \A i, j \in mine : i \in Int /\ j \in Int /\ (i # j => i - b # j - b) /\ (i < j => i - b < j - b)
  BY <1>1
<1> HIDE DEF mine, b
<1>8. {p[i][2] : i \in mine} = A
  BY <1>4, <1>5, <1>6
<1>9. \A i, j \in mine : i # j => p[i][2] # p[j][2]
  BY <1>4, <1>5, <1>7
<1>10. \A i, j \in mine : i < j => X!before(p[i][2], p[j][2])
  BY <1>4, <1>5, <1>7
<1> QED
  BY <1>8, <1>9, <1>10 DEF Complete, mine

LEMMA StaysComplete ==
  ASSUME NEW p, IsSeq(p), NEW phase, NEW A, Complete(p, phase, A), NEW e, e[1] # phase
  PROVE  Complete(Append(p, e), phase, A)
<1> DEFINE more == Append(p, e)
<1>1. /\ DOMAIN more = DOMAIN p \cup {Len(p) + 1} /\ Len(p) + 1 \notin DOMAIN p
      /\ more[Len(p) + 1] = e /\ \A i \in DOMAIN p : more[i] = p[i]
  BY AppendSeq
<1> HIDE DEF more
<1>2. {i \in DOMAIN more : more[i][1] = phase} = {i \in DOMAIN p : p[i][1] = phase}
  BY <1>1
<1>3. \A i \in {i \in DOMAIN p : p[i][1] = phase} : more[i] = p[i]
  BY <1>1
<1> DEFINE mine == {i \in DOMAIN p : p[i][1] = phase}
<1>4. /\ {p[i][2] : i \in mine} = A
      /\ \A i, j \in mine : i # j => p[i][2] # p[j][2]
      /\ \A i, j \in mine : i < j => X!before(p[i][2], p[j][2])
  BY DEF Complete
<1> HIDE DEF mine
<1>5. {more[i][2] : i \in mine} = A
  BY <1>3, <1>4 DEF mine
<1>6. \A i, j \in mine : i # j => more[i][2] # more[j][2]
  BY <1>3, <1>4 DEF mine
<1>7. \A i, j \in mine : i < j => X!before(more[i][2], more[j][2])
  BY <1>3, <1>4 DEF mine
<1> QED
  BY <1>2, <1>5, <1>6, <1>7 DEF Complete, mine, more

Phases == {"before_call", "before_chat", "after_call"}
Asking == {"hooks", "load", "install", "ready", "instantiate", "guest", "release"}
DueTo(j, phase) == DueFor(phase, j.snap, j.org)
Behind(j, phase) == Complete(j.passed, phase, DueTo(j, phase))

\* Where a call is, and what its hooks have said so far.
Located(j) ==
  /\ j.phase \in Phases /\ j.at \in Nat \ {0} /\ j.snap \in Snaps
  /\ IsSeq(j.passed) /\ j.charged \in BOOLEAN
  /\ j.charged => j.phase # "before_call"
  /\ j.step = "quota" => j.phase = "before_call"
  /\ j.step = "upstream" => j.phase = "before_chat"
  /\ j.step \in Asking => j.at <= Cardinality(DueTo(j, j.phase)) + 1
  /\ j.step \in Asking \ {"hooks"} => j.at <= Cardinality(DueTo(j, j.phase))

Answers(j) ==
  /\ j.phase # "after_call" /\ j.step \in Asking =>
       Walking(j.passed, j.phase, LineOf(DueTo(j, j.phase)), j.at - 1)
  /\ j.phase # "before_call" \/ j.step = "quota" => Behind(j, "before_call")
  /\ j.phase = "after_call" \/ j.step = "upstream" => Behind(j, "before_chat")
  /\ j.phase = "before_call" => \A i \in DOMAIN j.passed : j.passed[i][1] # "before_chat"

Gated(j) == Located(j) /\ Answers(j)

GateInv == \A c \in Calls : call[c].step \in {"idle", "done"} \/ Gated(call[c])

\* What a hook's place depends on.
Same(j, new) ==
  /\ new.phase = j.phase /\ new.org = j.org /\ new.snap = j.snap /\ new.charged = j.charged
  /\ new.at = j.at /\ new.passed = j.passed

LEMMA GateAsks ==
  ASSUME NEW j, Gated(j), j.step \in Asking, j.at <= Cardinality(DueTo(j, j.phase)),
         NEW new, Same(j, new), new.step \in Asking
  PROVE  Gated(new)
<1>1. DueTo(new, new.phase) = DueTo(j, j.phase) /\ new.step \notin {"quota", "upstream"}
  BY DEF DueTo, Same, Asking
<1>2. \A phase : Behind(j, phase) => Behind(new, phase)
  BY DEF Behind, DueTo, Same
<1>3. Cardinality(DueTo(j, j.phase)) \in Nat
  BY DueInLine DEF Gated, Located, DueTo, InLine
<1>4. Located(new)
  BY <1>1, <1>3 DEF Same, Gated, Located
<1>5. Answers(new)
  BY <1>1, <1>2 DEF Same, Gated, Answers
<1> QED
  BY <1>4, <1>5 DEF Gated

\* A hook lets a call go on: only a plugin at the gate may have named another organization.
LEMMA GateAnswered ==
  ASSUME NEW j, Gated(j), j.step \in Asking, j.at <= Cardinality(DueTo(j, j.phase)), NEW new,
         new.phase = j.phase, new.snap = j.snap, new.charged = j.charged, new.step = "hooks",
         new.at = j.at + 1,
         \/ new.org = j.org
         \/ j.phase = "before_call" /\ LineOf(DueTo(j, j.phase))[j.at][1] = "plugin",
         new.passed = IF j.phase = "after_call" THEN j.passed
                      ELSE Append(j.passed, <<j.phase, LineOf(DueTo(j, j.phase))[j.at]>>)
  PROVE  Gated(new)
<1> DEFINE A == DueTo(j, j.phase)
           B == DueTo(new, new.phase)
           e == <<j.phase, LineOf(A)[j.at]>>
<1>1. InLine(A) /\ InLine(B) /\ j.at \in 1..Cardinality(A) /\ Cardinality(A) \in Nat /\ Cardinality(B) \in Nat
  BY DueInLine DEF Gated, Located, DueTo, InLine
<1>2. j.at <= Cardinality(B) /\ \A m \in 1..j.at : LineOf(B)[m] = LineOf(A)[m]
  <2>1. CASE new.org = j.org
    BY <1>1, <2>1 DEF DueTo
  <2>2. CASE LineOf(DueTo(j, j.phase))[j.at][1] = "plugin"
    BY <1>1, <2>2, PluginsFirst DEF DueTo, Gated, Located
  <2> QED
    BY <2>1, <2>2
<1>3. new.step \in Asking /\ new.step \notin {"quota", "upstream"}
  BY DEF Asking
<1>4. IsSeq(j.passed) /\ IsSeq(new.passed)
  <2>1. IsSeq(j.passed)
    BY DEF Gated, Located
  <2> QED
    BY <2>1, AppendSeq
<1>5. Located(new)
  <2>1. j.at \in Nat \ {0} /\ j.at + 1 \in Nat \ {0}
    BY DEF Gated, Located
  <2>2. new.at <= Cardinality(B) + 1
    BY <1>1, <1>2, <2>1
  <2> HIDE DEF B, A
  <2>3. Cardinality(DueTo(new, new.phase)) = Cardinality(B)
    BY DEF B
  <2> QED
    BY <1>3, <1>4, <2>1, <2>2, <2>3 DEF Gated, Located
<1>6. CASE j.phase = "after_call"
  <2>1. new.passed = j.passed /\ new.org = j.org
    BY <1>6
  <2>2. \A phase : Behind(j, phase) => Behind(new, phase)
    BY <2>1 DEF Behind, DueTo
  <2>3. Answers(new)
    BY <1>3, <1>6, <2>2 DEF Gated, Answers
  <2> QED
    BY <1>5, <2>3 DEF Gated
<1>7. CASE j.phase # "after_call"
  <2>1. new.passed = Append(j.passed, e)
    BY <1>7
  <2>2. Walking(j.passed, j.phase, LineOf(A), j.at - 1)
    BY <1>7 DEF Gated, Answers
  <2>3. Walking(new.passed, j.phase, LineOf(A), j.at)
    <3>1. (j.at - 1) + 1 = j.at
      BY <1>1
    <3> HIDE DEF A
    <3> QED
      BY <1>4, <2>1, <2>2, <3>1, WalksOn DEF e
  <2>4. Walking(new.passed, j.phase, LineOf(B), j.at)
    BY <1>2, <2>3 DEF Walking
  <2>5. j.phase # "before_call" => Behind(new, "before_call")
    <3> SUFFICES ASSUME j.phase # "before_call" PROVE Behind(new, "before_call")
      OBVIOUS
    <3>1. Behind(j, "before_call") /\ new.org = j.org /\ e[1] # "before_call"
      BY DEF Gated, Answers
    <3> HIDE DEF e
    <3> QED
      BY <1>4, <2>1, <3>1, StaysComplete DEF Behind, DueTo
  <2>6. j.phase = "before_call" => \A i \in DOMAIN new.passed : new.passed[i][1] # "before_chat"
    <3>1. /\ DOMAIN new.passed = DOMAIN j.passed \cup {Len(j.passed) + 1}
          /\ new.passed[Len(j.passed) + 1] = e /\ \A i \in DOMAIN j.passed : new.passed[i] = j.passed[i]
      BY <1>4, <2>1, AppendSeq
    <3>2. e[1] = j.phase
      OBVIOUS
    <3> HIDE DEF e
    <3> QED
      BY <3>1, <3>2 DEF Gated, Answers
  <2>7. new.at - 1 = j.at /\ B = DueTo(new, new.phase)
    BY <1>1
  <2> HIDE DEF A, B, e
  <2>8. Answers(new)
    BY <1>3, <1>7, <2>4, <2>5, <2>6, <2>7 DEF Answers
  <2> QED
    BY <1>5, <2>8 DEF Gated
<1> QED
  BY <1>6, <1>7

\* The last hook of a phase has answered, or a call goes on to its next phase.
LEMMA GatePhases ==
  ASSUME NEW j, Gated(j), NEW new, new.snap = j.snap, new.org = j.org, new.passed = j.passed,
         new.at \in Nat \ {0},
         \/ /\ Same(j, new) /\ j.step = "hooks" /\ j.at > Cardinality(DueTo(j, j.phase))
            /\ \/ j.phase = "before_call" /\ new.step = "quota"
               \/ j.phase = "before_chat" /\ new.step = "upstream"
         \/ /\ j.step = "quota" /\ new.step = "hooks" /\ new.phase = "before_chat" /\ new.at = 1
            /\ new.charged = TRUE
         \/ /\ j.step = "upstream" /\ new.step = "hooks" /\ new.phase = "after_call" /\ new.at = 1
            /\ new.charged = j.charged
  PROVE  Gated(new)
<1> DEFINE A == DueTo(j, j.phase)
<1>1. /\ InLine(A) /\ Cardinality(A) \in Nat
      /\ j.snap \in Snaps /\ IsSeq(j.passed) /\ j.at \in Nat \ {0}
  BY DueInLine DEF Gated, Located, DueTo, InLine
<1>2. \A phase : Behind(j, phase) => Behind(new, phase)
  BY DEF Behind, DueTo
<1>3. \A phase : Cardinality(DueTo(new, phase)) \in Nat
  BY <1>1, DueInLine DEF DueTo, InLine
<1>4. CASE /\ Same(j, new) /\ j.step = "hooks" /\ j.at > Cardinality(A)
           /\ \/ j.phase = "before_call" /\ new.step = "quota"
              \/ j.phase = "before_chat" /\ new.step = "upstream"
  <2>1. j.at - 1 = Cardinality(A)
    <3>1. j.at <= Cardinality(A) + 1 /\ j.at > Cardinality(A)
      BY <1>4 DEF Gated, Located, Asking
    <3> HIDE DEF A
    <3> QED
      BY <1>1, <3>1
  <2>2. Walking(j.passed, j.phase, LineOf(A), Cardinality(A))
    BY <1>4, <2>1 DEF Gated, Answers, Asking
  <2>3. Behind(j, j.phase)
    BY <1>1, <2>2, WalkedAll DEF Behind
  <2>4. new.step \notin Asking /\ j.step \in Asking /\ new.phase = j.phase
    BY <1>4 DEF Asking, Same
  <2>5. Located(new)
    BY <1>4, <2>4 DEF Gated, Located, Same
  <2>6. Answers(new)
    BY <1>2, <1>4, <2>3, <2>4 DEF Gated, Answers, Same
  <2> QED
    BY <2>5, <2>6 DEF Gated
<1>5. CASE /\ j.step = "quota" /\ new.step = "hooks" /\ new.phase = "before_chat" /\ new.at = 1
           /\ new.charged = TRUE
  <2>1. j.phase = "before_call" /\ Behind(j, "before_call")
    BY <1>5 DEF Gated, Located, Answers
  <2>2. Located(new)
    <3>1. new.charged \in BOOLEAN /\ new.phase # "before_call"
      BY <1>5
    <3>2. new.at <= Cardinality(DueTo(new, new.phase)) + 1
      BY <1>3, <1>5
    <3> QED
      BY <1>1, <1>5, <3>1, <3>2 DEF Located, Phases
  <2>3. Walking(new.passed, "before_chat", LineOf(DueTo(new, "before_chat")), 0)
    <3>1. Len(j.passed) \in Nat /\ DOMAIN j.passed = 1..Len(j.passed)
      BY <1>1, SeqDomain
    <3>2. \A i \in 1..Len(j.passed) : j.passed[i][1] # "before_chat"
      BY <2>1, <3>1 DEF Gated, Answers
    <3> QED
      BY <3>1, <3>2 DEF Walking
  <2>4. new.at - 1 = 0
    BY <1>5
  <2>5. Answers(new)
    BY <1>2, <1>5, <2>1, <2>3, <2>4 DEF Answers
  <2> QED
    BY <2>2, <2>5 DEF Gated
<1>6. CASE /\ j.step = "upstream" /\ new.step = "hooks" /\ new.phase = "after_call" /\ new.at = 1
           /\ new.charged = j.charged
  <2>1. j.phase = "before_chat" /\ Behind(j, "before_call") /\ Behind(j, "before_chat")
    BY <1>6 DEF Gated, Located, Answers
  <2>2. Located(new)
    BY <1>1, <1>3, <1>6 DEF Gated, Located, Phases
  <2>3. Answers(new)
    BY <1>2, <1>6, <2>1 DEF Answers
  <2> QED
    BY <2>2, <2>3 DEF Gated
<1> QED
  BY <1>4, <1>5, <1>6

LEMMA LineOfCall ==
  ASSUME NEW c \in Calls, Gated(call[c])
  PROVE  LET A == DueTo(call[c], call[c].phase)
         IN  /\ X!hooks(c) = LineOf(A) /\ X!current(c) = LineOf(A)[call[c].at]
             /\ Len(X!hooks(c)) = Cardinality(A) /\ Cardinality(A) \in Nat
<1> DEFINE A == DueTo(call[c], call[c].phase)
<1>1. X!hooks(c) = LineOf(A)
  BY TheLine DEF X!hooks, DueTo, DueFor
<1>2. Cardinality(A) \in Nat
  BY DueInLine DEF Gated, Located, DueTo, InLine
<1> HIDE DEF A
<1>3. Len(LineOf(A)) = Cardinality(A)
  <2> DEFINE N == Cardinality(A)
             at(n) == CHOOSE h \in A : Cardinality({g \in A : X!before(g, h)}) = n - 1
  <2>1. LineOf(A) = [n \in 1..N |-> at(n)]
    BY DEF LineOf
  <2> HIDE DEF at, N
  <2>2. N \in Nat
    BY <1>2 DEF N
  <2>3. Len([n \in 1..N |-> at(n)]) = N
    BY <2>2
  <2> QED
    BY <2>1, <2>3 DEF N
<1> QED
  BY <1>1, <1>2, <1>3 DEF X!current, A

LEMMA GateMoves ==
  ASSUME HookInv, GateInv, NEW c \in Calls, NEW new, call' = [call EXCEPT ![c] = new],
         new.step \in {"idle", "done"} \/ Gated(new)
  PROVE  GateInv'
<1>1. call'[c] = new /\ \A d \in Calls \ {c} : call'[d] = call[d]
  BY DEF HookInv, HookTypes
<1>2. \A d \in Calls : call'[d].step \in {"idle", "done"} \/ Gated(call'[d])
  BY <1>1 DEF GateInv
<1> QED
  BY <1>2 DEF GateInv

LEMMA AnsweredGated ==
  ASSUME HookInv, GateInv, NEW c \in Calls, call[c].step \in Asking,
         call[c].at <= Len(X!hooks(c)), NEW answer, NEW o,
         o = call[c].org \/ (call[c].phase = "before_call" /\ X!current(c)[1] = "plugin"),
         call' = [call EXCEPT ![c] = X!Answered(c, answer, o)]
  PROVE  GateInv'
<1> DEFINE j == call[c]
           onward == [call[c] EXCEPT !.step = "hooks", !.at = @ + 1, !.org = o, !.module = 0,
                                     !.inst = 0, !.answer = "none"]
           more == [onward EXCEPT !.passed = Append(@, <<call[c].phase, X!current(c)>>)]
<1>1. Gated(j) /\ DOMAIN j = CallFields
  BY DEF GateInv, Asking, HookInv, HookTypes
<1>2. /\ X!current(c) = LineOf(DueTo(j, j.phase))[j.at]
      /\ j.at <= Cardinality(DueTo(j, j.phase))
  BY <1>1, LineOfCall
<1>3. X!Answered(c, answer, o) =
        CASE j.phase = "after_call" -> onward
          [] j.phase # "after_call" /\ answer = "allow" -> more
          [] OTHER -> X!Done(answer)
  BY DEF X!Answered
<1>4. /\ DOMAIN onward = CallFields /\ onward.phase = j.phase /\ onward.snap = j.snap
      /\ onward.charged = j.charged /\ onward.step = "hooks" /\ onward.at = j.at + 1
      /\ onward.org = o /\ onward.passed = j.passed
  BY <1>1 DEF CallFields
<1> DEFINE e == <<j.phase, X!current(c)>>
<1>5. more = [onward EXCEPT !.passed = Append(@, e)]
  OBVIOUS
<1> HIDE DEF onward, e
<1>6. /\ more.phase = j.phase /\ more.snap = j.snap
      /\ more.charged = j.charged /\ more.step = "hooks" /\ more.at = j.at + 1
      /\ more.org = o /\ more.passed = Append(j.passed, e)
  BY <1>4, <1>5 DEF CallFields
<1> HIDE DEF more, j
<1>7. CASE j.phase = "after_call"
  <2>1. o = j.org
    BY <1>7 DEF j
  <2>2. Gated(onward)
    BY <1>1, <1>2, <1>4, <1>7, <2>1, GateAnswered DEF j
  <2> QED
    BY <1>3, <1>7, <2>2, GateMoves
<1>8. CASE j.phase # "after_call" /\ answer = "allow"
  <2>1. e = <<j.phase, LineOf(DueTo(j, j.phase))[j.at]>>
    BY <1>2 DEF e
  <2>2. o = j.org \/ (j.phase = "before_call" /\ LineOf(DueTo(j, j.phase))[j.at][1] = "plugin")
    BY <1>2 DEF j
  <2>3. j.step \in Asking
    BY DEF j
  <2>4. Gated(more)
    BY <1>1, <1>2, <1>6, <1>8, <2>1, <2>2, <2>3, GateAnswered
  <2> QED
    BY <1>3, <1>8, <2>4, GateMoves
<1>9. CASE j.phase # "after_call" /\ answer # "allow"
  <2>1. X!Answered(c, answer, o) = X!Done(answer) /\ X!Done(answer).step = "done"
    BY <1>3, <1>9 DEF X!Done
  <2> QED
    BY <2>1, GateMoves
<1> QED
  BY <1>7, <1>8, <1>9

\* A call that goes through the module of its WASM hook.
LEMMA GateWalks ==
  ASSUME HookInv, GateInv, NEW c \in Calls, call[c].step \in Asking,
         call[c].at <= Len(X!hooks(c)), NEW new, Same(call[c], new), new.step \in Asking,
         call' = [call EXCEPT ![c] = new]
  PROVE  GateInv'
<1>1. Gated(call[c])
  BY DEF GateInv, Asking
<1>2. call[c].at <= Cardinality(DueTo(call[c], call[c].phase))
  BY <1>1, LineOfCall
<1>3. Gated(new)
  BY <1>1, <1>2, GateAsks
<1> QED
  BY <1>3, GateMoves

LEMMA GateArrives == ASSUME HookInv, GateInv, NEW c \in Calls, X!Arrive(c) PROVE GateInv'
<1>1. PICK snap \in Snaps :
        call' = [call EXCEPT ![c] =
          [step |-> "hooks", phase |-> "before_call", at |-> 1, org |-> OrgOf[c], snap |-> snap,
           passed |-> << >>, charged |-> FALSE, module |-> 0, inst |-> 0, answer |-> "none"]]
  BY DEF X!Arrive
<1> DEFINE new == [step |-> "hooks", phase |-> "before_call", at |-> 1, org |-> OrgOf[c],
                   snap |-> snap, passed |-> << >>, charged |-> FALSE, module |-> 0,
                   inst |-> 0, answer |-> "none"]
<1>2. /\ new.step = "hooks" /\ new.phase = "before_call" /\ new.at = 1 /\ new.org = OrgOf[c]
      /\ new.snap = snap /\ new.passed = << >> /\ new.charged = FALSE
  OBVIOUS
<1>3. call' = [call EXCEPT ![c] = new]
  BY <1>1
<1> HIDE DEF new
<1>4. Cardinality(DueTo(new, new.phase)) \in Nat
  BY <1>2, DueInLine DEF DueTo, InLine
<1>5. << >> \in Seq({}) /\ Len(<< >>) = 0 /\ DOMAIN << >> = {}
  OBVIOUS
<1>6. Located(new)
  <2>1. IsSeq(new.passed) /\ new.charged \in BOOLEAN /\ ~new.charged
    BY <1>2, <1>5 DEF IsSeq
  <2>2. 1 <= Cardinality(DueTo(new, new.phase)) + 1
    BY <1>4
  <2> QED
    BY <1>2, <2>1, <2>2 DEF Located, Phases
<1>7. Walking(new.passed, new.phase, LineOf(DueTo(new, new.phase)), new.at - 1)
  BY <1>2, <1>5 DEF Walking
<1>8. Answers(new)
  BY <1>2, <1>5, <1>7 DEF Answers
<1> QED
  BY <1>3, <1>6, <1>8, GateMoves DEF Gated

LEMMA GatePlugins == ASSUME HookInv, GateInv, NEW c \in Calls, X!AskPlugin(c) PROVE GateInv'
<1>1. /\ call[c].step = "hooks" /\ call[c].at <= Len(X!hooks(c)) /\ X!current(c)[1] = "plugin"
  BY DEF X!AskPlugin, X!AtHook, X!At
<1>2. \E answer, o :
        /\ o = call[c].org \/ (call[c].phase = "before_call" /\ X!current(c)[1] = "plugin")
        /\ call' = [call EXCEPT ![c] = X!Answered(c, answer, o)]
  BY <1>1 DEF X!AskPlugin, X!Proceed
<1>3. call[c].step \in Asking
  BY <1>1 DEF Asking
<1> QED
  BY <1>1, <1>2, <1>3, AnsweredGated

\* Past its guard a call stays at its hook until it answers.
LEMMA AtItsHook ==
  ASSUME HookInv, GateInv, NEW c \in Calls, call[c].step \in Asking \ {"hooks"}
  PROVE  call[c].at <= Len(X!hooks(c))
<1>1. Gated(call[c])
  BY DEF GateInv, Asking
<1> QED
  BY <1>1, LineOfCall DEF Gated, Located

LEMMA GateFails ==
  ASSUME HookInv, GateInv, NEW c \in Calls, call[c].step \in Asking \ {"hooks"},
         NEW answer, X!Proceed(c, answer)
  PROVE  GateInv'
<1>1. call' = [call EXCEPT ![c] = X!Answered(c, answer, call[c].org)]
  BY DEF X!Proceed
<1> QED
  BY <1>1, AtItsHook, AnsweredGated

\* The steps of a WASM hook's call between its module's lookup and its answer.
LEMMA GateModules ==
  ASSUME HookInv, GateInv, NEW c \in Calls,
         \/ X!Lookup(c) \/ X!Compile(c) \/ X!Install(c) \/ X!acquire(c)
         \/ X!newInst(c) \/ X!CallGuest(c)
  PROVE  GateInv'
<1> DEFINE j == call[c]
<1>1. /\ j.step \in Asking => DOMAIN j = CallFields
      /\ DOMAIN call = Calls
  BY DEF HookInv, HookTypes, Asking
<1>2. j.step \in Asking \ {"hooks"} => j.step \in Asking
  OBVIOUS
<1>3. /\ "load" \in Asking /\ "install" \in Asking /\ "ready" \in Asking
      /\ "instantiate" \in Asking /\ "guest" \in Asking /\ "release" \in Asking
  BY DEF Asking
<1>4. ASSUME j.step \in Asking \ {"hooks"}
      PROVE  j.step \in Asking /\ j.at <= Len(X!hooks(c))
  BY <1>4, AtItsHook
<1>5. ASSUME j.step \in Asking, j.at <= Len(X!hooks(c)), NEW new, new.step \in Asking,
             Same(j, new), call' = [call EXCEPT ![c] = new]
      PROVE  GateInv'
  BY <1>5, GateWalks
<1>6. CASE X!Lookup(c)
  <2>1. j.step \in Asking /\ j.at <= Len(X!hooks(c))
    BY <1>6 DEF X!Lookup, X!AtHook, X!At, Asking
  <2> DEFINE k == X!cacheKey(X!current(c)[2])
  <2>2. call' = [call EXCEPT ![c] = IF k \in DOMAIN cache
                   THEN [j EXCEPT !.step = "ready", !.module = cache[k]]
                   ELSE [j EXCEPT !.step = "load"]]
    BY <1>1, <1>6 DEF X!Lookup
  <2> HIDE DEF k
  <2>3. CASE k \in DOMAIN cache
    <3> DEFINE new == [j EXCEPT !.step = "ready", !.module = cache[k]]
    <3>1. call' = [call EXCEPT ![c] = new]
      BY <2>2, <2>3
    <3>2. new.step = "ready" /\ Same(j, new)
      BY <1>1, <1>2, <2>1 DEF CallFields, Same
    <3> HIDE DEF new
    <3> QED
      BY <1>3, <1>5, <2>1, <3>1, <3>2
  <2>4. CASE k \notin DOMAIN cache
    <3> DEFINE new == [j EXCEPT !.step = "load"]
    <3>1. call' = [call EXCEPT ![c] = new]
      BY <2>2, <2>4
    <3>2. new.step = "load" /\ Same(j, new)
      BY <1>1, <1>2, <2>1 DEF CallFields, Same
    <3> HIDE DEF new
    <3> QED
      BY <1>3, <1>5, <2>1, <3>1, <3>2
  <2> QED
    BY <2>3, <2>4
<1>7. CASE X!Compile(c)
  <2>1. j.step \in Asking \ {"hooks"}
    BY <1>7 DEF X!Compile, X!At, Asking
  <2>2. CASE X!Proceed(c, "error")
    BY <2>1, <2>2, GateFails
  <2>3. CASE ~X!Proceed(c, "error")
    <3> DEFINE m == Len(modules) + 1
    <3>1. call' = [call EXCEPT ![c].step = "install", ![c].module = m]
      BY <1>7, <2>3 DEF X!Compile
    <3> HIDE DEF m
    <3> DEFINE new == [j EXCEPT !.step = "install", !.module = m]
    <3>2. call' = [call EXCEPT ![c] = new]
      BY <1>1, <3>1
    <3>3. new.step = "install" /\ Same(j, new)
      BY <1>1, <1>2, <2>1 DEF CallFields, Same
    <3> HIDE DEF new
    <3> QED
      BY <1>3, <1>4, <1>5, <2>1, <3>2, <3>3
  <2> QED
    BY <2>2, <2>3
<1>8. CASE X!Install(c)
  <2>1. j.step \in Asking \ {"hooks"}
    BY <1>8 DEF X!Install, X!At, Asking
  <2>2. PICK m : \/ call' = [call EXCEPT ![c].step = "ready", ![c].module = m]
                 \/ call' = [call EXCEPT ![c].step = "ready"]
    BY <1>8 DEF X!Install
  <2> DEFINE new1 == [j EXCEPT !.step = "ready", !.module = m]
             new2 == [j EXCEPT !.step = "ready"]
  <2>3. call' = [call EXCEPT ![c] = new1] \/ call' = [call EXCEPT ![c] = new2]
    BY <1>1, <2>2
  <2>4. new1.step = "ready" /\ Same(j, new1) /\ new2.step = "ready" /\ Same(j, new2)
    BY <1>1, <1>2, <2>1 DEF CallFields, Same
  <2> HIDE DEF new1, new2
  <2> QED
    BY <1>3, <1>4, <1>5, <2>1, <2>3, <2>4
<1>9. CASE X!acquire(c)
  <2>1. j.step \in Asking \ {"hooks"}
    BY <1>9 DEF X!acquire, X!At, Asking
  <2>2. CASE X!Proceed(c, "error")
    BY <2>1, <2>2, GateFails
  <2>3. CASE ~X!Proceed(c, "error")
    <3>1. PICK n : \/ call' = [call EXCEPT ![c].step = "guest", ![c].inst = n]
                   \/ call' = [call EXCEPT ![c].step = "instantiate"]
      BY <1>9, <2>3 DEF X!acquire
    <3> DEFINE new1 == [j EXCEPT !.step = "guest", !.inst = n]
               new2 == [j EXCEPT !.step = "instantiate"]
    <3>2. call' = [call EXCEPT ![c] = new1] \/ call' = [call EXCEPT ![c] = new2]
      BY <1>1, <3>1
    <3>3. new1.step = "guest" /\ Same(j, new1) /\ new2.step = "instantiate" /\ Same(j, new2)
      BY <1>1, <1>2, <2>1 DEF CallFields, Same
    <3> HIDE DEF new1, new2
    <3> QED
      BY <1>3, <1>4, <1>5, <2>1, <3>2, <3>3
  <2> QED
    BY <2>2, <2>3
<1>10. CASE X!newInst(c)
  <2>1. j.step \in Asking \ {"hooks"}
    BY <1>10 DEF X!newInst, X!At, Asking
  <2>2. CASE X!Proceed(c, "error")
    BY <2>1, <2>2, GateFails
  <2>3. CASE call' = [call EXCEPT ![c] = X!Done("panic")]
    <3>1. X!Done("panic").step = "done"
      BY DEF X!Done
    <3> QED
      BY <2>3, <3>1, GateMoves
  <2>4. CASE call' = [call EXCEPT ![c].step = "guest", ![c].inst = Len(insts) + 1]
    <3> DEFINE n == Len(insts) + 1
    <3> DEFINE new == [j EXCEPT !.step = "guest", !.inst = n]
    <3>1. call' = [call EXCEPT ![c] = new]
      BY <1>1, <2>4
    <3> HIDE DEF n
    <3>2. new.step = "guest" /\ Same(j, new)
      BY <1>1, <1>2, <2>1 DEF CallFields, Same
    <3> HIDE DEF new
    <3> QED
      BY <1>3, <1>4, <1>5, <2>1, <3>1, <3>2
  <2> QED
    BY <1>10, <2>2, <2>3, <2>4 DEF X!newInst
<1>11. CASE X!CallGuest(c)
  <2>1. j.step \in Asking \ {"hooks"}
    BY <1>11 DEF X!CallGuest, X!At, Asking
  <2>2. PICK a : call' = [call EXCEPT ![c].step = "release", ![c].answer = a]
    BY <1>11 DEF X!CallGuest
  <2> DEFINE new == [j EXCEPT !.step = "release", !.answer = a]
  <2>3. call' = [call EXCEPT ![c] = new]
    BY <1>1, <2>2
  <2>4. new.step = "release" /\ Same(j, new)
    BY <1>1, <1>2, <2>1 DEF CallFields, Same
  <2> HIDE DEF new
  <2> QED
    BY <1>3, <1>4, <1>5, <2>1, <2>3, <2>4
<1> QED
  BY <1>6, <1>7, <1>8, <1>9, <1>10, <1>11

\* The end of a phase, and the way to the next.
LEMMA GateGoesOn ==
  ASSUME HookInv, GateInv, NEW c \in Calls, X!PhaseEnds(c) \/ X!CheckQuota(c) \/ X!Execute(c)
  PROVE  GateInv'
<1> DEFINE j == call[c]
<1>1. j.step \in {"hooks", "quota", "upstream"}
  BY DEF X!PhaseEnds, X!CheckQuota, X!Execute, X!At
<1>2. Gated(j) /\ DOMAIN j = CallFields /\ DOMAIN call = Calls
  BY <1>1 DEF GateInv, HookInv, HookTypes
<1>3. Len(X!hooks(c)) = Cardinality(DueTo(j, j.phase))
  BY <1>2, LineOfCall
<1>4. \A s : LET new == [j EXCEPT !.step = s] IN new.step = s /\ Same(j, new)
  BY <1>2 DEF Same, CallFields
<1>5. \A said : X!Done(said).step = "done"
  BY DEF X!Done
<1>6. j.at \in Nat \ {0} /\ j.phase \in Phases
  BY <1>2 DEF Gated, Located
<1>7. \A phase : LET new == X!Enter(c, phase)
                 IN  /\ new.step = "hooks" /\ new.phase = phase /\ new.at = 1 /\ new.snap = j.snap
                     /\ new.org = j.org /\ new.passed = j.passed /\ new.charged = j.charged
                     /\ DOMAIN new = CallFields
  BY <1>2 DEF X!Enter, CallFields
<1>8. CASE X!PhaseEnds(c)
  <2>1. /\ j.step = "hooks" /\ j.at > Cardinality(DueTo(j, j.phase))
        /\ call' = [call EXCEPT ![c] = CASE j.phase = "before_call" -> [j EXCEPT !.step = "quota"]
                                         [] j.phase = "before_chat" -> [j EXCEPT !.step = "upstream"]
                                         [] OTHER -> X!Done("answered")]
    BY <1>2, <1>3, <1>8 DEF X!PhaseEnds, X!At
  <2> HIDE DEF j
  <2>2. CASE j.phase = "before_call"
    <3> DEFINE new == [j EXCEPT !.step = "quota"]
    <3>1. call' = [call EXCEPT ![c] = new]
      BY <2>1, <2>2
    <3>2. new.step = "quota" /\ Same(j, new)
      BY <1>4
    <3> HIDE DEF new
    <3>3. Gated(new)
      BY <1>2, <1>6, <2>1, <2>2, <3>2, GatePhases DEF Same
    <3> QED
      BY <3>1, <3>3, GateMoves
  <2>3. CASE j.phase = "before_chat"
    <3> DEFINE new == [j EXCEPT !.step = "upstream"]
    <3>1. call' = [call EXCEPT ![c] = new]
      BY <2>1, <2>3
    <3>2. new.step = "upstream" /\ Same(j, new)
      BY <1>4
    <3> HIDE DEF new
    <3>3. Gated(new)
      BY <1>2, <1>6, <2>1, <2>3, <3>2, GatePhases DEF Same
    <3> QED
      BY <3>1, <3>3, GateMoves
  <2>4. CASE j.phase \notin {"before_call", "before_chat"}
    BY <1>5, <2>1, <2>4, GateMoves
  <2> QED
    BY <2>2, <2>3, <2>4
<1>9. CASE X!CheckQuota(c)
  <2> DEFINE new == [X!Enter(c, "before_chat") EXCEPT !.charged = TRUE]
  <2>1. /\ j.step = "quota"
        /\ call' = [call EXCEPT ![c] = new] \/ call' = [call EXCEPT ![c] = X!Done("quota")]
    BY <1>9 DEF X!CheckQuota, X!At
  <2>2. /\ new.step = "hooks" /\ new.phase = "before_chat" /\ new.at = 1 /\ new.snap = j.snap
        /\ new.org = j.org /\ new.passed = j.passed /\ new.charged = TRUE
    BY <1>7 DEF CallFields
  <2> HIDE DEF new, j
  <2>3. new.at \in Nat \ {0}
    BY <2>2
  <2>4. Gated(new)
    BY <1>2, <2>1, <2>2, <2>3, GatePhases
  <2> QED
    BY <1>5, <2>1, <2>4, GateMoves
<1>10. CASE X!Execute(c)
  <2> DEFINE new == X!Enter(c, "after_call")
  <2>1. j.step = "upstream" /\ call' = [call EXCEPT ![c] = new]
    BY <1>10 DEF X!Execute, X!At
  <2>2. /\ new.step = "hooks" /\ new.phase = "after_call" /\ new.at = 1 /\ new.snap = j.snap
        /\ new.org = j.org /\ new.passed = j.passed /\ new.charged = j.charged
    BY <1>7
  <2> HIDE DEF new, j
  <2>3. new.at \in Nat \ {0}
    BY <2>2
  <2>4. Gated(new)
    BY <1>2, <2>1, <2>2, <2>3, GatePhases
  <2> QED
    BY <2>1, <2>4, GateMoves
<1> QED
  BY <1>8, <1>9, <1>10

LEMMA GateReleases == ASSUME HookInv, GateInv, NEW c \in Calls, X!release(c) PROVE GateInv'
<1>1. call[c].step \in Asking \ {"hooks"} /\ X!Proceed(c, call[c].answer)
  BY DEF X!release, X!At, Asking
<1> QED
  BY <1>1, GateFails

LEMMA GateStep == HookInv /\ GateInv /\ [X!Next]_(X!vars) => GateInv'
<1> SUFFICES ASSUME HookInv, GateInv, [X!Next]_(X!vars) PROVE GateInv'
  OBVIOUS
<1>1. CASE \/ X!startProcess \/ X!dialTarget \/ X!Handshake \/ X!Serve \/ X!Abort
           \/ X!Stop \/ X!Drained \/ X!Swept \/ X!Upload
           \/ \E i \in X!Plugins : X!Crash(i)
           \/ \E k \in DOMAIN cache : X!SweepModule(k)
           \/ UNCHANGED X!vars
  <2>1. call' = call
    BY <1>1 DEF X!startProcess, X!dialTarget, X!Handshake, X!Serve, X!Abort, X!Stop, X!Drained,
                X!Swept, X!Upload, X!Crash, X!SweepModule, X!vars
  <2>2. \A c \in Calls : call'[c].step \in {"idle", "done"} \/ Gated(call'[c])
    BY <2>1 DEF GateInv
  <2> QED
    BY <2>2 DEF GateInv
<1>2. CASE X!Exit
  <2>1. \A c \in Calls : call'[c].step = "idle"
    BY <1>2 DEF X!Exit, X!Idle
  <2> QED
    BY <2>1 DEF GateInv
<1>3. ASSUME NEW c \in Calls, X!Walk(c) PROVE GateInv'
  <2>1. CASE X!Arrive(c)
    BY <2>1, GateArrives
  <2>2. CASE X!AskPlugin(c)
    BY <2>2, GatePlugins
  <2>3. CASE \/ X!Lookup(c) \/ X!Compile(c) \/ X!Install(c) \/ X!acquire(c)
             \/ X!newInst(c) \/ X!CallGuest(c)
    BY <2>3, GateModules
  <2>4. CASE X!release(c)
    BY <2>4, GateReleases
  <2>5. CASE X!PhaseEnds(c) \/ X!CheckQuota(c) \/ X!Execute(c)
    BY <2>5, GateGoesOn
  <2> QED
    BY <1>3, <2>1, <2>2, <2>3, <2>4, <2>5 DEF X!Walk
<1> QED
  BY <1>1, <1>2, <1>3 DEF X!Next

\* The invariant of the gates: a call at its k-th hook has been let on by the k - 1 before it
\* in the order of the phase, and by every hook of the phases it has left.
THEOREM GateInvariant == X!Spec => [](HookInv /\ GateInv)
<1>1. X!Init => GateInv
  <2>1. X!Init => \A c \in Calls : call[c].step = "idle"
    BY DEF X!Init, X!Idle
  <2> QED
    BY <2>1 DEF GateInv
<1>2. X!Init => HookInv
  BY HookInitially
<1>3. HookInv /\ GateInv /\ [X!Next]_(X!vars) => HookInv' /\ GateInv'
  BY HookStep, GateStep
<1> QED
  BY <1>1, <1>2, <1>3, PTL DEF X!Spec

\* A call is charged, and its upstream asked, only when every hook that is due has let it on,
\* once each and in order (gateCall, HookChain and filterWasmHooks), for any plugins, any
\* hooks of any snapshots and whichever organization the plugins leave the call with.
THEOREM LetOnInOrder == X!Spec => []GatedInOrder
<1>1. ASSUME HookInv, GateInv, NEW c \in Calls, call[c].step \notin {"idle", "done"},
             NEW phase, Behind(call[c], phase)
      PROVE  /\ {call[c].passed[i][2] : i \in X!Asked(c, phase)} = X!Due(c, phase)
             /\ \A i, j \in X!Asked(c, phase) :
                  i # j => call[c].passed[i][2] # call[c].passed[j][2]
             /\ \A i, j \in X!Asked(c, phase) :
                  i < j => X!Follows(call[c].passed[j][2], call[c].passed[i][2])
  <2> DEFINE A == DueTo(call[c], phase)
             p == call[c].passed
  <2>1. X!Due(c, phase) = A
    BY DEF X!Due, DueTo, DueFor, X!registered, X!filterWasmHooks
  <2>2. \A g, h \in A : X!before(g, h) => X!Follows(h, g)
    <3>1. call[c].snap \in Snaps
      BY <1>1 DEF GateInv, Gated, Located
    <3>2. \A h \in call[c].snap : h.priority \in Int
      BY <3>1, HooksAssumption
    <3>3. \A h \in A : h[1] = "wasm" => h[2] \in call[c].snap
      BY DEF DueTo, DueFor, X!registered, X!filterWasmHooks
    <3>4. \A m, n \in Int : m > n \/ m = n => n <= m
      OBVIOUS
    <3> HIDE DEF A
    <3>5. ASSUME NEW g \in A, NEW h \in A, g[1] = "wasm", h[1] = "wasm", X!sooner(g[2], h[2])
          PROVE  h[2].priority <= g[2].priority
      BY <3>2, <3>3, <3>4, <3>5 DEF X!sooner
    <3> QED
      BY <3>5 DEF X!before, X!Follows
  <2>3. X!Asked(c, phase) = {i \in DOMAIN p : p[i][1] = phase}
    BY DEF X!Asked
  <2>4. /\ {p[i][2] : i \in X!Asked(c, phase)} = A
        /\ \A i, j \in X!Asked(c, phase) : i # j => p[i][2] # p[j][2]
        /\ \A i, j \in X!Asked(c, phase) : i < j => X!before(p[i][2], p[j][2])
    BY <1>1, <2>3 DEF Behind, Complete
  <2> HIDE DEF A
  <2> QED
    BY <2>1, <2>2, <2>4
<1>2. HookInv /\ GateInv => GatedInOrder
  <2> SUFFICES ASSUME HookInv, GateInv, NEW c \in Calls, call[c].step \notin {"idle", "done"},
                      NEW phase, \/ call[c].charged /\ phase = "before_call"
                                 \/ call[c].phase = "after_call" /\ phase = "before_chat"
               PROVE  /\ {call[c].passed[i][2] : i \in X!Asked(c, phase)} = X!Due(c, phase)
                      /\ \A i, j \in X!Asked(c, phase) :
                           i # j => call[c].passed[i][2] # call[c].passed[j][2]
                      /\ \A i, j \in X!Asked(c, phase) :
                           i < j => X!Follows(call[c].passed[j][2], call[c].passed[i][2])
    BY DEF GatedInOrder, X!GatedInOrder
  <2>1. Behind(call[c], phase)
    BY DEF GateInv, Gated, Located, Answers
  <2> QED
    BY <1>1, <2>1
<1> QED
  BY <1>2, GateInvariant, PTL
==============================================================================
