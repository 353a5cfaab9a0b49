---------------------------- MODULE GatewayCallProofs ----------------------------
(***************************************************************************)
(* Proofs about GatewayCall and the loop it runs, UpstreamAttempts, for    *)
(* any number of targets and tries and any snapshots and requests: a call  *)
(* tries every target its route has for it, in whatever order its strategy *)
(* gives, uses only credentials the policies allow, and records what it    *)
(* answers.                                                                *)
(*                                                                         *)
(* First the orders and the credentials, which are functions of the        *)
(* snapshot; then the loop; then the call, whose steps are steps of the    *)
(* loop.                                                                   *)
(***************************************************************************)
EXTENDS GatewayCall, FiniteSetTheorems, TLAPS

-----------------------------------------------------------------------------
(* The orders of the targets *)

\* What is below each element in a strict total order.
Ordered(I, below) ==
  /\ below \in [I -> SUBSET I]
  /\ \A x \in I : x \notin below[x]
  /\ \A x, y \in I : x # y => x \in below[y] \/ y \in below[x]
  /\ \A x, y \in I : x \in below[y] => below[x] \subseteq below[y]

\* Every element has a rank of its own and every rank is that of an element.
Ranked(I, below) ==
  /\ Cardinality(I) \in Nat
  /\ \A x \in I : Cardinality(below[x]) \in 0..(Cardinality(I) - 1)
  /\ \A x, y \in I : Cardinality(below[x]) = Cardinality(below[y]) => x = y
  /\ \A k \in 1..Cardinality(I) : \E x \in I : Cardinality(below[x]) = k - 1

LEMMA Ranks ==
  ASSUME NEW I, NEW below, IsFiniteSet(I), Ordered(I, below)
  PROVE  Ranked(I, below)
<1> DEFINE N == Cardinality(I)
           rank == [x \in I |-> Cardinality(below[x])]
<1> USE DEF Ordered
<1>1. N \in Nat
  BY FS_CardinalityType
<1>2. \A x \in I : IsFiniteSet(below[x]) /\ Cardinality(below[x]) \in Nat
  BY FS_Subset, FS_CardinalityType
<1>3. ASSUME NEW x \in I
      PROVE  Cardinality(below[x]) \in 0..(N - 1)
  <2>1. IsFiniteSet(I \ {x}) /\ Cardinality(I \ {x}) = N - 1
    BY FS_RemoveElement
  <2>2. below[x] \in SUBSET (I \ {x})
    OBVIOUS
  <2>3. Cardinality(below[x]) <= N - 1
    BY <2>1, <2>2, FS_Subset
  <2> QED
    BY <1>1, <1>2, <2>3
<1>4. ASSUME NEW x \in I, NEW y \in I, x \in below[y]
      PROVE  Cardinality(below[x]) # Cardinality(below[y])
  <2>1. below[x] \in SUBSET below[y] /\ below[x] # below[y]
    BY <1>4
  <2> QED
    BY <1>2, <2>1, FS_Subset
<1>5. \A x, y \in I : Cardinality(below[x]) = Cardinality(below[y]) => x = y
  BY <1>4
<1>6. ASSUME NEW k \in 1..N
      PROVE  \E x \in I : Cardinality(below[x]) = k - 1
  <2> DEFINE Places == 0..(N - 1)
  <2>1. rank \in [I -> Places] /\ \A x, y \in I : rank[x] = rank[y] => x = y
    BY <1>3, <1>5
  <2>2. rank \in Injection(I, Places)
    BY <2>1, Zenon DEF Injection, IsInjective
  <2>3. IsFiniteSet(Places) /\ Cardinality(Places) = N
    <3>1. 0 \in Int /\ N - 1 \in Int
      BY <1>1
    <3>2. IsFiniteSet(Places) /\ Cardinality(Places) = IF 0 > N - 1 THEN 0 ELSE N - 1 - 0 + 1
      BY <3>1, FS_Interval, Zenon
    <3> QED
      BY <1>1, <3>2
  <2>4. rank \in Surjection(I, Places)
    BY <2>2, <2>3, FS_Injection
  <2>5. \A p \in Places : \E x \in I : rank[x] = p
    BY <2>4, Zenon DEF Surjection
  <2>6. k - 1 \in Places
    BY <1>1
  <2> QED
    BY <2>5, <2>6
<1> QED
  BY <1>1, <1>3, <1>5, <1>6 DEF Ranked

\* Each index is at one place of the order by score.
LEMMA NthLists ==
  ASSUME NEW I \in SUBSET Int, IsFiniteSet(I), NEW score \in [I -> Int]
  PROVE  /\ Cardinality(I) \in Nat
         /\ \A k \in 1..Cardinality(I) : Nth(I, score, k) \in I
         /\ \A i \in I : \E k \in 1..Cardinality(I) : Nth(I, score, k) = i
<1> DEFINE Before(i, j) == score[i] < score[j] \/ (score[i] = score[j] /\ i < j)
           below == [i \in I |-> {j \in I : Before(j, i)}]
<1>1. below \in [I -> SUBSET I]
  OBVIOUS
<1>2. \A x \in I : x \notin below[x]
  OBVIOUS
<1>3. \A x, y \in I : x # y => x \in below[y] \/ y \in below[x]
  OBVIOUS
<1>4. ASSUME NEW x \in I, NEW y \in I, x \in below[y]
      PROVE  below[x] \subseteq below[y]
  <2> SUFFICES ASSUME NEW z \in I, Before(z, x), Before(x, y)
               PROVE  Before(z, y)
    BY <1>4
  <2> score[x] \in Int /\ score[y] \in Int /\ score[z] \in Int
    OBVIOUS
  <2> QED
    OBVIOUS
<1>5. \A k : Nth(I, score, k) = CHOOSE x \in I : Cardinality({y \in I : Before(y, x)}) = k - 1
  BY DEF Nth
<1>6. \A x \in I : {y \in I : Before(y, x)} = below[x]
  OBVIOUS
<1>7. Ordered(I, below)
  BY <1>1, <1>2, <1>3, <1>4 DEF Ordered
<1> HIDE DEF below, Before
<1>8. Ranked(I, below)
  BY <1>7, Ranks
<1> USE DEF Ranked
<1>9. ASSUME NEW k \in 1..Cardinality(I)
      PROVE  Nth(I, score, k) \in I /\ Cardinality(below[Nth(I, score, k)]) = k - 1
  <2>1. \E x \in I : Cardinality({y \in I : Before(y, x)}) = k - 1
    BY <1>6, <1>8
  <2>2. /\ Nth(I, score, k) \in I
        /\ Cardinality({y \in I : Before(y, Nth(I, score, k))}) = k - 1
    BY <1>5, <2>1, Zenon
  <2> QED
    BY <1>6, <2>2
<1>10. ASSUME NEW i \in I
      PROVE  \E k \in 1..Cardinality(I) : Nth(I, score, k) = i
  <2> DEFINE k == Cardinality(below[i]) + 1
  <2>1. k \in 1..Cardinality(I) /\ k - 1 = Cardinality(below[i])
    BY <1>8
  <2>2. Nth(I, score, k) \in I /\ Cardinality(below[Nth(I, score, k)]) = Cardinality(below[i])
    BY <1>9, <2>1
  <2>3. Nth(I, score, k) = i
    BY <1>8, <2>2
  <2> QED
    BY <2>1, <2>3
<1> QED
  BY <1>8, <1>9, <1>10

\* The sets of indices of a sequence.
LEMMA IndicesAreFinite ==
  ASSUME NEW len \in Nat
  PROVE  /\ Cardinality(1..len) = len
         /\ \A I \in SUBSET (1..len) :
              IsFiniteSet(I) /\ Cardinality(I) \in Nat /\ (Cardinality(I) = 0 <=> I = {})
<1>1. IsFiniteSet(1..len) /\ Cardinality(1..len) = IF 1 > len THEN 0 ELSE len - 1 + 1
  <2>1. 1 \in Int /\ len \in Int
    OBVIOUS
  <2> QED
    BY <2>1, FS_Interval, Zenon
<1>2. Cardinality(1..len) = len
  BY <1>1
<1>3. ASSUME NEW I \in SUBSET (1..len)
      PROVE  IsFiniteSet(I) /\ Cardinality(I) \in Nat /\ (Cardinality(I) = 0 <=> I = {})
  <2>1. IsFiniteSet(I)
    BY <1>1, FS_Subset
  <2> QED
    BY <2>1, FS_CardinalityType, FS_EmptySet
<1> QED
  BY <1>2, <1>3

\* A finite set of integers has a greatest.
LEMMA MaxIsGreatest ==
  ASSUME NEW V \in SUBSET Int, IsFiniteSet(V), V # {}
  PROVE  Max(V) \in V
<1> DEFINE below == [v \in V |-> {w \in V : w < v}]
<1>1. Ordered(V, below)
  <2>1. \A x, y \in V : x \in below[y] => below[x] \subseteq below[y]
    <3> SUFFICES ASSUME NEW x \in V, NEW y \in V, x < y, NEW z \in V, z < x
                 PROVE  z < y
      OBVIOUS
    <3> QED
      OBVIOUS
  <2>2. /\ below \in [V -> SUBSET V]
        /\ \A x \in V : x \notin below[x]
        /\ \A x, y \in V : x # y => x \in below[y] \/ y \in below[x]
    OBVIOUS
  <2> QED
    BY <2>1, <2>2 DEF Ordered
<1> HIDE DEF below
<1>2. Ranked(V, below)
  BY <1>1, Ranks
<1>3. Cardinality(V) # 0
  BY FS_EmptySet
<1>4. PICK x \in V : Cardinality(below[x]) = Cardinality(V) - 1
  BY <1>2, <1>3 DEF Ranked
<1>5. IsFiniteSet(V \ {x}) /\ Cardinality(V \ {x}) = Cardinality(V) - 1
  BY FS_RemoveElement
<1>6. below[x] \in SUBSET (V \ {x})
  BY <1>1 DEF Ordered
<1>7. V \ {x} = below[x]
  BY <1>4, <1>5, <1>6, FS_Subset
<1>8. \A y \in V : x >= y
  BY <1>7 DEF below
<1> QED
  BY <1>8 DEF Max

\* Every candidate has a latency score where one is known.
LEMMA LatencyIsScored ==
  ASSUME NEW cands, NEW len \in Nat, DOMAIN cands = 1..len,
         NEW signals, signals \in [DOMAIN signals -> Nat],
         \E i \in DOMAIN cands : <<cands[i].provider, cands[i].target>> \in DOMAIN signals
  PROVE  LatencyScores(cands, signals) \in [DOMAIN cands -> Int]
<1> DEFINE At(i) == <<cands[i].provider, cands[i].target>>
           Heard == {i \in DOMAIN cands : At(i) \in DOMAIN signals}
           latency == [i \in Heard |-> signals[At(i)]]
           count == Cardinality(Heard)
           sorted(k) == latency[Nth(Heard, latency, k)]
           half == count \div 2
           median == IF count % 2 = 0 THEN sorted(half) + sorted(half + 1) ELSE 2 * sorted(half + 1)
<1>1. Heard \in SUBSET (1..len) /\ Heard # {}
  OBVIOUS
<1>2. IsFiniteSet(Heard) /\ count \in Nat /\ count # 0
  BY <1>1, IndicesAreFinite
<1>3. latency \in [Heard -> Int]
  OBVIOUS
<1>4. ASSUME NEW k \in 1..count
      PROVE  sorted(k) \in Int
  <2>1. Heard \in SUBSET Int
    BY <1>1
  <2> HIDE DEF latency, Heard
  <2>2. Nth(Heard, latency, k) \in Heard
    BY <1>2, <1>3, <2>1, NthLists
  <2> QED
    BY <1>3, <2>2
<1>5. LatencyScores(cands, signals) = [i \in DOMAIN cands |-> IF i \in Heard THEN 2 * signals[At(i)] ELSE median]
  BY DEF LatencyScores
<1>6. median \in Int
  <2> HIDE DEF sorted, count
  <2>1. half \in Nat /\ half + 1 \in 1..count /\ (count % 2 = 0 => half \in 1..count)
    BY <1>2
  <2> QED
    BY <1>4, <2>1
<1> HIDE DEF median
<1>7. \A i \in Heard : 2 * signals[At(i)] \in Int
  OBVIOUS
<1> QED
  BY <1>5, <1>6, <1>7

\* Every candidate has a cost score.
LEMMA CostIsScored ==
  ASSUME NEW cands, NEW len \in Nat, DOMAIN cands = 1..len,
         NEW prices, prices \in [DOMAIN prices -> Nat]
  PROVE  CostScores(cands, prices) \in [DOMAIN cands -> Int]
<1> DEFINE At(i) == <<cands[i].provider, cands[i].target>>
           Listed == {i \in DOMAIN cands : At(i) \in DOMAIN prices}
           priced == [i \in Listed |-> prices[At(i)]]
           Paid == {prices[At(j)] : j \in Listed}
<1>1. IsFiniteSet(Listed)
  BY IndicesAreFinite
<1>2. priced \in Surjection(Listed, Paid)
  BY DEF Surjection
<1>3. IsFiniteSet(Paid \cup {0})
  <2> HIDE DEF Paid, priced, Listed
  <2> QED
    BY <1>1, <1>2, FS_Surjection, FS_AddElement
<1>4. Paid \cup {0} \in SUBSET Int
  <2>1. ASSUME NEW j \in Listed
        PROVE  prices[At(j)] \in Int
    OBVIOUS
  <2> HIDE DEF Listed, At
  <2> QED
    BY <2>1
<1>5. Max(Paid \cup {0}) \in Int
  BY <1>3, <1>4, MaxIsGreatest
<1>6. CostScores(cands, prices) = [i \in DOMAIN cands |-> IF i \in Listed THEN prices[At(i)] ELSE 1 + Max(Paid \cup {0})]
  BY DEF CostScores
<1>7. \A i \in Listed : prices[At(i)] \in Int
  OBVIOUS
<1> QED
  BY <1>5, <1>6, <1>7

\* The same targets in another order.
Relists(o, cands) ==
  /\ DOMAIN o = DOMAIN cands
  /\ \A i \in DOMAIN cands : \E k \in DOMAIN cands : o[k] = cands[i]
  /\ \A k \in DOMAIN cands : \E i \in DOMAIN cands : o[k] = cands[i]

LEMMA SortingRelists ==
  ASSUME NEW cands, NEW len \in Nat, DOMAIN cands = 1..len, NEW score \in [DOMAIN cands -> Int]
  PROVE  Relists(SortedBy(cands, score), cands)
<1> DEFINE I == 1..len
<1>1. I \in SUBSET Int /\ IsFiniteSet(I) /\ Cardinality(I) = len /\ score \in [I -> Int]
  BY IndicesAreFinite
<1>2. /\ \A k \in I : Nth(I, score, k) \in I
      /\ \A i \in I : \E k \in I : Nth(I, score, k) = i
  <2>1. I = 1..Cardinality(I)
    BY <1>1
  <2> HIDE DEF I
  <2>2. /\ \A k \in 1..Cardinality(I) : Nth(I, score, k) \in I
        /\ \A i \in I : \E k \in 1..Cardinality(I) : Nth(I, score, k) = i
    BY <1>1, NthLists, Zenon
  <2> QED
    BY <2>1, <2>2, Zenon
<1>3. SortedBy(cands, score) = [k \in 1..len |-> cands[Nth(1..len, score, k)]]
  BY DEF SortedBy
<1> QED
  BY <1>2, <1>3 DEF Relists

\* Whatever the strategy, each target is at one place of the order.
LEMMA OrdersRelist ==
  ASSUME NEW Things, NEW cands \in Seq(Things), NEW strategy,
         NEW signals, signals \in [DOMAIN signals -> Nat],
         NEW prices, prices \in [DOMAIN prices -> Nat],
         NEW o \in Orders(strategy, cands, signals, prices)
  PROVE  Relists(o, cands)
<1> DEFINE heard == \E i \in DOMAIN cands : <<cands[i].provider, cands[i].target>> \in DOMAIN signals
<1>1. Len(cands) \in Nat /\ DOMAIN cands = 1..Len(cands)
  OBVIOUS
<1>2. CASE strategy = "weighted" /\ cands # <<>>
  <2>1. PICK i \in DOMAIN cands : o = <<cands[i]>> \o RemoveAt(cands, i)
    BY <1>2 DEF Orders
  <2> DEFINE front == SubSeq(cands, 1, i - 1)
           back == SubSeq(cands, i + 1, Len(cands))
           rest == front \o back
  <2>2. /\ front \in Seq(Things) /\ Len(front) = i - 1
        /\ \A k \in 1..(i - 1) : front[k] = cands[k]
    BY <1>1
  <2>3. /\ back \in Seq(Things) /\ Len(back) = Len(cands) - i
        /\ \A k \in 1..(Len(cands) - i) : back[k] = cands[i + k]
    BY <1>1
  <2> HIDE DEF front, back
  <2>4. rest \in Seq(Things) /\ Len(rest) = Len(cands) - 1
    <3>1. rest \in Seq(Things) /\ Len(rest) = Len(front) + Len(back)
      <4>1. front \in Seq(Things) /\ back \in Seq(Things)
        BY <2>2, <2>3
      <4> QED
        BY ONLY <4>1 DEF rest
    <3>2. i \in Int /\ Len(cands) \in Int /\ Len(front) = i - 1 /\ Len(back) = Len(cands) - i
      BY <1>1, <2>2, <2>3
    <3> HIDE DEF rest
    <3> QED
      BY <3>1, <3>2
  <2>5. ASSUME NEW k \in 1..(Len(cands) - 1)
        PROVE  rest[k] = IF k < i THEN cands[k] ELSE cands[k + 1]
    <3>1. CASE k < i
      BY <1>1, <2>2, <2>3, <3>1
    <3>2. CASE ~(k < i)
      <4>1. k - (i - 1) \in 1..(Len(cands) - i) /\ i + (k - (i - 1)) = k + 1
        BY <1>1, <3>2
      <4>2. rest[k] = back[k - (i - 1)]
        BY <1>1, <2>2, <2>3, <3>2
      <4> QED
        BY <2>3, <3>2, <4>1, <4>2
    <3> QED
      BY <3>1, <3>2
  <2>6. o = <<cands[i]>> \o rest
    BY <2>1 DEF RemoveAt, front, back
  <2> HIDE DEF rest
  <2>7. DOMAIN o = 1..Len(cands) /\ o[1] = cands[i]
    BY <2>4, <2>6
  <2>8. \A k \in 2..Len(cands) : o[k] = IF k - 1 < i THEN cands[k - 1] ELSE cands[k]
    BY <2>4, <2>5, <2>6
  <2>9. ASSUME NEW j \in 1..Len(cands)
        PROVE  \E k \in 1..Len(cands) : o[k] = cands[j]
    <3>1. CASE j = i
      BY <2>7, <3>1
    <3>2. CASE j < i
      <4>1. j + 1 \in 2..Len(cands) /\ j + 1 \in 1..Len(cands)
        BY <1>1, <3>2
      <4>2. o[j + 1] = cands[j]
        BY <1>1, <2>8, <4>1, <3>2
      <4> QED
        BY <4>1, <4>2
    <3>3. CASE j > i
      <4>1. j \in 2..Len(cands)
        BY <1>1, <3>3
      <4>2. o[j] = cands[j]
        BY <1>1, <2>8, <4>1, <3>3
      <4> QED
        BY <4>2
    <3> QED
      BY <1>1, <3>1, <3>2, <3>3
  <2>10. ASSUME NEW k \in 1..Len(cands)
        PROVE  \E j \in 1..Len(cands) : o[k] = cands[j]
    <3>1. CASE k = 1
      BY <1>1, <2>7, <3>1
    <3>2. CASE k # 1
      <4>1. k \in 2..Len(cands) /\ k - 1 \in 1..Len(cands)
        BY <3>2, <1>1
      <4> QED
        BY <2>8, <4>1
    <3> QED
      BY <3>1, <3>2
  <2> QED
    BY <1>1, <2>7, <2>9, <2>10 DEF Relists
<1>3. CASE strategy = "latency" /\ heard
  <2>1. o = SortedBy(cands, LatencyScores(cands, signals))
    BY <1>3 DEF Orders
  <2>2. LatencyScores(cands, signals) \in [DOMAIN cands -> Int]
    BY <1>1, <1>3, LatencyIsScored
  <2> QED
    BY <1>1, <2>1, <2>2, SortingRelists
<1>4. CASE strategy = "cost"
  <2>1. o = SortedBy(cands, CostScores(cands, prices))
    BY <1>4 DEF Orders
  <2>2. CostScores(cands, prices) \in [DOMAIN cands -> Int]
    BY <1>1, CostIsScored
  <2> QED
    BY <1>1, <2>1, <2>2, SortingRelists
<1>5. CASE /\ ~(strategy = "weighted" /\ cands # <<>>)
           /\ ~(strategy = "latency" /\ heard)
           /\ strategy # "cost"
  <2>1. o = cands
    BY <1>5 DEF Orders
  <2> QED
    BY <2>1 DEF Relists
<1> QED
  BY <1>2, <1>3, <1>4, <1>5

\* The targets a call may use are those of its route that can do what is needed.
LEMMA CandidatesAreUsable ==
  ASSUME NEW s, NEW route, NEW Hops, route.fallbacks \in Seq(Hops), NEW wants
  PROVE  /\ Candidates(s, route, wants) \in Seq(Range(Candidates(s, route, wants)))
         /\ \A k \in DOMAIN Candidates(s, route, wants) :
              Candidates(s, route, wants)[k].provider \in DOMAIN s.providers
         /\ Usable(s, route.provider, wants) => 1 \in DOMAIN Candidates(s, route, wants)
<1> DEFINE primary == [provider |-> route.provider, target |-> route.target]
           Named(f) == [provider |-> f.provider, target |-> IF f.target = "" THEN route.target ELSE f.target]
           fallbacks == [i \in DOMAIN route.fallbacks |-> Named(route.fallbacks[i])]
           all == <<primary>> \o fallbacks
           fit == {i \in DOMAIN all : Usable(s, all[i].provider, wants)}
           place == [i \in fit |-> i]
           count == Cardinality(fit)
<1>1. Candidates(s, route, wants) = [k \in 1..count |-> all[Nth(fit, place, k)]]
  BY DEF Candidates
<1>2. fallbacks \in Seq(Range(fallbacks))
  <2> DEFINE len == Len(route.fallbacks)
             values == Range(fallbacks)
  <2>1. DOMAIN route.fallbacks = 1..len /\ len \in Nat
    OBVIOUS
  <2>2. \A i \in 1..len : Named(route.fallbacks[i]) \in values
    BY <2>1 DEF Range
  <2>3. fallbacks = [i \in 1..len |-> Named(route.fallbacks[i])]
    BY <2>1
  <2> HIDE DEF Named, fallbacks, len, values
  <2>4. fallbacks \in Seq(values)
    BY <2>1, <2>2, <2>3
  <2> QED
    BY <2>4 DEF values
<1>3. primary.provider = route.provider
  OBVIOUS
<1> HIDE DEF fallbacks, primary
<1>4. DOMAIN all = 1..(Len(fallbacks) + 1) /\ Len(fallbacks) \in Nat /\ all[1] = primary
  BY <1>2
<1> HIDE DEF all
<1>5. /\ IsFiniteSet(fit) /\ count \in Nat /\ (count = 0 <=> fit = {})
      /\ fit \in SUBSET Int
  <2> DEFINE len == Len(fallbacks) + 1
  <2>1. len \in Nat /\ fit \in SUBSET (1..len)
    BY <1>4
  <2> HIDE DEF len, fit
  <2>2. IsFiniteSet(fit) /\ count \in Nat /\ (count = 0 <=> fit = {})
    BY <2>1, IndicesAreFinite
  <2> QED
    BY <2>1, <2>2
<1>6. place \in [fit -> Int]
  BY <1>5
<1>7. \A k \in 1..count : Nth(fit, place, k) \in fit
  <2> HIDE DEF fit, place
  <2> QED
    BY <1>5, <1>6, NthLists
<1>8. \A k \in 1..count : all[Nth(fit, place, k)].provider \in DOMAIN s.providers
  BY <1>7 DEF Usable
<1>9. Usable(s, route.provider, wants) => 1 \in 1..count
  <2>1. Usable(s, route.provider, wants) => 1 \in fit
    <3>1. 1 \in DOMAIN all /\ all[1].provider = route.provider
      BY <1>3, <1>4
    <3> QED
      BY <3>1
  <2> HIDE DEF fit
  <2> QED
    BY <1>5, <2>1
<1> HIDE DEF fit, count, place
<1> QED
  BY <1>1, <1>5, <1>8, <1>9 DEF Range

-----------------------------------------------------------------------------
(* The credential of a target *)

\* The credential found is one of the snapshot, where none is missing.
LEMMA ResolvedIsKnown ==
  ASSUME NEW s, NEW type, NEW k, NEW name
  PROVE  LET cred == ResolveCredentialForCall(s, type, k, name)
         IN cred \in s.credentials \cup {NoCredential, Missing}
<1> DEFINE Held == {c \in Active(s) : c.org = k.org /\ c.type = type /\ c.name = name}
           scopes == <<<<"api_key", k.id>>, <<"project", k.project>>, <<"organization", k.org>>>>
           Bound(i) == {c \in Active(s) : <<type, scopes[i], c.id>> \in s.assignments}
           Hits == {i \in 1..Len(<<1, 2, 3>>) : Bound(<<1, 2, 3>>[i]) # {}}
           hit == IF Hits # {} THEN Min(Hits) ELSE 0
           cred == IF name # "" THEN (IF Held = {} THEN Missing ELSE CHOOSE c \in Held : TRUE)
                   ELSE IF hit = 0 THEN NoCredential ELSE CHOOSE c \in Bound(hit) : TRUE
<1>1. ResolveCredentialForCall(s, type, k, name) = cred
  BY DEF ResolveCredentialForCall, SelectInSeq
<1>2. hit # 0 => Bound(hit) # {}
  <2>1. Hits = {i \in {1, 2, 3} : Bound(i) # {}}
    <3>1. Len(<<1, 2, 3>>) = 3 /\ 1..3 = {1, 2, 3} /\ \A i \in {1, 2, 3} : <<1, 2, 3>>[i] = i
      OBVIOUS
    <3> HIDE DEF Bound
    <3> QED
      BY <3>1
  <2> HIDE DEF Bound, Hits
  <2>2. Hits # {} => \E i \in Hits : \A j \in Hits : i <= j
    <3>1. Hits \subseteq {1, 2, 3}
      BY <2>1
    <3>2. CASE 1 \in Hits
      BY <3>1, <3>2
    <3>3. CASE 1 \notin Hits /\ 2 \in Hits
      BY <3>1, <3>3
    <3>4. CASE 1 \notin Hits /\ 2 \notin Hits
      <4>1. \A j \in Hits : j = 3
        BY <3>1, <3>4
      <4> QED
        BY <4>1
    <3> QED
      BY <3>2, <3>3, <3>4
  <2>3. Hits # {} => Min(Hits) \in Hits
    BY <2>2 DEF Min
  <2> QED
    BY <2>1, <2>3
<1>3. \A c \in Active(s) : c \in s.credentials
  BY DEF Active
<1> HIDE DEF hit, Bound
<1>4. hit # 0 => (CHOOSE c \in Bound(hit) : TRUE) \in Active(s)
  BY <1>2 DEF Bound
<1>5. Held # {} => (CHOOSE c \in Held : TRUE) \in Active(s)
  OBVIOUS
<1> QED
  BY <1>1, <1>3, <1>4, <1>5

\* Under steady policies the credential a provider is bound to is one they let it use.
LEMMA BoundIsAllowed ==
  ASSUME NEW s, NEW k, NEW p \in DOMAIN s.providers,
         LET Chosen(c) == Apply(s.policies, k.org, c).credential
         IN \A i \in {"none"} \cup {d.id : d \in s.credentials} :
              Chosen(<<s.providers[p].type, i>>) \in {"", Chosen(NoContext)},
         bindProviderSecret(s, k, s.providers[p]) # Missing
  PROVE  Apply(s.policies, k.org,
               <<s.providers[p].type, bindProviderSecret(s, k, s.providers[p]).id>>).verdict = "allow"
<1> DEFINE type   == s.providers[p].type
           first  == Apply(s.policies, k.org, NoContext)
           shown  == ResolveCredentialForCall(s, type, k, first.credential)
           second == Apply(s.policies, k.org, CredentialFromSnapshot(s, type, k, first.credential))
           name   == IF second.credential # "" THEN second.credential ELSE first.credential
           cred   == ResolveCredentialForCall(s, type, k, name)
           id     == IF shown = Missing THEN "none" ELSE shown.id
<1>1. bindProviderSecret(s, k, s.providers[p]) = cred /\ second.verdict = "allow" /\ cred # Missing
  BY DEF bindProviderSecret
<1>2. CredentialFromSnapshot(s, type, k, first.credential) = <<type, id>>
  BY DEF CredentialFromSnapshot
<1>3. shown \in s.credentials \cup {NoCredential, Missing}
  BY ResolvedIsKnown
<1> HIDE DEF shown
<1>4. id \in {"none"} \cup {d.id : d \in s.credentials}
  <2>1. CASE shown = Missing
    BY <2>1
  <2>2. CASE shown # Missing /\ shown = NoCredential
    BY <2>2 DEF NoCredential
  <2>3. CASE shown # Missing /\ shown \in s.credentials
    BY <2>3
  <2> QED
    BY <1>3, <2>1, <2>2, <2>3
<1> HIDE DEF id
<1>5. second.credential \in {"", first.credential}
  BY <1>2, <1>4
<1>6. name = first.credential
  BY <1>5
<1>7. shown = cred
  BY <1>6 DEF shown
<1>8. <<type, cred.id>> = <<type, id>>
  BY <1>1, <1>7 DEF id
<1> QED
  BY <1>1, <1>2, <1>8

-----------------------------------------------------------------------------
(* The request and what is said to it *)

Primary(a) == CHOOSE r \in RoutesOf(a) : TRUE
Usables(a) == Candidates(Asks[a].snap, Primary(a), Asks[a].needs)

LEMMA SaidIs ==
  ASSUME NEW a \in DOMAIN Asks
  PROVE  /\ Said(a).of = a
         /\ Said(a).known <=> a \in Known
         /\ a \in Known =>
              /\ Said(a).key = KeyOf(a)
              /\ Said(a).secret = [p \in DOMAIN Asks[a].snap.providers |->
                                     bindProviderSecret(Asks[a].snap, KeyOf(a), Asks[a].snap.providers[p])]
         /\ a \in Known /\ Said(a).orders # {} =>
              /\ a \in Routed
              /\ Usable(Asks[a].snap, Primary(a).provider, Asks[a].needs)
              /\ Said(a).orders = Orders(Primary(a).strategy, Usables(a), Asks[a].signals, Prices)
<1> DEFINE s == Asks[a].snap
           fit == /\ a \in Routed
                  /\ Asks[a].needs # {} => /\ Usable(s, Primary(a).provider, Asks[a].needs)
                                          /\ Primary(a).hint \in Asks[a].needs
           orders == IF fit THEN BuildAttempts(s, Primary(a), Asks[a].needs, Asks[a].signals, Prices) ELSE {}
           secrets == [p \in DOMAIN s.providers |-> bindProviderSecret(s, KeyOf(a), s.providers[p])]
<1>1. CASE a \notin Known
  <2>1. Said(a) = [of |-> a, known |-> FALSE]
    BY <1>1, Zenon DEF Said
  <2>2. Said(a).of = a /\ ~Said(a).known
    BY <2>1
  <2> QED
    BY <1>1, <2>2
<1>2. CASE a \in Known
  <2> DEFINE full == [of |-> a, known |-> TRUE, key |-> KeyOf(a),
                      allowed |-> AllowsOrganization(s, KeyOf(a).org),
                      verdict |-> PolicyVerdict(s, KeyOf(a), Asks[a].model),
                      orders |-> orders, secret |-> secrets]
  <2>1. Said(a) = full
    BY <1>2, Zenon DEF Said, Primary
  <2>2. full.of = a /\ full.known /\ full.key = KeyOf(a) /\ full.orders = orders /\ full.secret = secrets
    OBVIOUS
  <2> HIDE DEF full
  <2>3. orders # {} => fit /\ orders = Orders(Primary(a).strategy, Usables(a), Asks[a].signals, Prices)
    BY DEF BuildAttempts, Usables
  <2>4. fit => Usable(s, Primary(a).provider, Asks[a].needs)
    <3>1. fit => Primary(a) \in RoutesOf(a)
      BY DEF Routed, Primary
    <3>2. fit => Primary(a).provider \in DOMAIN s.providers
      BY <3>1 DEF RoutesOf, LookupRoute
    <3> QED
      BY <3>2 DEF Usable
  <2> HIDE DEF orders, secrets
  <2>5. orders # {} => a \in Routed
    BY <2>3
  <2> HIDE DEF fit
  <2> QED
    BY <1>2, <2>1, <2>2, <2>3, <2>4, <2>5 DEF secrets
<1> QED
  BY <1>1, <1>2

\* The orders of a request's targets hold each target the route has for it.
LEMMA RequestOrders ==
  ASSUME NEW a \in Known, NEW o \in Said(a).orders
  PROVE  /\ a \in Routed
         /\ Len(Usables(a)) \in Nat /\ DOMAIN Usables(a) = 1..Len(Usables(a))
         /\ Max({1, Len(Usables(a))}) = Len(Usables(a))
         /\ Relists(o, Usables(a))
         /\ \A t \in DOMAIN o : o[t].provider \in DOMAIN Asks[a].snap.providers
<1> DEFINE s == Asks[a].snap
           hops == Primary(a).fallbacks
           cands == Usables(a)
<1>1. a \in DOMAIN Asks
  BY DEF Known
<1>2. /\ a \in Routed
      /\ Usable(s, Primary(a).provider, Asks[a].needs)
      /\ o \in Orders(Primary(a).strategy, cands, Asks[a].signals, Prices)
  BY <1>1, SaidIs
<1>3. Primary(a) \in s.routes
  <2>1. Primary(a) \in RoutesOf(a)
    BY <1>2 DEF Routed, Primary
  <2> QED
    BY <2>1 DEF RoutesOf, LookupRoute
<1>4. hops \in Seq(Range(hops)) /\ Asks[a].signals \in [DOMAIN Asks[a].signals -> Nat]
  BY <1>1, <1>3, CallAssumption
<1>5. Prices \in [DOMAIN Prices -> Nat]
  BY CallAssumption
<1>6. /\ cands \in Seq(Range(cands))
      /\ \A k \in DOMAIN cands : cands[k].provider \in DOMAIN s.providers
      /\ 1 \in DOMAIN cands
  BY <1>2, <1>4, CandidatesAreUsable DEF Usables
<1> HIDE DEF cands
<1>7. Len(cands) \in Nat /\ DOMAIN cands = 1..Len(cands)
  BY <1>6
<1>8. Max({1, Len(cands)}) = Len(cands)
  <2>1. Len(cands) >= 1
    BY <1>6, <1>7
  <2> DEFINE len == Len(cands)
             max == Max({1, len})
  <2>2. len \in {1, len} /\ \A y \in {1, len} : len >= y
    BY <1>7, <2>1
  <2>3. max \in {1, len} /\ \A y \in {1, len} : max >= y
    BY <2>2, Zenon DEF Max
  <2>4. (max = 1 \/ max = len) /\ max >= len
    BY <2>3
  <2> HIDE DEF max, len
  <2>5. max = len
    BY <1>7, <2>1, <2>4 DEF len
  <2> QED
    BY <2>5 DEF max, len
<1>9. Relists(o, cands)
  BY <1>2, <1>4, <1>5, <1>6, OrdersRelist
<1> QED
  BY <1>2, <1>6, <1>7, <1>8, <1>9 DEF Relists, cands

-----------------------------------------------------------------------------
(* The loop *)

InLoop == step \in {"sleep", "bind", "call"}

\* Inside the loop the last call was not final, the current target has had as many
\* calls as the try says, and nothing has been sent or recorded.
LoopInv ==
  InLoop =>
    /\ last \notin {"ok", "refused", "unsupported"}
    /\ calls[target] = try
    /\ reply = "none" /\ usages = 0 /\ afters = 0

\* The targets before the current one are used up, those after it untouched.
TargetsInv ==
  \A t \in Targets :
    /\ t < target => calls[t] = MaxTries \/ t \in unbound
    /\ t > target => calls[t] = 0
    /\ calls[t] <= MaxTries

\* A result is attributed to the target it came from, except between the binding of the
\* next target and its call, which replaces it; audio holds none inside the loop.
ResultInv ==
  /\ step = "call" => used = target
  /\ step # "call" /\ result # "none" => used = source /\ source # 0
  /\ result = "ok" => last = "ok"
  /\ InLoop /\ mode = "audio" => result = "none"

\* What has been answered, and before the answer nothing.
ReplyInv ==
  /\ step = "reply" => reply = "none" /\ usages = 0 /\ afters = 0
  /\ step = "done" /\ reply \in {"ok", "upstream"} =>
       usages = 1 /\ afters = 1 /\ result # "none"
  /\ reply = "ok" /\ mode # "stream" => result = "ok"

IInv == TypeOK /\ LoopInv /\ TargetsInv /\ ResultInv /\ ReplyInv

USE AttemptsAssumption DEF Targets, Answers, Errors, Steps, Replies

LEMMA InitInv == Init => IInv
<1> SUFFICES ASSUME Init PROVE IInv
  OBVIOUS
<1>1. n \in Targets /\ 1 \in Targets /\ target = 1 /\ try = 0
  BY DEF Init
<1>2. TypeOK
  <2>1. target \in 1..n /\ try \in 0..(MaxTries - 1) /\ used \in 0..n /\ source \in 0..n
    BY DEF Init
  <2> QED
    BY <2>1 DEF Init, TypeOK
<1>3. LoopInv /\ TargetsInv
  BY <1>1 DEF Init, LoopInv, InLoop, TargetsInv
<1>4. ResultInv /\ ReplyInv
  BY DEF Init, ResultInv, ReplyInv
<1> QED
  BY <1>2, <1>3, <1>4 DEF IInv

\* The loop goes on to a place of the right type.
LEMMA OnwardTypes ==
  ASSUME TypeOK, Onward \/ (Failover \/ (target = n /\ Stop)) \/ Stop
  PROVE  target' \in 1..n /\ try' \in 0..(MaxTries - 1) /\ step' \in Steps
<1>0. n \in Nat /\ target \in 1..n /\ try \in 0..(MaxTries - 1)
  BY DEF TypeOK
<1>1. CASE Retry
  BY <1>0, <1>1 DEF Retry
<1>2. CASE Failover
  BY <1>0, <1>2 DEF Failover
<1>3. CASE Stop
  BY <1>0, <1>3 DEF Stop
<1> QED
  BY <1>1, <1>2, <1>3 DEF Onward

\* Types are preserved.
LEMMA TypeStep == TypeOK /\ [Next]_vars => TypeOK'
<1> SUFFICES ASSUME TypeOK, [Next]_vars PROVE TypeOK'
  OBVIOUS
<1>0. TypeOK
  OBVIOUS
<1>1. CASE Sleep
  <2>1. target' \in 1..n /\ try' \in 0..(MaxTries - 1) /\ step' \in Steps
    <3>1. CASE Stop
      BY <1>0, <3>1, OnwardTypes
    <3>2. CASE step' = "bind" /\ UNCHANGED <<target, try>>
      BY <1>0, <3>2 DEF TypeOK
    <3> QED
      BY <1>1, <3>1, <3>2 DEF Sleep
  <2>2. /\ UNCHANGED <<mode, n, have, used, reply, usages, afters, calls, unbound, last, source>>
        /\ err' \in {err, "cancelled"} /\ result' \in {result, "none"}
    BY <1>1 DEF Sleep, history
  <2> QED
    BY <1>0, <2>1, <2>2 DEF TypeOK
<1>2. CASE Bind
  BY <1>2 DEF Bind, TypeOK, history
<1>3. CASE BindFails
  <2>1. target' \in 1..n /\ try' \in 0..(MaxTries - 1) /\ step' \in Steps
    BY <1>0, <1>3, OnwardTypes DEF BindFails
  <2>2. /\ UNCHANGED <<mode, n, result, have, reply, usages, afters, calls, last, source>>
        /\ err' = "bind" /\ used' \in {used, target} /\ unbound' = unbound \cup {target}
    BY <1>3 DEF BindFails
  <2>3. target \in Targets /\ used' \in 0..n
    BY <1>0, <2>2 DEF TypeOK
  <2> QED
    BY <1>0, <2>1, <2>2, <2>3 DEF TypeOK
<1>4. CASE CallFails
  <2>1. PICK outcome \in Errors : Called(outcome) /\ result' = "none" /\ err' = outcome
                                   /\ UNCHANGED <<have, source>> /\ (Onward \/ Stop)
    BY <1>4 DEF CallFails
  <2>2. target' \in 1..n /\ try' \in 0..(MaxTries - 1) /\ step' \in Steps
    BY <1>0, <2>1, OnwardTypes
  <2>3. calls' \in [Targets -> Nat] /\ UNCHANGED <<mode, n, used, reply, usages, afters, unbound>>
        /\ last' = outcome
    BY <1>0, <2>1 DEF Called, TypeOK
  <2> QED
    BY <1>0, <2>1, <2>2, <2>3 DEF TypeOK
<1>5. CASE CallAnswers
  <2>1. PICK outcome \in Answers : Called(outcome) /\ err' = "none" /\ have' = TRUE
                                    /\ source' = target /\ (Onward \/ Stop)
                                    /\ result' \in {"none", outcome}
    BY <1>5 DEF CallAnswers
  <2>2. target' \in 1..n /\ try' \in 0..(MaxTries - 1) /\ step' \in Steps
    BY <1>0, <2>1, OnwardTypes
  <2>3. calls' \in [Targets -> Nat] /\ UNCHANGED <<mode, n, used, reply, usages, afters, unbound>>
        /\ last' = outcome
    BY <1>0, <2>1 DEF Called, TypeOK
  <2>4. source' \in 0..n
    BY <1>0, <2>1 DEF TypeOK
  <2> QED
    BY <1>0, <2>1, <2>2, <2>3, <2>4 DEF TypeOK
<1>6. CASE ReplyError \/ ReplyUpstream \/ ReplyAudio \/ ReplyChat \/ ReplyStream
  <2>1. /\ UNCHANGED <<mode, n, target, try, result, err, have, used, calls, unbound, last, source>>
        /\ step' \in {"done", "stuck"}
    BY <1>6 DEF ReplyError, ReplyUpstream, ReplyAudio, ReplyChat, ReplyStream, Ended, history
  <2>2. reply' \in Replies
    BY <1>6 DEF ReplyError, ReplyUpstream, ReplyAudio, ReplyChat, ReplyStream, Ended
  <2>3. usages' \in {usages, usages + 1} /\ afters' \in {afters, afters + 1}
    BY <1>6 DEF ReplyError, ReplyUpstream, ReplyAudio, ReplyChat, ReplyStream, Account
  <2> QED
    BY <2>1, <2>2, <2>3 DEF TypeOK
<1>7. CASE UNCHANGED vars
  BY <1>7 DEF vars, loop, history, TypeOK
<1> QED
  BY <1>1, <1>2, <1>3, <1>4, <1>5, <1>6, <1>7 DEF Next

\* An answering step only ends the call.
LEMMA ReplyStep ==
  ASSUME IInv, ReplyError \/ ReplyUpstream \/ ReplyAudio \/ ReplyChat \/ ReplyStream
  PROVE  LoopInv' /\ TargetsInv' /\ ResultInv' /\ ReplyInv'
<1>1. /\ step = "reply" /\ step' \in {"done", "stuck"}
      /\ UNCHANGED <<mode, n, target, try, result, err, have, used, calls, unbound, last, source>>
  BY DEF ReplyError, ReplyUpstream, ReplyAudio, ReplyChat, ReplyStream, Ended, history
<1>2. LoopInv' /\ TargetsInv' /\ ResultInv'
  BY <1>1 DEF IInv, LoopInv, InLoop, TargetsInv, ResultInv
<1>3. ReplyInv'
  <2>1. usages = 0 /\ afters = 0
    BY <1>1 DEF IInv, ReplyInv
  <2> QED
    BY <1>1, <2>1 DEF ReplyError, ReplyUpstream, ReplyAudio, ReplyChat, ReplyStream, Ended,
                      Account, ReplyInv
<1> QED
  BY <1>2, <1>3

\* After a call, the target's calls are one more and the loop goes on accordingly.
LEMMA CallStep ==
  ASSUME IInv, TypeOK', CallFails \/ CallAnswers
  PROVE  LoopInv' /\ TargetsInv'
<1>1. /\ step = "call" /\ UNCHANGED <<mode, n, reply, usages, afters, unbound>>
      /\ calls' = [calls EXCEPT ![target] = @ + 1]
      /\ calls[target] = try
      /\ calls'[target] = try + 1
  <2>1. /\ step = "call" /\ UNCHANGED <<mode, n, reply, usages, afters, unbound>>
        /\ calls' = [calls EXCEPT ![target] = @ + 1]
    BY DEF CallFails, CallAnswers, Called
  <2>2. calls[target] = try /\ calls \in [Targets -> Nat] /\ target \in Targets
    BY <2>1 DEF IInv, LoopInv, InLoop, TypeOK
  <2> QED
    BY <2>1, <2>2
<1>2. Onward \/ Stop
  BY DEF CallFails, CallAnswers
<1>3. last' \in {"ok", "refused", "unsupported"} => step' = "reply"
  BY DEF CallFails, CallAnswers, Called, Stop
<1>4. \A t \in Targets : t # target => calls'[t] = calls[t]
  BY <1>1 DEF IInv, TypeOK
<1>5. target \in Targets /\ n \in Targets /\ try \in 0..(MaxTries - 1)
  BY DEF IInv, TypeOK
<1>6. TargetsInv'
  BY <1>1, <1>2, <1>4, <1>5 DEF Onward, Retry, Failover, Stop, IInv, TargetsInv
<1>7. LoopInv'
  <2>1. step' # "reply" => calls'[target'] = try'
    BY <1>1, <1>2, <1>4, <1>5 DEF Onward, Retry, Failover, Stop, IInv, TargetsInv, TypeOK
  <2> QED
    BY <1>1, <1>2, <1>3, <2>1 DEF IInv, LoopInv, InLoop
<1> QED
  BY <1>6, <1>7

\* The invariant is inductive.
LEMMA NextInv == IInv /\ [Next]_vars => IInv'
<1> SUFFICES ASSUME IInv, [Next]_vars PROVE IInv'
  OBVIOUS
<1>0. TypeOK'
  BY TypeStep DEF IInv
<1>1. CASE Sleep
  <2>1. step = "sleep" /\ UNCHANGED <<target, try, mode, n, have, used, reply, usages, afters>>
        /\ UNCHANGED <<calls, unbound, last, source>> /\ result' \in {result, "none"}
        /\ step' \in {"bind", "reply"}
    BY <1>1 DEF Sleep, Stop, history
  <2> QED
    BY <1>0, <2>1 DEF IInv, LoopInv, InLoop, TargetsInv, ResultInv, ReplyInv
<1>2. CASE Bind
  BY <1>0, <1>2 DEF Bind, history, IInv, LoopInv, InLoop, TargetsInv, ResultInv, ReplyInv
<1>3. CASE BindFails
  <2>1. /\ step = "bind" /\ UNCHANGED <<mode, n, result, have, reply, usages, afters>>
        /\ UNCHANGED <<calls, last, source>>
        /\ unbound' = unbound \cup {target}
    BY <1>3 DEF BindFails
  <2>2. TargetsInv' /\ LoopInv'
    BY <1>3, <2>1 DEF BindFails, Failover, Stop, IInv, TypeOK, LoopInv, InLoop, TargetsInv
  <2>3. step' \in {"bind", "reply"} /\ (used' = used \/ mode = "audio")
    BY <1>3 DEF BindFails, Failover, Stop
  <2>4. ResultInv'
    BY <2>1, <2>3 DEF IInv, InLoop, ResultInv
  <2>5. reply = "none" /\ usages = 0 /\ afters = 0
    BY <2>1 DEF IInv, LoopInv, InLoop
  <2>6. ReplyInv'
    BY <2>1, <2>3, <2>5 DEF ReplyInv
  <2> QED
    BY <1>0, <2>2, <2>4, <2>6 DEF IInv
<1>4. CASE CallFails
  <2>1. ResultInv' /\ ReplyInv'
    BY <1>4 DEF CallFails, Called, Onward, Retry, Failover, Stop, IInv, LoopInv, InLoop,
                ResultInv, ReplyInv
  <2> QED
    BY <1>0, <1>4, <2>1, CallStep DEF IInv
<1>5. CASE CallAnswers
  <2>1. ResultInv' /\ ReplyInv'
    BY <1>5 DEF CallAnswers, Called, Onward, Retry, Failover, Stop, IInv, TypeOK, LoopInv,
                InLoop, ResultInv, ReplyInv
  <2> QED
    BY <1>0, <1>5, <2>1, CallStep DEF IInv
<1>6. CASE ReplyError \/ ReplyUpstream \/ ReplyAudio \/ ReplyChat \/ ReplyStream
  BY <1>0, <1>6, ReplyStep DEF IInv
<1>7. CASE UNCHANGED vars
  BY <1>0, <1>7 DEF vars, loop, history, IInv, LoopInv, InLoop, TargetsInv, ResultInv, ReplyInv
<1> QED
  BY <1>1, <1>2, <1>3, <1>4, <1>5, <1>6, <1>7 DEF Next

\* The inductive invariant holds in every reachable state.
THEOREM Invariant == Spec => []IInv
  BY InitInv, NextInv, PTL DEF Spec

\* The types of the handler's variables.
THEOREM TypeCorrect == Spec => []TypeOK
<1>1. IInv => TypeOK
  BY DEF IInv
<1> QED
  BY <1>1, Invariant, PTL

\* A fallback is called only after the targets before it are used up.
THEOREM Exhausted == Spec => []TargetsExhausted
<1>1. IInv => TargetsExhausted
  BY DEF IInv, TargetsInv, TargetsExhausted
<1> QED
  BY <1>1, Invariant, PTL

\* A result the client gets is recorded once, under the target it came from.
THEOREM Recorded == Spec => []RecordedAsAnswered
<1>1. IInv => RecordedAsAnswered
  BY DEF IInv, ResultInv, ReplyInv, RecordedAsAnswered
<1> QED
  BY <1>1, Invariant, PTL

\* Outside streams a 200 carries an answer of the last upstream call.
THEOREM OkIsOk == Spec => []OkMeansOk
<1>1. IInv => OkMeansOk
  BY DEF IInv, ResultInv, ReplyInv, OkMeansOk
<1> QED
  BY <1>1, Invariant, PTL

\* After a final answer there is no further upstream call.
THEOREM Final == Spec => AnswerIsFinal
<1>1. IInv /\ [Next]_vars =>
        [(last \in {"ok", "refused", "unsupported"}) => calls' = calls]_vars
  <2> SUFFICES ASSUME IInv, Next, last \in {"ok", "refused", "unsupported"}
               PROVE  calls' = calls
    BY DEF vars, loop, history
  <2>1. step # "call"
    BY DEF IInv, LoopInv, InLoop
  <2> QED
    BY <2>1 DEF Next, Sleep, Bind, BindFails, CallFails, CallAnswers, Called, ReplyError,
                ReplyUpstream, ReplyAudio, ReplyChat, ReplyStream, Ended, history
<1> QED
  BY <1>1, Invariant, PTL DEF Spec, AnswerIsFinal

-----------------------------------------------------------------------------
(* The call runs the loop *)

\* A step of the call is a step of the loop or leaves the loop alone.
LEMMA CallStepIsLoopStep == [CallNext]_callVars => [Next]_vars
<1> SUFFICES ASSUME [CallNext]_callVars
             PROVE  [Next]_vars
  OBVIOUS
<1>1. CASE Authenticate \/ Decode \/ Policies \/ BeforeCall \/ Quota \/ FindRoute \/ BeforeChat
  BY <1>1 DEF Authenticate, Decode, Policies, BeforeCall, Quota, FindRoute, BeforeChat, Goes, Refuse
<1>2. CASE BindSecret \/ BindSecretFails \/ CallUpstream \/ Rest
  BY <1>2 DEF BindSecret, BindSecretFails, CallUpstream, Rest, Next
<1>3. CASE UNCHANGED callVars
  BY <1>3 DEF callVars
<1> QED
  BY <1>1, <1>2, <1>3 DEF CallNext

\* Behaviours of a call are behaviours of the loop: the handler implements UpstreamAttempts.
THEOREM CallImplementsLoop == CallSpec => Spec
<1>1. CallInit => Init
  BY DEF CallInit
<1> QED
  BY <1>1, CallStepIsLoopStep, PTL DEF CallSpec, Spec

\* What is proved of the loop, for every request and snapshot: the tries, the accounting
\* and that an answer is final.
THEOREM CallKeepsLoop ==
  CallSpec => [](TypeOK /\ TargetsExhausted /\ RecordedAsAnswered) /\ AnswerIsFinal
  BY CallImplementsLoop, TypeCorrect, Exhausted, Recorded, Final, PTL

\* Where the counters stand when the handler gets to a stage.
CountedLate ==
  /\ stage \in {"auth", "decode", "policy", "hooks", "quota"} => ~counted
  /\ stage # "refused" => refusal = "none"
  /\ DenialIsFree

\* Neither the policies nor the hooks refuse a call whose quota has been taken.
THEOREM DenialIsFreeAlways == CallSpec => []DenialIsFree
<1>1. CallInit => CountedLate
  BY DEF CallInit, CountedLate, DenialIsFree
<1>2. ASSUME CountedLate, [CallNext]_callVars
      PROVE  CountedLate'
  <2>1. CASE Authenticate \/ Decode \/ Policies \/ BeforeCall
    BY <1>2, <2>1 DEF Authenticate, Decode, Policies, BeforeCall, Goes, Refuse, CountedLate, DenialIsFree
  <2>2. CASE Quota \/ FindRoute \/ BeforeChat
    BY <1>2, <2>2 DEF Quota, FindRoute, BeforeChat, Goes, Refuse, CountedLate, DenialIsFree
  <2>3. CASE BindSecret \/ BindSecretFails \/ CallUpstream \/ Rest
    BY <1>2, <2>3 DEF BindSecret, BindSecretFails, CallUpstream, Rest, Looping, CountedLate, DenialIsFree
  <2>4. CASE UNCHANGED callVars
    BY <1>2, <2>4 DEF callVars, CountedLate, DenialIsFree
  <2> QED
    BY <1>2, <2>1, <2>2, <2>3, <2>4 DEF CallNext
<1>3. CountedLate => DenialIsFree
  BY DEF CountedLate
<1> QED
  BY <1>1, <1>2, <1>3, PTL DEF CallSpec

-----------------------------------------------------------------------------
(* The call *)

\* A loop that ends in failure ends at its last target, which has had its tries.
EndInv ==
  /\ step \in {"reply", "done", "stuck"} /\ err \in {"failed", "bind"} =>
       target = n /\ (calls[n] = MaxTries \/ n \in unbound)
  /\ reply = "error" => err \notin {"none", "unsupported"}

LEMMA EndStep ==
  ASSUME IInv, EndInv, [Next]_vars
  PROVE  EndInv'
<1>1. TypeOK
  BY DEF IInv
<1>2. InLoop => reply = "none" /\ calls[target] = try
  BY DEF IInv, LoopInv
<1>3. step = "reply" => reply = "none"
  BY DEF IInv, ReplyInv
<1>4. CASE Sleep
  BY <1>2, <1>4 DEF Sleep, Stop, EndInv, InLoop, history
<1>5. CASE Bind
  BY <1>2, <1>5 DEF Bind, EndInv, InLoop, history
<1>6. CASE BindFails
  BY <1>2, <1>6 DEF BindFails, Failover, Stop, EndInv, InLoop
<1>7. CASE CallFails
  <2>1. PICK outcome \in Errors :
          /\ Called(outcome)
          /\ err' = outcome
          /\ IF outcome = "failed" THEN Onward ELSE Stop
    BY <1>7 DEF CallFails
  <2>2. reply' = "none" /\ n' = n /\ unbound' = unbound
    BY <1>2, <2>1 DEF Called, InLoop
  <2>3. CASE outcome = "unsupported"
    BY <2>1, <2>2, <2>3 DEF EndInv
  <2>4. CASE outcome = "failed"
    <3>1. CASE Retry \/ (try + 1 = MaxTries /\ Failover)
      BY <2>2, <3>1 DEF Retry, Failover, EndInv
    <3>2. CASE try + 1 = MaxTries /\ target = n /\ Stop
      <4>1. calls[target] = try /\ target \in Targets /\ calls \in [Targets -> Nat]
        BY <1>1, <1>2, <2>1 DEF Called, InLoop, TypeOK
      <4>2. calls'[target] = MaxTries /\ target' = target
        BY <2>1, <3>2, <4>1 DEF Called, Stop
      <4> QED
        BY <2>2, <3>2, <4>2 DEF EndInv
    <3> QED
      BY <2>1, <2>4, <3>1, <3>2 DEF Onward
  <2> QED
    BY <2>1, <2>3, <2>4
<1>8. CASE CallAnswers
  <2>1. err' = "none" /\ reply' = "none"
    BY <1>2, <1>8 DEF CallAnswers, Called, InLoop
  <2> QED
    BY <2>1 DEF EndInv
<1>9. CASE ReplyError \/ ReplyUpstream \/ ReplyAudio \/ ReplyChat \/ ReplyStream
  BY <1>9 DEF ReplyError, ReplyUpstream, ReplyAudio, ReplyChat, ReplyStream, Ended, EndInv, history
<1>10. CASE UNCHANGED vars
  BY <1>10 DEF vars, loop, history, EndInv
<1> QED
  BY <1>4, <1>5, <1>6, <1>7, <1>8, <1>9, <1>10 DEF Next

\* The call keeps to what was said to its request: the order it tries the targets in is one
\* its strategy may give, a target is called with the credential it was bound to, and no
\* other has ever been used.
CallInv ==
  /\ \E a \in DOMAIN Asks : ask = Said(a)
  /\ ask.of \in Routed => n = Max({1, Len(Targeted)})
  /\ stage \notin {"auth", "refused"} => ask.known
  /\ stage \in {"chat hooks", "loop"} => attempts \in ask.orders
  /\ stage # "loop" => step = "bind"
  /\ step = "call" => secret = Resolved /\ Resolved # Missing
  /\ \A s \in spent :
       ask.known /\ \E p \in DOMAIN snap.providers : s = <<p, ask.secret[p]>> /\ ask.secret[p] # Missing

LEMMA CallInvInit == CallInit => CallInv
<1> SUFFICES ASSUME CallInit PROVE CallInv
  OBVIOUS
<1>1. PICK a \in DOMAIN Asks : ask = Said(a)
  BY DEF CallInit
<1>2. ask.of \in Routed => n = Max({1, Len(Targeted)})
  BY DEF CallInit
<1>3. step = "bind" /\ stage = "auth" /\ spent = {}
  BY DEF CallInit, Init
<1> QED
  BY <1>1, <1>2, <1>3 DEF CallInv

\* In the loop a target is one of the snapshot's providers.
LEMMA AttemptedIsProvider ==
  ASSUME TypeOK, CallInv, stage = "loop"
  PROVE  /\ ask.known
         /\ n = Len(Targeted) /\ DOMAIN Targeted = 1..n
         /\ Relists(attempts, Targeted)
         /\ attempted \in DOMAIN snap.providers
<1>1. PICK a \in DOMAIN Asks : ask = Said(a)
  BY DEF CallInv
<1>2. ask.of = a /\ ask.known /\ a \in Known
  BY <1>1, SaidIs DEF CallInv
<1>3. attempts \in Said(a).orders
  BY <1>1 DEF CallInv
<1>4. Targeted = Usables(a) /\ snap = Asks[a].snap
  BY <1>2 DEF Targeted, Usables, Primary, snap, needs
<1>5. /\ a \in Routed
      /\ Len(Usables(a)) \in Nat /\ DOMAIN Usables(a) = 1..Len(Usables(a))
      /\ Max({1, Len(Usables(a))}) = Len(Usables(a))
      /\ Relists(attempts, Usables(a))
      /\ \A t \in DOMAIN attempts : attempts[t].provider \in DOMAIN Asks[a].snap.providers
  BY <1>2, <1>3, RequestOrders
<1>6. n = Len(Targeted)
  BY <1>2, <1>4, <1>5 DEF CallInv
<1>7. target \in 1..n
  BY DEF TypeOK
<1>8. target \in DOMAIN attempts
  BY <1>4, <1>5, <1>6, <1>7 DEF Relists
<1> QED
  BY <1>2, <1>4, <1>5, <1>6, <1>8 DEF attempted

LEMMA CallInvStep ==
  ASSUME TypeOK, CallInv, [CallNext]_callVars
  PROVE  CallInv'
<1>1. CASE Authenticate \/ Decode \/ Policies \/ BeforeCall \/ Quota \/ FindRoute \/ BeforeChat
  <2>1. UNCHANGED <<vars, ask, secret, spent>>
    BY <1>1 DEF Authenticate, Decode, Policies, BeforeCall, Quota, FindRoute, BeforeChat, Goes, Refuse
  <2>2. stage # "loop"
    BY <1>1 DEF Authenticate, Decode, Policies, BeforeCall, Quota, FindRoute, BeforeChat, Goes, Refuse
  <2>3. step' = "bind" /\ n' = n
    BY <2>1, <2>2 DEF CallInv, vars, loop
  <2>4. stage' \notin {"auth", "refused"} => ask'.known
    BY <1>1, <2>1 DEF CallInv, Authenticate, Decode, Policies, BeforeCall, Quota, FindRoute, BeforeChat, Goes, Refuse
  <2>5. stage' \in {"chat hooks", "loop"} => attempts' \in ask'.orders
    BY <1>1, <2>1 DEF CallInv, Authenticate, Decode, Policies, BeforeCall, Quota, FindRoute, BeforeChat, Goes, Refuse
  <2> QED
    BY <2>1, <2>3, <2>4, <2>5 DEF CallInv, snap, needs, Targeted
<1>2. CASE BindSecret \/ BindSecretFails \/ CallUpstream \/ Rest
  <2>1. stage = "loop" /\ UNCHANGED <<stage, ask, attempts, n>>
    BY <1>2 DEF BindSecret, BindSecretFails, CallUpstream, Rest, Looping, Bind, BindFails, CallFails, CallAnswers,
         Called, Sleep, ReplyError, ReplyUpstream, ReplyAudio, ReplyChat, ReplyStream, Ended
  <2>2. step' = "call" => secret' = Resolved' /\ Resolved' # Missing
    <3>1. CASE BindSecret
      BY <2>1, <3>1 DEF BindSecret, Bind, Resolved, attempted
    <3>2. CASE BindSecretFails \/ CallUpstream \/ Rest
      BY <3>2 DEF BindSecretFails, CallUpstream, Rest, BindFails, CallFails, CallAnswers, Onward, Retry, Failover,
           Stop, Sleep, ReplyError, ReplyUpstream, ReplyAudio, ReplyChat, ReplyStream
    <3> QED
      BY <1>2, <3>1, <3>2
  <2>3. \A s \in spent' :
          ask.known /\ \E p \in DOMAIN snap.providers : s = <<p, ask.secret[p]>> /\ ask.secret[p] # Missing
    <3>1. CASE BindSecret \/ BindSecretFails \/ Rest
      BY <3>1 DEF BindSecret, BindSecretFails, Rest, CallInv
    <3>2. CASE CallUpstream
      <4>1. spent' = spent \cup {<<attempted, secret>>} /\ step = "call"
        BY <3>2 DEF CallUpstream, CallFails, CallAnswers, Called
      <4>2. secret = ask.secret[attempted] /\ secret # Missing
        BY <4>1 DEF CallInv, Resolved
      <4>3. ask.known /\ attempted \in DOMAIN snap.providers
        BY <2>1, AttemptedIsProvider
      <4> QED
        BY <4>1, <4>2, <4>3 DEF CallInv
    <3> QED
      BY <1>2, <3>1, <3>2
  <2> QED
    BY <2>1, <2>2, <2>3 DEF CallInv, snap, needs, Targeted
<1>3. CASE UNCHANGED callVars
  BY <1>3 DEF callVars, vars, loop, CallInv, snap, needs, Targeted, Resolved, attempted
<1> QED
  BY <1>1, <1>2, <1>3 DEF CallNext

THEOREM CallInvariant == CallSpec => [](IInv /\ EndInv /\ CallInv)
<1>1. CallInit => Init
  BY DEF CallInit
<1>2. Init => EndInv
  BY DEF Init, EndInv
<1>3. CallInit => IInv /\ EndInv /\ CallInv
  BY <1>1, <1>2, InitInv, CallInvInit
<1>4. IInv /\ EndInv /\ CallInv /\ [CallNext]_callVars => (IInv /\ EndInv /\ CallInv)'
  <2>1. IInv => TypeOK
    BY DEF IInv
  <2> QED
    BY <2>1, CallStepIsLoopStep, NextInv, EndStep, CallInvStep
<1> QED
  BY <1>3, <1>4, PTL DEF CallSpec

\* No target of the route is passed over: a call that ends with the error of its last target
\* has tried each as often as it may, whatever order the strategy gave them.
THEOREM AllTried == CallSpec => []EveryCandidateTried
<1>1. ASSUME IInv, EndInv, CallInv
      PROVE  EveryCandidateTried
  <2> SUFFICES ASSUME step = "done", reply = "error", err # "cancelled", NEW i \in DOMAIN Targeted
               PROVE  \E t \in DOMAIN attempts : /\ attempts[t] = Targeted[i]
                                                 /\ calls[t] = MaxTries \/ t \in unbound
    BY DEF EveryCandidateTried
  <2>1. stage = "loop"
    BY <1>1 DEF CallInv
  <2>2. TypeOK
    BY <1>1 DEF IInv
  <2>3. DOMAIN Targeted = 1..n /\ Relists(attempts, Targeted)
    BY <1>1, <2>1, <2>2, AttemptedIsProvider
  <2>4. PICK t \in 1..n : attempts[t] = Targeted[i]
    BY <2>3 DEF Relists
  <2>5. err \in {"failed", "bind"}
    BY <1>1, <2>2 DEF EndInv, TypeOK
  <2>6. target = n /\ (calls[n] = MaxTries \/ n \in unbound)
    BY <1>1, <2>5 DEF EndInv
  <2>7. n \in Nat /\ 1..n \subseteq Targets
    BY <2>2 DEF TypeOK
  <2>8. t < n => calls[t] = MaxTries \/ t \in unbound
    BY <1>1, <2>6, <2>7 DEF IInv, TargetsInv
  <2>9. calls[t] = MaxTries \/ t \in unbound
    BY <2>6, <2>7, <2>8
  <2> QED
    BY <2>3, <2>4, <2>9 DEF Relists
<1> QED
  BY <1>1, CallInvariant, PTL

\* Every upstream call, a fallback's and a retry's too, is made with a credential the
\* policies allow, unless they change their choice with the one they are shown.
THEOREM NoneDenied == CallSpec => []NoDeniedSecret
<1>1. ASSUME CallInv
      PROVE  NoDeniedSecret
  <2> SUFFICES ASSUME NEW s \in spent, Steady
               PROVE  Apply(snap.policies, key.org, <<typeOf(s[1]), s[2].id>>).verdict = "allow"
    BY DEF NoDeniedSecret
  <2>1. PICK a \in DOMAIN Asks : ask = Said(a)
    BY <1>1 DEF CallInv
  <2>2. ask.of = a /\ (ask.known <=> a \in Known)
    BY <2>1, SaidIs
  <2>3. PICK p \in DOMAIN snap.providers : s = <<p, ask.secret[p]>> /\ ask.secret[p] # Missing
    BY <1>1 DEF CallInv
  <2>4. a \in Known
    BY <1>1, <2>2 DEF CallInv
  <2>5. snap = Asks[a].snap /\ key = KeyOf(a)
    BY <2>1, <2>2, <2>4, SaidIs DEF snap, key
  <2>6. ask.secret[p] = bindProviderSecret(snap, key, snap.providers[p])
    <3> DEFINE s0 == Asks[a].snap
               secrets == [q \in DOMAIN s0.providers |-> bindProviderSecret(s0, KeyOf(a), s0.providers[q])]
    <3>1. ask.secret = secrets
      BY <2>1, <2>4, SaidIs, Zenon
    <3>2. p \in DOMAIN s0.providers
      BY <2>3, <2>5
    <3>3. ask.secret[p] = bindProviderSecret(s0, KeyOf(a), s0.providers[p])
      BY <3>1, <3>2
    <3> HIDE DEF s0
    <3>4. snap = s0 /\ key = KeyOf(a)
      BY <2>5 DEF s0
    <3> QED
      BY <3>3, <3>4, Zenon
  <2>7. \A i \in {"none"} \cup {d.id : d \in snap.credentials} :
          Apply(snap.policies, key.org, <<snap.providers[p].type, i>>).credential
            \in {"", Apply(snap.policies, key.org, NoContext).credential}
    <3> SUFFICES ASSUME NEW i \in {"none"} \cup {d.id : d \in snap.credentials}
                 PROVE  Selected(<<snap.providers[p].type, i>>) \in {"", Selected(NoContext)}
      BY DEF Selected
    <3>1. <<typeOf(p), i>> \in Contexts
      BY DEF Contexts
    <3> QED
      BY <3>1 DEF Steady, typeOf
  <2>8. Apply(snap.policies, key.org,
              <<snap.providers[p].type, bindProviderSecret(snap, key, snap.providers[p]).id>>).verdict = "allow"
    BY <2>3, <2>6, <2>7, BoundIsAllowed
  <2>9. s[1] = p /\ s[2] = bindProviderSecret(snap, key, snap.providers[p])
    BY <2>3, <2>6
  <2> QED
    BY <2>8, <2>9 DEF typeOf
<1> QED
  BY <1>1, CallInvariant, PTL
==================================================================================
