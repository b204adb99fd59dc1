------------------------- MODULE ConsolePagesProofs -------------------------
(***************************************************************************)
(* What the console accepts is one state of the server, and it gives up    *)
(* only for a reason: for every page size and page limit that holds two    *)
(* records per tracked target, every catalog and any number of restarts.   *)
(* The argument has three parts: the records of a state are listed         *)
(* completely and without repetition; the slices of consecutive pages      *)
(* adjoin; and a cursor the server accepts names the state whose first     *)
(* pages the reader holds, because the revision changes with every record. *)
(***************************************************************************)
EXTENDS ConsolePages, ScenarioControllerProofs, SequenceTheorems


-----------------------------------------------------------------------------
(* Listing a map in the order of its keys.                                 *)

(* `below` gives every key of a finite map the keys that come before it.   *)
Ordered(below) ==
  /\ IsFiniteSet(DOMAIN below)
  /\ \A k \in DOMAIN below : below[k] \subseteq DOMAIN below /\ k \notin below[k]
  /\ \A j, k \in DOMAIN below : j # k => j \in below[k] \/ k \in below[j]
  /\ \A j, k \in DOMAIN below : j \in below[k] => below[j] \subseteq below[k]

(* In such an order every rank below the number of keys is taken by        *)
(* exactly one key.                                                        *)
LEMMA RanksAreTaken ==
  ASSUME NEW below, Ordered(below)
  PROVE  /\ Cardinality(DOMAIN below) \in Nat
         /\ \A i \in 1..Cardinality(DOMAIN below) :
              \E k \in DOMAIN below : Cardinality(below[k]) = i - 1
  <1> DEFINE S == DOMAIN below
             n == Cardinality(S)
             rank == [k \in S |-> Cardinality(below[k])]
  <1>1. IsFiniteSet(S) /\ n \in Nat
    BY FS_CardinalityType DEF Ordered
  <1>2. ASSUME NEW k \in S PROVE IsFiniteSet(below[k]) /\ rank[k] \in 0..(n - 1)
    <2>1. below[k] \in SUBSET S /\ below[k] # S
      BY DEF Ordered
    <2>2. IsFiniteSet(below[k]) /\ Cardinality(below[k]) <= n /\ Cardinality(below[k]) # n
      BY <1>1, <2>1, FS_Subset
    <2>3. Cardinality(below[k]) \in Nat
      BY <2>2, FS_CardinalityType
    <2> QED
      BY <1>1, <2>2, <2>3
  <1>3. ASSUME NEW j \in S, NEW k \in S, j \in below[k] PROVE rank[j] # rank[k]
    <2>1. below[j] \in SUBSET below[k] /\ below[j] # below[k]
      BY <1>3 DEF Ordered
    <2>2. Cardinality(below[j]) # Cardinality(below[k])
      BY <1>2, <2>1, FS_Subset
    <2> QED
      BY <2>2
  <1>4. \A j, k \in S : rank[j] = rank[k] => j = k
    BY <1>3 DEF Ordered
  <1>5. rank \in Injection(S, 0..(n - 1))
    <2>1. rank \in [S -> 0..(n - 1)]
      BY <1>2
    <2>2. DOMAIN rank = S
      OBVIOUS
    <2> HIDE DEF rank
    <2> QED
      BY <1>4, <2>1, <2>2 DEF Injection, IsInjective
  <1>6. IsFiniteSet(0..(n - 1)) /\ Cardinality(0..(n - 1)) = n
    BY <1>1, FS_Interval, SMTT(40)
  <1>7. rank \in Surjection(S, 0..(n - 1))
    <2> HIDE DEF rank, n, S
    <2>1. Cardinality(S) = Cardinality(0..(n - 1))
      BY <1>6 DEF n
    <2> QED
      BY <1>5, <1>6, <2>1, FS_Injection
  <1>8. \A r \in 0..(n - 1) : \E k \in S : rank[k] = r
    <2> HIDE DEF rank, n, S
    <2> QED
      BY <1>7 DEF Surjection
  <1> QED
    BY <1>1, <1>8

(* Iteration in that order meets every key once.                           *)
LEMMA InOrderIsInjective ==
  ASSUME NEW below, Ordered(below)
  PROVE  /\ Cardinality(DOMAIN below) \in Nat
         /\ InOrder(below) \in [1..Cardinality(DOMAIN below) -> DOMAIN below]
         /\ IsInjective(InOrder(below))
  <1> DEFINE s == InOrder(below)
  <1>1. \A i \in 1..Cardinality(DOMAIN below) :
          s[i] \in DOMAIN below /\ Cardinality(below[s[i]]) = i - 1
    BY RanksAreTaken DEF InOrder
  <1>2. DOMAIN s = 1..Cardinality(DOMAIN below)
    BY DEF InOrder
  <1>3. \A i, j \in DOMAIN s : s[i] = s[j] => i = j
    BY <1>1, <1>2, RanksAreTaken
  <1>4. s = [i \in 1..Cardinality(DOMAIN below) |-> s[i]]
    BY DEF InOrder
  <1> QED
    BY <1>1, <1>2, <1>3, <1>4, RanksAreTaken DEF IsInjective

(* The records of a map, listed: as many as the map has keys, under        *)
(* distinct keys.                                                          *)
Lists(list, map) ==
  /\ list \in Seq(Range(list))
  /\ Len(list) = Cardinality(DOMAIN map)
  /\ \A i \in DOMAIN list : list[i][1] \in DOMAIN map /\ list[i][2] = map[list[i][1]]
  /\ IsInjective([i \in DOMAIN list |-> list[i][1]])

(* Listing in order does that.                                             *)
LEMMA ListedInOrder ==
  ASSUME NEW map, NEW below, DOMAIN below = DOMAIN map, Ordered(below)
  PROVE  Lists(Listed(map, InOrder(below)), map)
  <1> DEFINE s == InOrder(below)
             l == Listed(map, s)
             n == Cardinality(DOMAIN map)
  <1>1. n \in Nat /\ s \in [1..n -> DOMAIN map] /\ IsInjective(s)
    BY InOrderIsInjective
  <1>2. /\ DOMAIN l = 1..n
        /\ \A i \in 1..n : l[i][1] = s[i] /\ l[i][2] = map[s[i]]
        /\ l \in [1..n -> Range(l)]
    BY <1>1 DEF Listed, Range
  <1>3. l \in Seq(Range(l)) /\ Len(l) = n
    <2> HIDE DEF l, n
    <2> QED
      BY <1>1, <1>2
  <1>4. IsInjective([i \in DOMAIN l |-> l[i][1]])
    <2> HIDE DEF l, n, s
    <2> QED
      BY <1>1, <1>2 DEF IsInjective
  <1>5. \A i \in DOMAIN l : l[i][1] \in DOMAIN map /\ l[i][2] = map[l[i][1]]
    <2> HIDE DEF l, n, s
    <2> QED
      BY <1>1, <1>2
  <1> QED
    BY <1>3, <1>4, <1>5 DEF Lists

(* Streams and connections order the targets strictly and totally.         *)
LEMMA TargetsAreOrdered ==
  /\ \A a \in ScenarioTarget : ~TargetOrder(a, a)
  /\ \A a, b \in ScenarioTarget : a # b => TargetOrder(a, b) \/ TargetOrder(b, a)
  /\ \A a, b, c \in ScenarioTarget :
       TargetOrder(a, b) /\ TargetOrder(b, c) => TargetOrder(a, c)
  <1>1. ASSUME NEW t \in [type: {"Endpoint"}, stream_id: Streams]
        PROVE  /\ t.stream_id \in Nat
               /\ t.type = "Endpoint"
               /\ t = [type |-> "Endpoint", stream_id |-> t.stream_id]
    BY OrderAssumption
  <1>2. ASSUME NEW t \in [type: {"Pdc"}, stream_id: Streams, connection_id: Connections]
        PROVE  /\ t.stream_id \in Nat /\ t.connection_id \in Nat
               /\ t.type = "Pdc"
               /\ t = [type |-> "Pdc", stream_id |-> t.stream_id,
                       connection_id |-> t.connection_id]
    BY OrderAssumption
  <1>0. \A t \in ScenarioTarget :
          /\ t.stream_id \in Nat
          /\ \/ t.type = "Endpoint" /\ t = [type |-> "Endpoint", stream_id |-> t.stream_id]
             \/ /\ t.type = "Pdc" /\ t.connection_id \in Nat
                /\ t = [type |-> "Pdc", stream_id |-> t.stream_id,
                        connection_id |-> t.connection_id]
    BY <1>1, <1>2 DEF ScenarioTarget
  <1>3. \A a \in ScenarioTarget : ~TargetOrder(a, a)
    BY <1>0 DEF TargetOrder
  <1>4. ASSUME NEW a \in ScenarioTarget, NEW b \in ScenarioTarget,
               ~TargetOrder(a, b), ~TargetOrder(b, a)
        PROVE  a = b
    <2>1. a.type = b.type /\ a.stream_id = b.stream_id
      <3>1. a.type = "Endpoint" \/ a.type = "Pdc"
        BY <1>0
      <3>2. b.type = "Endpoint" \/ b.type = "Pdc"
        BY <1>0
      <3>3. a.stream_id \in Nat /\ b.stream_id \in Nat
        BY <1>0
      <3> QED
        BY <1>4, <3>1, <3>2, <3>3 DEF TargetOrder
    <2>2. a.type = "Pdc" => a.connection_id = b.connection_id
      <3>1. a.type = "Pdc" => a.connection_id \in Nat
        BY <1>0
      <3>2. b.type = "Pdc" => b.connection_id \in Nat
        BY <1>0
      <3> QED
        BY <1>4, <2>1, <3>1, <3>2 DEF TargetOrder
    <2> QED
      BY <1>0, <2>1, <2>2
  <1>5. ASSUME NEW a \in ScenarioTarget, NEW b \in ScenarioTarget, NEW c \in ScenarioTarget,
               TargetOrder(a, b), TargetOrder(b, c)
        PROVE  TargetOrder(a, c)
    <2>1. /\ a.stream_id \in Nat /\ b.stream_id \in Nat /\ c.stream_id \in Nat
          /\ a.type = "Pdc" => a.connection_id \in Nat
          /\ b.type = "Pdc" => b.connection_id \in Nat
          /\ c.type = "Pdc" => c.connection_id \in Nat
      BY <1>0
    <2> QED
      BY <1>5, <2>1 DEF TargetOrder
  <1> QED
    BY <1>3, <1>4, <1>5

(* A finite map of targets is listed completely and without repetition.    *)
LEMMA ByTargetLists ==
  ASSUME NEW map, IsFiniteSet(DOMAIN map), DOMAIN map \subseteq ScenarioTarget
  PROVE  Lists(ByTarget(map), map)
  <1> DEFINE below == [k \in DOMAIN map |-> {j \in DOMAIN map : TargetOrder(j, k)}]
  <1>1. Ordered(below)
    <2>1. DOMAIN below = DOMAIN map
      OBVIOUS
    <2>2. \A k \in DOMAIN map : below[k] = {j \in DOMAIN map : TargetOrder(j, k)}
      OBVIOUS
    <2> HIDE DEF below
    <2> QED
      BY <2>1, <2>2, TargetsAreOrdered DEF Ordered
  <1> QED
    BY <1>1, ListedInOrder DEF ByTarget

(* So is a finite map of tokens.                                           *)
LEMMA ByTokenLists ==
  ASSUME NEW map, IsFiniteSet(DOMAIN map), DOMAIN map \subseteq Nat
  PROVE  Lists(ByToken(map), map)
  <1> DEFINE below == [k \in DOMAIN map |-> {j \in DOMAIN map : j < k}]
  <1>1. Ordered(below)
    <2>1. DOMAIN below = DOMAIN map
      OBVIOUS
    <2>2. \A k \in DOMAIN map : below[k] = {j \in DOMAIN map : j < k}
      OBVIOUS
    <2> HIDE DEF below
    <2> QED
      BY <2>1, <2>2 DEF Ordered
  <1> QED
    BY <1>1, ListedInOrder DEF ByToken

(* What is served is well formed: three sequences of records under         *)
(* distinct keys, all about endpoints of the fleet.                        *)
WellFormed(r) ==
  /\ r = [prepared |-> r.prepared, pending |-> r.pending, active |-> r.active]
  /\ \A part \in Parts : /\ r[part] \in Seq(Range(r[part]))
                         /\ IsInjective([i \in DOMAIN r[part] |-> r[part][i][1]])
  /\ assertTargetsMatchEndpoints(r)
(* Every reachable controller serves such records.                         *)
LEMMA ServedIsWellFormed ==
  ASSUME IInv, CapacityInv
  PROVE  /\ WellFormed(Served.records)
         /\ Total(Served.records) <= 2 * MAX_SCENARIO_TARGETS
  <1>1. /\ IsFiniteSet(Tracked) /\ Cardinality(Tracked) \in Nat
        /\ Cardinality(Tracked) <= MAX_SCENARIO_TARGETS
    BY FS_CardinalityType DEF CapacityInv
  <1>2. /\ DOMAIN prepared_targets \in SUBSET Tracked
        /\ DOMAIN pending \in SUBSET Tracked
        /\ DOMAIN active \in SUBSET Tracked
    BY DEF Tracked, TrackedTargets
  <1>3. /\ IsFiniteSet(DOMAIN prepared_targets)
        /\ IsFiniteSet(DOMAIN pending) /\ IsFiniteSet(DOMAIN active)
        /\ Cardinality(DOMAIN active) <= Cardinality(Tracked)
    BY <1>1, <1>2, FS_Subset
  <1>4. IsFiniteSet(DOMAIN prepared) /\ DOMAIN prepared \subseteq Nat
    BY DroppedIsFinite DEF IInv, TypeOK
  <1>5. /\ Lists(ByToken(prepared), prepared)
        /\ Lists(ByTarget(pending), pending)
        /\ Lists(ByTarget(active), active)
    BY <1>3, <1>4, ByTokenLists, ByTargetLists DEF IInv, TypeOK
  <1>6. WellFormed(Served.records)
    <2> DEFINE r == Served.records
    <2>1. r = [prepared |-> ByToken(prepared), pending |-> ByTarget(pending),
               active |-> ByTarget(active)]
      BY DEF Served
    <2>2. Parts = {"prepared", "pending", "active"}
      BY DEF Parts, NoRecords
    <2>3. \A t \in ScenarioTarget : t.stream_id \in Streams
      BY DEF ScenarioTarget
    <2>4. /\ \A k \in DOMAIN prepared : prepared[k].target \in ScenarioTarget
          /\ DOMAIN pending \subseteq ScenarioTarget /\ DOMAIN active \subseteq ScenarioTarget
      BY DEF IInv, TypeOK, PreparedScenarioAction
    <2> HIDE DEF r
    <2>5. assertTargetsMatchEndpoints(r)
      <3>1. /\ r.prepared = ByToken(prepared)
            /\ r.pending = ByTarget(pending) /\ r.active = ByTarget(active)
        BY <2>1
      <3>2. \A i \in DOMAIN r.prepared : r.prepared[i][2].target.stream_id \in Streams
        <4>1. \A i \in DOMAIN r.prepared :
                /\ r.prepared[i][1] \in DOMAIN prepared
                /\ r.prepared[i][2] = prepared[r.prepared[i][1]]
          BY <1>5, <3>1 DEF Lists
        <4>2. \A k \in DOMAIN prepared : prepared[k].target.stream_id \in Streams
          BY <2>3, <2>4
        <4> QED
          BY <4>1, <4>2
      <3>3. /\ \A i \in DOMAIN r.pending : r.pending[i][1].stream_id \in Streams
            /\ \A i \in DOMAIN r.active : r.active[i][1].stream_id \in Streams
        BY <1>5, <2>3, <2>4, <3>1 DEF Lists
      <3> QED
        BY <2>2, <3>2, <3>3 DEF assertTargetsMatchEndpoints, TargetOf
    <2> QED
      BY <1>5, <2>1, <2>2, <2>5 DEF WellFormed, Lists, r
  <1>7. Cardinality(DOMAIN prepared) <= Cardinality(DOMAIN prepared_targets)
    <2> DEFINE f == [k \in DOMAIN prepared |-> prepared[k].target]
    <2>1. f \in [DOMAIN prepared -> DOMAIN prepared_targets]
      BY DEF IInv, PreparationsAreIndexed
    <2>2. \A j, k \in DOMAIN prepared : f[j] = f[k] => j = k
      BY DEF IInv, PreparationsAreIndexed
    <2>3. DOMAIN f = DOMAIN prepared
      OBVIOUS
    <2> HIDE DEF f
    <2>4. f \in Injection(DOMAIN prepared, DOMAIN prepared_targets)
      BY <2>1, <2>2, <2>3 DEF Injection, IsInjective
    <2> QED
      BY <1>3, <2>4, FS_Injection
  <1>8. DOMAIN prepared_targets \cap DOMAIN pending = {}
    <2> SUFFICES ASSUME NEW t \in DOMAIN prepared_targets PROVE t \notin DOMAIN pending
      OBVIOUS
    <2>1. prepared_targets[t] \in DOMAIN prepared /\ prepared[prepared_targets[t]].target = t
      BY DEF IInv, TypeOK, PreparationsAreIndexed
    <2> QED
      BY <2>1 DEF IInv, ActionsStayApplicable
  <1>9. Cardinality(DOMAIN prepared_targets) + Cardinality(DOMAIN pending)
          <= Cardinality(Tracked)
    <2> DEFINE P == DOMAIN prepared_targets
               Q == DOMAIN pending
    <2>1. Cardinality(P \cup Q) = Cardinality(P) + Cardinality(Q) - Cardinality(P \cap Q)
      BY <1>3, FS_Union
    <2>2. Cardinality(P \cap Q) = 0
      BY <1>8, FS_EmptySet
    <2>3. P \cup Q \in SUBSET Tracked
      BY <1>2
    <2>4. Cardinality(P \cup Q) <= Cardinality(Tracked)
      BY <1>1, <2>3, FS_Subset
    <2>5. Cardinality(P) \in Nat /\ Cardinality(Q) \in Nat
      BY <1>3, FS_CardinalityType
    <2> HIDE DEF P, Q
    <2>6. Cardinality(P) + Cardinality(Q) <= Cardinality(Tracked)
      BY <2>1, <2>2, <2>4, <2>5
    <2> QED
      BY <2>6 DEF P, Q
  <1>10. Total(Served.records) =
           Cardinality(DOMAIN prepared) + Cardinality(DOMAIN pending)
             + Cardinality(DOMAIN active)
    BY <1>5 DEF Total, Served, Lists
  <1>11. /\ Cardinality(DOMAIN prepared) \in Nat
         /\ Cardinality(DOMAIN prepared_targets) \in Nat
         /\ Cardinality(DOMAIN pending) \in Nat
         /\ Cardinality(DOMAIN active) \in Nat
    BY <1>3, <1>4, FS_CardinalityType
  <1>12. Total(Served.records) <= 2 * MAX_SCENARIO_TARGETS
    <2>1. Total(Served.records) <= 2 * Cardinality(Tracked)
      BY <1>1, <1>3, <1>7, <1>9, <1>10, <1>11
    <2> QED
      BY <1>1, <1>10, <1>11, <2>1, BoundsAssumption
  <1> QED
    BY <1>6, <1>12

-----------------------------------------------------------------------------
(* Consecutive pages.                                                      *)

(* The first n records of the three lists, in the order of the pages.      *)
Taken(r, n) ==
  [prepared |-> SubSeq(r.prepared, 1, Least(n, Len(r.prepared))),
   pending  |-> SubSeq(r.pending, 1, Least(SaturatingSub(n, Len(r.prepared)), Len(r.pending))),
   active   |-> SubSeq(r.active, 1, Least(SaturatingSub(n, Len(r.prepared) + Len(r.pending)),
                                          Len(r.active)))]

(* A slice continues the records in front of it.                           *)
LEMMA SlicesAdjoin ==
  ASSUME NEW S, NEW s \in Seq(S), NEW skip \in 0..Len(s), NEW take \in Nat
  PROVE  /\ Len(s) \in Nat
         /\ SkipTake(s, skip, take) \in Seq(S)
         /\ Len(SkipTake(s, skip, take)) = Least(take, Len(s) - skip)
         /\ SubSeq(s, 1, skip) \o SkipTake(s, skip, take)
              = SubSeq(s, 1, Least(skip + take, Len(s)))
  <1> DEFINE e == Least(skip + take, Len(s))
  <1>0. Len(s) \in Nat /\ DOMAIN s = 1..Len(s) /\ \A i \in 1..Len(s) : s[i] \in S
    BY LenProperties, ElementOfSeq
  <1>1. e \in skip..Len(s) /\ e - skip = Least(take, Len(s) - skip)
    BY <1>0 DEF Least
  <1> HIDE DEF e
  <1>2. /\ SubSeq(s, skip + 1, e) \in Seq(S)
        /\ Len(SubSeq(s, skip + 1, e)) = e - skip
    BY <1>0, <1>1, SubSeqProperties
  <1>3. SubSeq(s, 1, skip) \o SubSeq(s, skip + 1, e) = SubSeq(s, 1, e)
    <2>1. 1 \in 1..(Len(s) + 1) /\ skip \in (1 - 1)..Len(s)
      BY <1>0
    <2> QED
      BY <1>0, <1>1, <2>1, ConcatAdjacentSubSeq
  <1> QED
    BY <1>0, <1>1, <1>2, <1>3 DEF SkipTake, e

(* The parts of well-formed records.                                       *)
LEMMA PartsAre ==
  /\ Parts = {"prepared", "pending", "active"}
  /\ \A r : WellFormed(r) =>
       /\ r.prepared \in Seq(Range(r.prepared)) /\ Len(r.prepared) \in Nat
       /\ r.pending \in Seq(Range(r.pending)) /\ Len(r.pending) \in Nat
       /\ r.active \in Seq(Range(r.active)) /\ Len(r.active) \in Nat
  <1>1. Parts = {"prepared", "pending", "active"}
    BY DEF Parts, NoRecords
  <1> QED
    BY <1>1, LenProperties DEF WellFormed

(* Their number.                                                           *)
LEMMA TotalIsNat ==
  ASSUME NEW r, WellFormed(r)
  PROVE  Total(r) \in Nat
  <1> DEFINE p == Len(r.prepared)
             q == Len(r.pending)
             a == Len(r.active)
  <1>1. p \in Nat /\ q \in Nat /\ a \in Nat /\ Total(r) = p + q + a
    BY PartsAre DEF Total
  <1> HIDE DEF p, q, a
  <1> QED
    BY <1>1

(* A page continues the pages in front of it: it is full or it is the      *)
(* last, and together they are the records up to its end.                  *)
LEMMA PagesAdjoin ==
  ASSUME NEW r, WellFormed(r), NEW n \in 0..Total(r),
         NEW page, page = management_console_lifecycle_page(r, n)
  PROVE  /\ Total(r) \in Nat
         /\ Total(page) = Least(CONSOLE_LIFECYCLE_RECORDS_PER_PAGE, Total(r) - n)
         /\ [part \in Parts |-> Taken(r, n)[part] \o page[part]]
              = Taken(r, n + Total(page))
  <1> DEFINE N == CONSOLE_LIFECYCLE_RECORDS_PER_PAGE
             p == Len(r.prepared)
             q == Len(r.pending)
             a == Len(r.active)
             x == Least(n, p)
             y == Least(SaturatingSub(n, p), q)
             z == Least(SaturatingSub(n, p + q), a)
             k == Least(N, p - x)
             l == Least(N - k, q - y)
             m == Least(N - k - l, a - z)
             A == SkipTake(r.prepared, x, N)
             B == SkipTake(r.pending, y, N - k)
             C == SkipTake(r.active, z, N - k - l)
  <1>1. /\ p \in Nat /\ q \in Nat /\ a \in Nat /\ N \in Nat
        /\ Total(r) = p + q + a
    BY PartsAre, PagesAssumption, SMTT(40) DEF Total
  <1> HIDE DEF p, q, a, N
  <1>2. /\ x \in 0..p /\ y \in 0..q /\ z \in 0..a
        /\ k \in Nat /\ l \in Nat /\ m \in Nat /\ N - k \in Nat /\ N - k - l \in Nat
        /\ k + l + m = Least(N, p + q + a - n)
        /\ Least(n + (k + l + m), p) = Least(x + N, p)
        /\ Least(SaturatingSub(n + (k + l + m), p), q) = Least(y + (N - k), q)
        /\ Least(SaturatingSub(n + (k + l + m), p + q), a) = Least(z + (N - k - l), a)
    <2>1. n \in 0..(p + q + a)
      BY <1>1
    <2> QED
      BY <1>1, <2>1 DEF Least, SaturatingSub
  <1> HIDE DEF x, y, z
  <1>3. /\ Len(A) = k
        /\ SubSeq(r.prepared, 1, x) \o A = SubSeq(r.prepared, 1, Least(x + N, p))
    <2>1. r.prepared \in Seq(Range(r.prepared)) /\ x \in 0..Len(r.prepared) /\ N \in Nat
      BY <1>1, <1>2, PartsAre DEF p, q, a
    <2> QED
      BY <2>1, SlicesAdjoin DEF p, q, a
  <1>4. /\ Len(B) = l
        /\ SubSeq(r.pending, 1, y) \o B = SubSeq(r.pending, 1, Least(y + (N - k), q))
    <2>1. r.pending \in Seq(Range(r.pending)) /\ y \in 0..Len(r.pending) /\ N - k \in Nat
      BY <1>1, <1>2, PartsAre DEF p, q, a
    <2> HIDE DEF k
    <2> QED
      BY <2>1, SlicesAdjoin DEF p, q, a
  <1>5. /\ Len(C) = m
        /\ SubSeq(r.active, 1, z) \o C = SubSeq(r.active, 1, Least(z + (N - k - l), a))
    <2>1. /\ r.active \in Seq(Range(r.active)) /\ z \in 0..Len(r.active)
          /\ N - k - l \in Nat
      BY <1>1, <1>2, PartsAre DEF p, q, a
    <2> HIDE DEF k, l
    <2> QED
      BY <2>1, SlicesAdjoin DEF p, q, a
  <1>6. page = [prepared |-> A, pending |-> B, active |-> C]
    <2>1. page = [prepared |-> A, pending |-> SkipTake(r.pending, y, N - Len(A)),
                  active |-> SkipTake(r.active, z, N - Len(A) - Len(SkipTake(r.pending, y, N - Len(A))))]
      BY DEF management_console_lifecycle_page, x, y, z, N, p, q, a
    <2>2. SkipTake(r.pending, y, N - Len(A)) = B
      BY <1>3
    <2>3. SkipTake(r.active, z, N - Len(A) - Len(B)) = C
      BY <1>3, <1>4
    <2> HIDE DEF A, B, C
    <2> QED
      BY <2>1, <2>2, <2>3
  <1> HIDE DEF k, l, m, A, B, C
  <1>7. Total(page) = k + l + m
    <2>1. Len(page.prepared) = k /\ Len(page.pending) = l /\ Len(page.active) = m
      BY <1>3, <1>4, <1>5, <1>6
    <2> QED
      BY <1>2, <2>1 DEF Total
  <1>8. [part \in Parts |-> Taken(r, n)[part] \o page[part]] = Taken(r, n + Total(page))
    <2> DEFINE X == SubSeq(r.prepared, 1, x)
               Y == SubSeq(r.pending, 1, y)
               Z == SubSeq(r.active, 1, z)
               T == Taken(r, n)
               U == Taken(r, n + Total(page))
    <2>1. T = [prepared |-> X, pending |-> Y, active |-> Z]
      BY DEF Taken, x, y, z, p, q, a
    <2>2. U = [prepared |-> X \o A, pending |-> Y \o B, active |-> Z \o C]
      BY <1>2, <1>3, <1>4, <1>5, <1>7 DEF Taken, p, q, a
    <2> HIDE DEF T, U, X, Y, Z
    <2>3. /\ T.prepared = X /\ T.pending = Y /\ T.active = Z
          /\ page.prepared = A /\ page.pending = B /\ page.active = C
      BY <1>6, <2>1
    <2>4. U.prepared = X \o A /\ U.pending = Y \o B /\ U.active = Z \o C
      BY <2>2
    <2>5. \A part \in Parts : T[part] \o page[part] = U[part]
      BY <2>3, <2>4, PartsAre
    <2>6. U = [part \in Parts |-> U[part]]
      BY <2>2, PartsAre
    <2> QED
      BY <2>5, <2>6 DEF T, U
  <1>9. Total(page) = Least(CONSOLE_LIFECYCLE_RECORDS_PER_PAGE, Total(r) - n)
    <2>1. p + q + a - n = Total(r) - n
      BY <1>1
    <2> QED
      BY <1>2, <1>7, <2>1 DEF N
  <1>10. Total(r) \in Nat
    BY <1>1
  <1> QED
    BY <1>8, <1>9, <1>10

(* What is taken at the beginning and at the end.                          *)
LEMMA TakenEnds ==
  ASSUME NEW r, WellFormed(r)
  PROVE  Taken(r, 0) = NoRecords /\ Taken(r, Total(r)) = r
  <1> DEFINE p == Len(r.prepared)
             q == Len(r.pending)
             a == Len(r.active)
  <1>1. p \in Nat /\ q \in Nat /\ a \in Nat
    BY PartsAre
  <1>2. /\ Least(0, p) = 0 /\ Least(SaturatingSub(0, p), q) = 0
        /\ Least(SaturatingSub(0, p + q), a) = 0
        /\ Least(p + q + a, p) = p /\ Least(SaturatingSub(p + q + a, p), q) = q
        /\ Least(SaturatingSub(p + q + a, p + q), a) = a
    <2> HIDE DEF p, q, a
    <2> QED
      BY <1>1 DEF Least, SaturatingSub
  <1>3. /\ SubSeq(r.prepared, 1, 0) = << >> /\ SubSeq(r.pending, 1, 0) = << >>
        /\ SubSeq(r.active, 1, 0) = << >>
    BY SubSeqEmpty
  <1>4. /\ SubSeq(r.prepared, 1, p) = r.prepared /\ SubSeq(r.pending, 1, q) = r.pending
        /\ SubSeq(r.active, 1, a) = r.active
    BY PartsAre, SubSeqFull
  <1>5. Taken(r, 0) = NoRecords
    BY <1>2, <1>3 DEF Taken, NoRecords
  <1>6. Taken(r, Total(r)) = r
    BY <1>2, <1>4 DEF Taken, Total, WellFormed
  <1> QED
    BY <1>5, <1>6

PerPage == CONSOLE_LIFECYCLE_RECORDS_PER_PAGE

(* Where a load asks the server to go on.                                  *)
Offset(load) == IF load.cursor = None THEN 0 ELSE load.cursor.offset

(* A load has read the first pages of s and nothing else.                  *)
Continues(load, s) ==
  /\ load.pages \in Nat
  /\ Offset(load) \in 0..Total(s.records)
  /\ Offset(load) = load.pages * PerPage
  /\ load.records = Taken(s.records, Offset(load))
  /\ load.baseline # None =>
       /\ load.baseline.process = s.process
       /\ load.baseline.revision = s.revision
       /\ load.baseline.counts = Counts(s.records)

(* What an answer of the server that is no error says.                     *)
LEMMA PageContent ==
  ASSUME NEW s, NEW cursor, NEW page, NEW n, NEW part, NEW total,
         n = IF cursor = None THEN 0 ELSE cursor.offset,
         part = management_console_lifecycle_page(s.records, n),
         total = Total(s.records),
         page = management_console_state_response(s, cursor),
         "error" \notin DOMAIN page
  PROVE  /\ cursor # None => ~IsStale(s, cursor)
         /\ page = [process |-> s.process, revision |-> s.revision, content |-> s.content,
                    facts |-> s.facts, records |-> part, counts |-> Counts(s.records),
                    next_cursor |-> IF n + Total(part) < total
                                      THEN console_cursor(s, n + Total(part)) ELSE None]
  <1>1. "error" \in DOMAIN ErrorPage("stale_console_cursor")
    BY DEF ErrorPage
  <1>2. "error" \in DOMAIN ErrorPage("invalid_console_cursor")
    BY DEF ErrorPage
  <1> QED
    BY <1>1, <1>2 DEF management_console_state_response

(* A cursor is not None.                                                   *)
LEMMA CursorIsSome ==
  \A s, n : /\ console_cursor(s, n) # None
            /\ console_cursor(s, n).process = s.process
            /\ console_cursor(s, n).revision = s.revision
            /\ console_cursor(s, n).offset = n
  <1> SUFFICES ASSUME NEW s, NEW n PROVE console_cursor(s, n) # None
    BY DEF console_cursor
  <1>1. "process" \in DOMAIN console_cursor(s, n)
    BY DEF console_cursor
  <1>2. "process" \notin DOMAIN None
    BY DEF None
  <1> QED
    BY <1>1, <1>2

(* The page limit leaves room for every load: pages that are not the last  *)
(* are full.                                                               *)
LEMMA RoomForMore ==
  ASSUME NEW pages \in Nat, NEW total \in Nat, total <= 2 * MAX_SCENARIO_TARGETS,
         (pages + 1) * PerPage < total
  PROVE  pages + 1 < MAX_CONSOLE_PAGES
  <1>1. /\ PerPage \in Nat \ {0} /\ MAX_CONSOLE_PAGES \in Nat /\ MAX_SCENARIO_TARGETS \in Nat
        /\ MAX_CONSOLE_PAGES * PerPage >= 2 * MAX_SCENARIO_TARGETS
    BY PagesAssumption, BoundsAssumption DEF PerPage
  <1>2. (pages + 1) * PerPage < MAX_CONSOLE_PAGES * PerPage
    <2>1. (pages + 1) * PerPage \in Nat /\ MAX_CONSOLE_PAGES * PerPage \in Nat
      BY <1>1
    <2> QED
      BY <1>1, <2>1
  <1>3. ASSUME NEW a \in Nat, NEW b \in Nat, NEW c \in Nat, a >= b PROVE a * c >= b * c
    <2>1. PICK d \in Nat : a = b + d
      <3>1. a - b \in Nat /\ a = b + (a - b)
        BY <1>3
      <3> QED
        BY <3>1
    <2>2. (b + d) * c = b * c + d * c
      OBVIOUS
    <2>3. d * c \in Nat /\ b * c \in Nat
      OBVIOUS
    <2> QED
      BY <2>1, <2>2, <2>3
  <1>4. pages + 1 >= MAX_CONSOLE_PAGES => (pages + 1) * PerPage >= MAX_CONSOLE_PAGES * PerPage
    BY <1>1, <1>3
  <1>5. (pages + 1) * PerPage \in Nat /\ MAX_CONSOLE_PAGES * PerPage \in Nat
    BY <1>1
  <1> QED
    BY <1>1, <1>2, <1>4, <1>5

(* What the next page does to such a load: it disagrees with the first     *)
(* page only about facts; the last page completes the records; any other   *)
(* is full, and the load goes on from its end.                             *)
LEMMA NextPage ==
  ASSUME NEW s, WellFormed(s.records), Total(s.records) <= 2 * MAX_SCENARIO_TARGETS,
         NEW load, Continues(load, s),
         NEW page, page = management_console_state_response(s, load.cursor),
         "error" \notin DOMAIN page
  PROVE  /\ page.process = s.process /\ page.revision = s.revision
         /\ page.content = s.content /\ page.facts = s.facts
         /\ page.counts = Counts(s.records)
         /\ load.baseline # None /\ ~AgreesWithBaseline(load, page)
              => s.facts # load.baseline.facts
         /\ load.baseline # None /\ AgreesWithBaseline(load, page)
              => s.facts = load.baseline.facts
         /\ load.baseline = None => AgreesWithBaseline(load, page)
         /\ page.next_cursor = None =>
              /\ IsWhole(load, page)
              /\ Appended(load.records, page) = s.records
         /\ page.next_cursor # None =>
              /\ MovesOn(load, page)
              /\ page.next_cursor = console_cursor(s, (load.pages + 1) * PerPage)
              /\ (load.pages + 1) * PerPage \in 1..(Total(s.records) - 1)
              /\ Appended(load.records, page) = Taken(s.records, (load.pages + 1) * PerPage)
  <1> DEFINE r == s.records
             n == Offset(load)
             part == management_console_lifecycle_page(r, n)
             total == Total(r)
             m == n + Total(part)
  <1>1. /\ n = IF load.cursor = None THEN 0 ELSE load.cursor.offset
        /\ n \in 0..total /\ n = load.pages * PerPage /\ load.pages \in Nat
        /\ load.records = Taken(r, n)
    BY DEF Continues, Offset
  <1>2. page = [process |-> s.process, revision |-> s.revision, content |-> s.content,
                facts |-> s.facts, records |-> part, counts |-> Counts(r),
                next_cursor |-> IF m < total THEN console_cursor(s, m) ELSE None]
    <2> HIDE DEF n, part, total
    <2> QED
      BY <1>1, PageContent DEF part, total
  <1>3. /\ total \in Nat
        /\ Total(part) = Least(PerPage, total - n)
        /\ [p \in Parts |-> Taken(r, n)[p] \o part[p]] = Taken(r, m)
    BY <1>1, PagesAdjoin DEF PerPage
  <1>4. PerPage \in Nat \ {0}
    BY PagesAssumption DEF PerPage
  <1> HIDE DEF n, part, total, m, r
  <1>5. Appended(load.records, page) = Taken(r, m)
    <2>1. page.records = part
      BY <1>2
    <2> QED
      BY <1>1, <1>3, <2>1 DEF Appended
  <1>6. m \in Nat /\ m <= total /\ (m < total => m = n + PerPage)
    <2>1. n \in Nat /\ n <= total /\ total \in Nat /\ PerPage \in Nat
      BY <1>1, <1>3, <1>4
    <2> QED
      BY <1>3, <2>1 DEF Least, m
  <1>7. /\ page.process = s.process /\ page.revision = s.revision
        /\ page.content = s.content /\ page.facts = s.facts
        /\ page.counts = Counts(r)
        /\ page.next_cursor = IF m < total THEN console_cursor(s, m) ELSE None
    BY <1>2
  <1>8. /\ load.baseline # None /\ ~AgreesWithBaseline(load, page)
             => s.facts # load.baseline.facts
        /\ load.baseline # None /\ AgreesWithBaseline(load, page)
             => s.facts = load.baseline.facts
        /\ load.baseline = None => AgreesWithBaseline(load, page)
    BY <1>7 DEF AgreesWithBaseline, stablePageFingerprint, Continues, r
  <1>9. CASE m < total
    <2>1. /\ page.next_cursor # None
          /\ page.next_cursor = console_cursor(s, m)
          /\ page.next_cursor.offset = m
      BY <1>7, <1>9, CursorIsSome
    <2>2. m = (load.pages + 1) * PerPage
      BY <1>1, <1>4, <1>6, <1>9
    <2>3. load.pages + 1 < MAX_CONSOLE_PAGES
      BY <1>1, <1>3, <1>9, <2>2, RoomForMore DEF total, r
    <2>4. m > n
      BY <1>1, <1>4, <1>6, <1>9
    <2>5. MovesOn(load, page)
      BY <1>1, <2>1, <2>3, <2>4 DEF MovesOn
    <2>6. m \in 1..(total - 1)
      BY <1>1, <1>3, <1>6, <1>9, <2>4
    <2> QED
      BY <1>5, <1>7, <1>8, <2>1, <2>2, <2>5, <2>6 DEF r, total
  <1>10. CASE ~(m < total)
    <2>1. page.next_cursor = None
      BY <1>7, <1>10
    <2>2. m = total
      BY <1>3, <1>6, <1>10
    <2>3. Appended(load.records, page) = r
      BY <1>5, <2>2, TakenEnds DEF r, total
    <2>4. IsWhole(load, page)
      BY <1>7, <2>3 DEF IsWhole, assertUniqueLifecycleRecords, WellFormed, r
    <2> QED
      BY <1>7, <1>8, <2>1, <2>3, <2>4 DEF r
  <1> QED
    BY <1>9, <1>10

-----------------------------------------------------------------------------
(* The reader between its requests.                                        *)

(* The fields of a load.                                                   *)
LoadFields == {"at", "catalog", "cursor", "baseline", "records", "pages",
               "staleCursorRetried", "catalogRetried"}

(* A load before its first page.                                           *)
IsFirst(load) ==
  load.cursor = None /\ load.baseline = None /\ load.records = NoRecords /\ load.pages = 0

(* A load between two pages: its cursor names a state the server is in or  *)
(* has left, and while the server is in it, the load has its first pages.  *)
IsLater(load) ==
  /\ load.cursor # None
  /\ load.baseline # None
  /\ load.cursor.process \in Nat /\ load.cursor.revision \in Nat
  /\ load.cursor.process <= process
  /\ load.cursor.process = process => load.cursor.revision <= revision
  /\ load.cursor.process = process /\ load.cursor.revision = revision =>
       Continues(load, Served)

(* The inductive invariant of the reader and of the whole.                 *)
ReaderInv ==
  reader.at = "pages" =>
    DOMAIN reader = LoadFields /\ (IsFirst(reader) \/ IsLater(reader))
PagesInv == IInv /\ CapacityInv /\ process \in Nat /\ ReaderInv

(* The fields of a load and of its restarts.                               *)
LEMMA LoadIsFirst ==
  ASSUME NEW c, NEW retried, NEW stale
  PROVE  /\ IsFirst([Load(c) EXCEPT !.catalogRetried = retried])
         /\ IsFirst([Load(c) EXCEPT !.staleCursorRetried = stale, !.catalogRetried = retried])
         /\ DOMAIN [Load(c) EXCEPT !.catalogRetried = retried] = LoadFields
         /\ DOMAIN [Load(c) EXCEPT !.staleCursorRetried = stale, !.catalogRetried = retried]
              = LoadFields
         /\ [Load(c) EXCEPT !.staleCursorRetried = stale, !.catalogRetried = retried].at
              = "pages"
  BY DEF Load, IsFirst, LoadFields

(* The controller's part of the invariant, in every step of the pages.     *)
LEMMA ControllerPart ==
  ASSUME PagesInv, [PagesNext]_pageVars
  PROVE  /\ IInv' /\ CapacityInv' /\ process' \in Nat
         /\ \/ process' = process /\ [Next]_vars
            \/ process' = process + 1 /\ UNCHANGED reader
  <1>1. CASE process' = process /\ [Next]_vars
    BY <1>1, NextKeepsIInv, CapacityStep DEF PagesInv
  <1>2. CASE ProcessRestart
    <2>1. IInv'
      <3>1. TypeOK'
        BY <1>2, BoundsAssumption
           DEF ProcessRestart, TypeOK, EmptyMap, Reply, Calls, Results, PagesInv, IInv
      <3>2. PreparationsAreIndexed' /\ ActionsStayApplicable'
        BY <1>2 DEF ProcessRestart, EmptyMap, PreparationsAreIndexed, ActionsStayApplicable
      <3> QED
        BY <3>1, <3>2 DEF IInv
    <2>2. Tracked' = {}
      BY <1>2 DEF ProcessRestart, EmptyMap, TrackedTargets, Tracked
    <2>3. CapacityInv'
      BY <2>2, FS_EmptySet, BoundsAssumption DEF CapacityInv
    <2> QED
      BY <1>2, <2>1, <2>3 DEF ProcessRestart, PagesInv
  <1>3. CASE refresh \/ fetchCatalog \/ FetchFails \/ FactsChange \/ UNCHANGED pageVars
    BY <1>1, <1>3 DEF refresh, fetchCatalog, FetchFails, FactsChange, serverVars, pageVars
  <1>4. CASE fetchConsolePage \/ ControllerCall
    BY <1>1, <1>4 DEF fetchConsolePage, ControllerCall, Next
  <1> QED
    BY <1>1, <1>2, <1>3, <1>4 DEF PagesNext

(* While the server stays in the state a cursor names, the records stay.   *)
LEMMA CursorNamesState ==
  ASSUME PagesInv, [PagesNext]_pageVars, IsLater(reader), reader.at = "pages"
  PROVE  /\ reader.cursor.process <= process'
         /\ reader.cursor.process = process' => reader.cursor.revision <= revision'
         /\ reader.cursor.process = process' /\ reader.cursor.revision = revision' =>
              Continues(reader, Served')
  <1>1. CASE process' = process + 1
    BY <1>1 DEF IsLater, PagesInv
  <1>2. CASE process' = process /\ [Next]_vars
    <2>1. /\ (records' # records <=> revision' # revision) /\ revision' >= revision
          /\ revision \in Nat /\ revision' \in Nat
      BY <1>2, RevisionStep, NextKeepsIInv DEF PagesInv, IInv, TypeOK
    <2>2. reader.cursor.process = process' => reader.cursor.revision <= revision'
      BY <1>2, <2>1 DEF IsLater
    <2>3. ASSUME reader.cursor.process = process', reader.cursor.revision = revision'
          PROVE  Continues(reader, Served')
      <3>1. reader.cursor.process = process /\ reader.cursor.revision = revision
        BY <1>2, <2>1, <2>3 DEF IsLater
      <3>2. records' = records /\ revision' = revision
        BY <2>1, <2>3, <3>1
      <3>3. /\ Served'.records = Served.records
            /\ Served'.process = Served.process /\ Served'.revision = Served.revision
        BY <1>2, <3>2 DEF Served, records
      <3>4. Continues(reader, Served)
        BY <3>1 DEF IsLater
      <3> QED
        BY <3>3, <3>4 DEF Continues
    <2> QED
      BY <1>2, <2>2, <2>3 DEF IsLater
  <1> QED
    BY <1>1, <1>2, ControllerPart

(* What the server serves after a step is well formed too.                 *)
LEMMA NextServedIsWellFormed ==
  IInv' /\ CapacityInv' => /\ WellFormed(Served.records)'
                          /\ (Total(Served.records) <= 2 * MAX_SCENARIO_TARGETS)'
  <1>1. IInv /\ CapacityInv => /\ WellFormed(Served.records)
                               /\ Total(Served.records) <= 2 * MAX_SCENARIO_TARGETS
    BY ServedIsWellFormed
  <1> QED
    BY <1>1, PTL

(* A load that is answered at all continues the state that answers it.     *)
LEMMA AnsweredContinues ==
  ASSUME PagesInv, [PagesNext]_pageVars, reader.at = "pages", process' = process,
         NEW page, page = management_console_state_response(Served', reader.cursor),
         "error" \notin DOMAIN page
  PROVE  Continues(reader, Served')
  <1>0. WellFormed(Served'.records)
    BY ControllerPart, NextServedIsWellFormed
  <1>1. CASE IsFirst(reader)
    <2> DEFINE r == Served'.records
    <2>1. Offset(reader) = 0 /\ reader.pages = 0 /\ reader.baseline = None
      BY <1>1 DEF IsFirst, Offset
    <2>2. Total(r) \in Nat
      BY <1>0, TotalIsNat
    <2>3. reader.records = Taken(r, 0)
      BY <1>0, <1>1, TakenEnds DEF IsFirst
    <2>4. 0 * PerPage = 0
      BY PagesAssumption DEF PerPage
    <2> QED
      BY <2>1, <2>2, <2>3, <2>4 DEF Continues
  <1>2. CASE IsLater(reader)
    <2>1. ~IsStale(Served', reader.cursor)
      BY <1>2, PageContent DEF IsLater
    <2>2. reader.cursor.process = process' /\ reader.cursor.revision = revision'
      BY <2>1 DEF IsStale, Served
    <2> QED
      BY <1>2, <2>2, CursorNamesState
  <1> QED
    BY <1>1, <1>2 DEF PagesInv, ReaderInv

(* What one request of the console ends in: the load starts again, it is   *)
(* given up for a reason other than incoherence, it is given up because    *)
(* the facts changed under it, it is complete, or it goes on.              *)
StartsAgain ==
  reader'.at = "pages" /\ DOMAIN reader' = LoadFields /\ IsFirst(reader')
GivesUp ==
  \/ reader'.at = "catalog"
  \/ reader'.at = "failed" /\ reader'.kind # "coherence"
FactsDiffer ==
  /\ reader'.at = "failed"
  /\ reader.baseline # None /\ reader.baseline.facts # facts'
IsComplete ==
  /\ reader'.at = "complete"
  /\ reader'.records = Served'.records
  /\ reader'.baseline.facts = facts'
  /\ reader'.baseline.process = process'
  /\ reader'.catalog = content'
GoesOn ==
  /\ reader'.at = "pages"
  /\ DOMAIN reader' = LoadFields
  /\ reader'.cursor # None /\ reader'.baseline # None
  /\ reader'.cursor.process = process' /\ reader'.cursor.revision = revision'
  /\ Continues(reader', Served')

(* Every request ends in one of the five: the page limit, overlaps, gaps   *)
(* and miscounts are never what ends a load.                               *)
LEMMA FetchOutcome ==
  ASSUME PagesInv, fetchConsolePage
  PROVE  StartsAgain \/ GivesUp \/ FactsDiffer \/ IsComplete \/ GoesOn
  <1> DEFINE s == Served'
             page == management_console_state_response(s, reader.cursor)
  <1>0. /\ [PagesNext]_pageVars /\ reader.at = "pages" /\ process' = process
        /\ reader' = collectConsolePages(reader, page)
        /\ DOMAIN reader = LoadFields
    BY DEF fetchConsolePage, PagesNext, PagesInv, ReaderInv
  <1>1. CASE "error" \in DOMAIN page
    <2>1. page.error # "coherence"
      <3>1. page \in {ErrorPage("stale_console_cursor"), ErrorPage("invalid_console_cursor")}
        <4> SUFFICES ASSUME page \notin {ErrorPage("stale_console_cursor"),
                                         ErrorPage("invalid_console_cursor")}
                     PROVE  FALSE
          OBVIOUS
        <4>1. "error" \notin DOMAIN page
          BY DEF management_console_state_response
        <4> QED
          BY <1>1, <4>1
      <3> QED
        BY <3>1 DEF ErrorPage
    <2>2. \/ reader' = [Load(reader.catalog) EXCEPT !.staleCursorRetried = TRUE,
                                             !.catalogRetried = reader.catalogRetried]
          \/ reader' = Failed(page.error)
      <3> HIDE DEF page
      <3> QED
        BY <1>0, <1>1 DEF collectConsolePages
    <2> HIDE DEF page
    <2>3. CASE reader' = Failed(page.error)
      BY <2>1, <2>3 DEF GivesUp, Failed
    <2>4. CASE reader' # Failed(page.error)
      <3> DEFINE fresh == [Load(reader.catalog) EXCEPT
                             !.staleCursorRetried = TRUE,
                             !.catalogRetried = reader.catalogRetried]
      <3>1. IsFirst(fresh) /\ DOMAIN fresh = LoadFields /\ fresh.at = "pages"
        BY LoadIsFirst
      <3>2. reader' = fresh
        BY <2>2, <2>4
      <3> HIDE DEF fresh
      <3> QED
        BY <3>1, <3>2 DEF StartsAgain
    <2> QED
      BY <2>3, <2>4
  <1>2. CASE "error" \notin DOMAIN page
    <2>1. /\ WellFormed(s.records) /\ Total(s.records) <= 2 * MAX_SCENARIO_TARGETS
          /\ Continues(reader, s)
      BY <1>0, <1>2, ControllerPart, NextServedIsWellFormed, AnsweredContinues
    <2> DEFINE next == (reader.pages + 1) * PerPage
    <2>2. /\ page.process = s.process /\ page.revision = s.revision
          /\ page.content = s.content /\ page.facts = s.facts
          /\ page.counts = Counts(s.records)
          /\ reader.baseline # None /\ ~AgreesWithBaseline(reader, page)
               => s.facts # reader.baseline.facts
          /\ reader.baseline # None /\ AgreesWithBaseline(reader, page)
               => s.facts = reader.baseline.facts
          /\ reader.baseline = None => AgreesWithBaseline(reader, page)
          /\ page.next_cursor = None =>
               /\ IsWhole(reader, page)
               /\ Appended(reader.records, page) = s.records
          /\ page.next_cursor # None =>
               /\ MovesOn(reader, page)
               /\ page.next_cursor = console_cursor(s, next)
               /\ next \in 1..(Total(s.records) - 1)
               /\ Appended(reader.records, page) = Taken(s.records, next)
      <3> HIDE DEF s
      <3> QED
        BY <1>2, <2>1, NextPage
    <2>3. s.process = process' /\ s.revision = revision' /\ s.content = content' /\ s.facts = facts'
      BY DEF Served
    <2>4. page # None
      <3>1. "process" \in DOMAIN page
        BY <1>2, PageContent
      <3>2. "process" \notin DOMAIN None
        BY DEF None
      <3> QED
        BY <3>1, <3>2
    <2> HIDE DEF page, s, next
    <2>5. CASE page.content # reader.catalog
      BY <1>0, <1>2, <2>5 DEF collectConsolePages, GivesUp, Failed
    <2>6. CASE page.content = reader.catalog /\ ~AgreesWithBaseline(reader, page)
      <3>1. reader' = Failed("coherence")
        BY <1>0, <1>2, <2>6 DEF collectConsolePages
      <3> QED
        BY <2>2, <2>3, <2>6, <3>1 DEF FactsDiffer, Failed
    <2>7. CASE page.content = reader.catalog /\ AgreesWithBaseline(reader, page)
      <3>1. reader' = [reader EXCEPT
                         !.at = IF page.next_cursor = None THEN "complete" ELSE "pages",
                         !.baseline = IF @ = None THEN page ELSE @,
                         !.records = Appended(@, page),
                         !.cursor = page.next_cursor,
                         !.pages = @ + 1]
        BY <1>0, <1>2, <2>2, <2>7 DEF collectConsolePages
      <3>2. /\ DOMAIN reader' = LoadFields
            /\ reader'.at = IF page.next_cursor = None THEN "complete" ELSE "pages"
            /\ reader'.baseline = IF reader.baseline = None THEN page ELSE reader.baseline
            /\ reader'.records = Appended(reader.records, page)
            /\ reader'.cursor = page.next_cursor
            /\ reader'.pages = reader.pages + 1
            /\ reader'.catalog = reader.catalog
        BY <1>0, <3>1 DEF LoadFields
      <3>3. /\ reader'.baseline # None
            /\ reader'.baseline.facts = facts'
            /\ reader'.baseline.process = process'
            /\ reader'.baseline.revision = revision'
            /\ reader'.baseline.counts = Counts(s.records)
        BY <2>1, <2>2, <2>3, <2>4, <2>7, <3>2 DEF Continues
      <3>4. CASE page.next_cursor = None
        BY <2>2, <2>3, <2>7, <3>2, <3>3, <3>4 DEF IsComplete, s
      <3>5. CASE page.next_cursor # None
        <4>1. /\ reader'.cursor = console_cursor(s, next)
              /\ reader'.cursor # None
              /\ reader'.cursor.process = process' /\ reader'.cursor.revision = revision'
              /\ Offset(reader') = next
          BY <2>2, <2>3, <3>2, <3>5, CursorIsSome DEF Offset
        <4>2. /\ next \in 0..Total(s.records)
              /\ reader'.pages \in Nat
              /\ next = reader'.pages * PerPage
          BY <2>1, <2>2, <3>2, <3>5, TotalIsNat DEF Continues, next
        <4>3. Continues(reader', s)
          BY <2>2, <2>3, <3>2, <3>3, <3>5, <4>1, <4>2 DEF Continues
        <4> QED
          BY <3>2, <3>3, <3>5, <4>1, <4>3 DEF GoesOn, s
      <3> QED
        BY <3>4, <3>5
    <2> QED
      BY <2>5, <2>6, <2>7
  <1> QED
    BY <1>1, <1>2

(* The server and the reader start in the invariant ...                    *)
LEMMA PagesInitInv == PagesInit => PagesInv
  <1> SUFFICES ASSUME PagesInit PROVE PagesInv
    OBVIOUS
  <1>1. CapacityInv
    <2>1. Tracked = {}
      BY DEF PagesInit, Init, EmptyMap, TrackedTargets, Tracked
    <2> QED
      BY <2>1, CapacityInit
  <1>2. ReaderInv
    BY DEF PagesInit, Idle, ReaderInv
  <1> QED
    BY <1>1, <1>2, InitIInv DEF PagesInit, PagesInv

(* ... and no step leaves it, a restart of the process included.           *)
LEMMA PagesNextInv == PagesInv /\ [PagesNext]_pageVars => PagesInv'
  <1> SUFFICES ASSUME PagesInv, [PagesNext]_pageVars PROVE PagesInv'
    OBVIOUS
  <1> SUFFICES ASSUME reader'.at = "pages"
               PROVE  DOMAIN reader' = LoadFields /\ (IsFirst(reader') \/ IsLater(reader)')
    BY ControllerPart DEF PagesInv, ReaderInv
  <1>1. CASE fetchConsolePage
    <2>1. StartsAgain \/ GoesOn
      BY <1>1, FetchOutcome DEF GivesUp, FactsDiffer, IsComplete
    <2>2. CASE StartsAgain
      BY <2>2 DEF StartsAgain
    <2>3. CASE GoesOn
      <3>1. process' \in Nat /\ revision' \in Nat
        BY ControllerPart DEF IInv, TypeOK
      <3>2. IsLater(reader)'
        BY <2>3, <3>1 DEF GoesOn, IsLater
      <3> QED
        BY <2>3, <3>2 DEF GoesOn
    <2> QED
      BY <2>1, <2>2, <2>3
  <1>2. CASE fetchCatalog
    BY <1>2, LoadIsFirst DEF fetchCatalog
  <1>3. CASE refresh \/ FetchFails
    BY <1>3 DEF refresh, FetchFails, Failed
  <1>4. CASE UNCHANGED reader
    <2>1. DOMAIN reader = LoadFields /\ (IsFirst(reader) \/ IsLater(reader))
      BY <1>4 DEF PagesInv, ReaderInv
    <2>2. CASE IsFirst(reader)
      BY <1>4, <2>1, <2>2
    <2>3. CASE IsLater(reader)
      BY <1>4, <2>1, <2>3, CursorNamesState DEF IsLater
    <2> QED
      BY <2>1, <2>2, <2>3
  <1> QED
    BY <1>1, <1>2, <1>3, <1>4 DEF PagesNext, ControllerCall, FactsChange, ProcessRestart, pageVars

(* The invariant holds in every reachable state.                           *)
LEMMA PagesSpecInv == PagesSpec => []PagesInv
  BY PagesInitInv, PagesNextInv, PTL DEF PagesSpec

(* A load changes from its pages to complete or failed in a request only.  *)
LEMMA OnlyRequestsEndLoads ==
  ASSUME [PagesNext]_pageVars, reader.at = "pages", reader'.at \in {"complete", "failed"}
  PROVE  fetchConsolePage \/ reader' = Failed("network")
  BY DEF PagesNext, refresh, fetchCatalog, FetchFails, ControllerCall, FactsChange,
         ProcessRestart, pageVars

(* A snapshot the console accepts is one state of the server, whatever ran *)
(* between its pages: the cursor names a process and a revision, the       *)
(* revision is exact, and the pages adjoin.                                *)
THEOREM AcceptedSnapshotsAreStates == PagesSpec => SnapshotIsOneState
  <1> DEFINE OneState ==
        reader'.at = "complete" /\ reader.at = "pages" =>
          /\ reader'.records = Served'.records
          /\ reader'.baseline.facts = facts'
          /\ reader'.baseline.process = process'
          /\ reader'.catalog = content'
  <1>1. PagesInv /\ [PagesNext]_pageVars => [OneState]_pageVars
    <2> SUFFICES ASSUME PagesInv, [PagesNext]_pageVars,
                        reader'.at = "complete", reader.at = "pages"
                 PROVE  IsComplete
      BY DEF IsComplete
    <2>1. fetchConsolePage
      BY OnlyRequestsEndLoads DEF Failed
    <2> QED
      BY <2>1, FetchOutcome DEF StartsAgain, GivesUp, FactsDiffer, GoesOn
  <1> QED
    BY <1>1, PagesSpecInv, PTL DEF PagesSpec, SnapshotIsOneState

(* The console never gives a load up as incoherent unless the facts around *)
(* the controller changed under it: the server's answers to a cursor it    *)
(* accepts always fit the first page, and 2 * MAX_SCENARIO_TARGETS records *)
(* always fit the page limit.                                              *)
THEOREM GivingUpIsJustified == PagesSpec => IncoherenceIsReal
  <1> DEFINE Real ==
        reader'.at = "failed" /\ reader'.kind = "coherence" /\ reader.at = "pages" =>
          reader.baseline # None /\ reader.baseline.facts # facts'
  <1>1. PagesInv /\ [PagesNext]_pageVars => [Real]_pageVars
    <2> SUFFICES ASSUME PagesInv, [PagesNext]_pageVars, reader'.at = "failed",
                        reader'.kind = "coherence", reader.at = "pages"
                 PROVE  FactsDiffer
      BY DEF FactsDiffer
    <2>1. fetchConsolePage
      BY OnlyRequestsEndLoads DEF Failed
    <2> QED
      BY <2>1, FetchOutcome DEF StartsAgain, GivesUp, IsComplete, GoesOn
  <1> QED
    BY <1>1, PagesSpecInv, PTL DEF PagesSpec, IncoherenceIsReal
=============================================================================
