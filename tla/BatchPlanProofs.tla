-------------------------- MODULE BatchPlanProofs --------------------------
(***************************************************************************)
(* What becomes of a collection (BatchPlan), for every collection, every   *)
(* mode and every number of workers: it is partitioned over the workers,   *)
(* the items of one scope stay together, and plain load deals stretches of *)
(* neighbours.                                                             *)
(***************************************************************************)
EXTENDS BatchPlan, QueueProofs

Built == BuildBatches(job.mode, job.ids, job.file, job.group, NumWorkers, job.reorder)

\* Every slot has its share of the batches, and no other batch.
Dealt ==
    /\ job \in Jobs
    /\ ~aborted /\ ~softStopped
    /\ queues = [w \in Worker |-> IF dealt THEN Share(Built, w) ELSE << >>]
    /\ dealt \in BOOLEAN

LEMMA BuiltType == job \in Jobs => Built \in Seq(Batch)
<1> SUFFICES ASSUME job \in Jobs PROVE Built \in Seq(Batch)
  OBVIOUS
<1>1. job.ids \in Seq(Test) /\ NumWorkers \in Nat \ {0}
  BY JobsAssumption, NumWorkersAssumption
<1> QED
  BY <1>1, BuildBatchesBatches DEF Built, Batch

LEMMA InitDealt == Init => Dealt
BY DEF Init, QueueInit, Dealt

LEMMA StepDealt == Dealt /\ [Next]_vars => Dealt'
<1> SUFFICES ASSUME Dealt, [Next]_vars PROVE Dealt'
  OBVIOUS
<1>1. CASE Deal
  <2>1. /\ ~dealt /\ dealt' /\ job' = job /\ ~aborted' /\ ~softStopped'
        /\ queues' = [w \in Worker |-> queues[w] \o Share(Built, w)]
    BY <1>1 DEF Deal, PushBatches, Dealt, Built
  <2>2. \A w \in Worker : queues[w] \o Share(Built, w) = Share(Built, w)
    <3> TAKE w \in Worker
    <3>1. queues[w] = << >>
      BY <2>1 DEF Dealt
    <3>2. Share(Built, w) \in Seq(Batch)
      BY BuiltType, ShareType DEF Dealt
    <3> QED
      BY <3>1, <3>2
  <2>3. Built' = Built
    BY <2>1 DEF Built
  <2>4. queues' = [w \in Worker |-> Share(Built, w)]
    BY <2>1, <2>2
  <2>5. queues' = [w \in Worker |-> IF dealt' THEN Share(Built', w) ELSE << >>]
    BY <2>1, <2>3, <2>4
  <2>6. dealt' \in BOOLEAN
    BY <1>1 DEF Deal
  <2> QED
    BY <2>1, <2>5, <2>6 DEF Dealt
<1>2. CASE UNCHANGED vars
  BY <1>2 DEF vars, queueVars, Dealt, Built
<1> QED
  BY <1>1, <1>2 DEF Next

\* Two items of one file, or of one xdist_group, are in one batch of one
\* slot, in collection order, whatever is collected between them.
LEMMA DealtTogether == Dealt => ScopesTogether
<1> SUFFICES ASSUME Dealt, dealt, job.mode \in PerModule,
                    NEW p \in DOMAIN job.ids, NEW q \in DOMAIN job.ids, p < q,
                    Key(job.mode, job.ids, job.file, job.group, p)
                      = Key(job.mode, job.ids, job.file, job.group, q)
             PROVE  \E w \in Worker : \E b \in DOMAIN queues[w] :
                       Ordered(queues[w][b], job.ids[p], job.ids[q])
  BY DEF ScopesTogether, Ordered
<1> DEFINE g == Grouped(job.mode, job.ids, job.file, job.group)
           Holds(batch) == Ordered(batch, job.ids[p], job.ids[q])
<1>1. job.ids \in Seq(Test)
  BY JobsAssumption DEF Dealt
<1>2. g \in Seq(Seq(Test)) /\ \E b \in DOMAIN g : Holds(g[b])
  <2>1. /\ g \in Seq(Seq(Test))
        /\ \A i, j \in DOMAIN job.ids :
              /\ i < j
              /\ Key(job.mode, job.ids, job.file, job.group, i)
                   = Key(job.mode, job.ids, job.file, job.group, j)
              => \E b \in DOMAIN g : Ordered(g[b], job.ids[i], job.ids[j])
    BY <1>1, GroupedBatches
  <2> HIDE DEF g
  <2> QED
    BY <2>1
<1>3. Built \in {g, LongestFirst(g)}
  BY DEF Built, BuildBatches, PerModule
<1>4. \E b \in DOMAIN Built : Holds(Built[b])
  <2> HIDE DEF g, Holds
  <2>1. \E b \in DOMAIN LongestFirst(g) : Holds(LongestFirst(g)[b])
    <3>1. PICK b \in DOMAIN g : Holds(g[b])
      BY <1>2
    <3>2. PICK k \in DOMAIN g : LongestFirst(g)[k] = g[b]
      BY <1>2, LongestFirstBatches
    <3>3. DOMAIN LongestFirst(g) = DOMAIN g
      BY <1>2, LongestFirstBatches
    <3> QED
      BY <3>1, <3>2, <3>3
  <2> QED
    BY <1>2, <1>3, <2>1
<1>5. PICK b \in DOMAIN Built : Holds(Built[b])
  BY <1>4
<1>6. \E w \in Worker : \E k \in DOMAIN Share(Built, w) : Share(Built, w)[k] = Built[b]
  BY BuiltType, ShareCovers DEF Dealt
<1>7. \A w \in Worker : queues[w] = Share(Built, w)
  BY DEF Dealt
<1>8. \E w \in Worker : \E k \in DOMAIN queues[w] : Holds(queues[w][k])
  <2> HIDE DEF Holds
  <2> QED
    BY <1>5, <1>6, <1>7
<1> QED
  BY <1>8

\* --dist loadscope, loadfile and loadgroup keep what they group together,
\* and in order, for every collection and every number of workers.
THEOREM BatchScopesTogether == Spec => []ScopesTogether
<1>1. Spec => []Dealt
  BY InitDealt, StepDealt, PTL DEF Spec
<1> QED
  BY <1>1, DealtTogether, PTL

-----------------------------------------------------------------------------
(* Every collected item is at one place of one queue.                      *)

\* The batch of the plan that slot w has as its b-th.
Source(w, b) == (b - 1) * NumWorkers + w + 1

LEMMA DealtSource ==
    ASSUME Dealt, dealt
    PROVE  /\ \A w \in Worker : \A b \in DOMAIN queues[w] :
                 Source(w, b) \in DOMAIN Built /\ queues[w][b] = Built[Source(w, b)]
           /\ \A w, v \in Worker : \A b \in DOMAIN queues[w], c \in DOMAIN queues[v] :
                 Source(w, b) = Source(v, c) => w = v /\ b = c
           /\ \A i \in DOMAIN Built : \E w \in Worker : \E b \in DOMAIN queues[w] : Source(w, b) = i
<1>1. Built \in Seq(Batch)
  BY BuiltType DEF Dealt
<1>2. \A w \in Worker : queues[w] = Share(Built, w)
  BY DEF Dealt
<1>3. \A w \in Worker : \A b \in DOMAIN Share(Built, w) :
        Source(w, b) \in DOMAIN Built /\ Share(Built, w)[b] = Built[Source(w, b)]
  BY <1>1, ShareDomain DEF Source
<1>4. \A w, v \in Worker : \A b \in DOMAIN Share(Built, w), c \in DOMAIN Share(Built, v) :
        Source(w, b) = Source(v, c) => w = v /\ b = c
  BY <1>1, ShareUnique DEF Source
<1>5. \A i \in DOMAIN Built : \E w \in Worker : \E b \in DOMAIN Share(Built, w) : Source(w, b) = i
  BY <1>1, ShareReaches DEF Source
<1> QED
  BY <1>2, <1>3, <1>4, <1>5

LEMMA SpotsAre ==
    \A s : s \in Spots <=> \E w \in Worker : \E b \in DOMAIN queues[w] :
                               \E j \in DOMAIN queues[w][b] : s = <<w, b, j>>
BY DEF Spots

\* The places of a test and its positions in the collection match.
LEMMA DealtPartitioned == Dealt => Partitioned
<1> SUFFICES ASSUME Dealt, dealt, job.mode # "each", NEW t \in Test
             PROVE  Cardinality(SpotsOf(t)) = Count(job.ids, t)
  BY DEF Partitioned
<1> DEFINE ids == job.ids
           G == SpotsOf(t)
           P == {i \in DOMAIN ids : ids[i] = t}
           Of(at, s) == at[Source(s[1], s[2])][s[3]]
<1>1. ids \in Seq(Test) /\ NumWorkers \in Nat \ {0}
  BY JobsAssumption, NumWorkersAssumption DEF Dealt
<1>2. Cut(ids, Built)
  BY <1>1, BuildBatchesCut DEF Built
<1>3. PICK at :
        /\ \A k \in DOMAIN Built : \A j \in DOMAIN Built[k] :
              at[k][j] \in DOMAIN ids /\ Built[k][j] = ids[at[k][j]]
        /\ \A i, k \in DOMAIN Built : \A j \in DOMAIN Built[i], l \in DOMAIN Built[k] :
              at[i][j] = at[k][l] => i = k /\ j = l
        /\ \A p \in DOMAIN ids : \E k \in DOMAIN Built : \E j \in DOMAIN Built[k] : at[k][j] = p
  <2> HIDE DEF ids
  <2> QED
    BY <1>2 DEF Cut
<1> HIDE DEF ids
<1>4. ASSUME NEW s \in Spots
      PROVE  /\ s = <<s[1], s[2], s[3]>> /\ s[1] \in Worker /\ s[2] \in DOMAIN queues[s[1]]
             /\ Source(s[1], s[2]) \in DOMAIN Built
             /\ s[3] \in DOMAIN Built[Source(s[1], s[2])]
             /\ queues[s[1]][s[2]][s[3]] = Built[Source(s[1], s[2])][s[3]]
  <2>1. PICK w \in Worker : \E b \in DOMAIN queues[w] : \E j \in DOMAIN queues[w][b] : s = <<w, b, j>>
    BY SpotsAre
  <2>2. PICK b \in DOMAIN queues[w] : \E j \in DOMAIN queues[w][b] : s = <<w, b, j>>
    BY <2>1
  <2>3. PICK j \in DOMAIN queues[w][b] : s = <<w, b, j>>
    BY <2>2
  <2>4. Source(w, b) \in DOMAIN Built /\ queues[w][b] = Built[Source(w, b)]
    BY DealtSource
  <2>5. s[1] = w /\ s[2] = b /\ s[3] = j
    BY <2>3
  <2> QED
    BY <2>3, <2>4, <2>5
<1>5. \A s \in G : s \in Spots /\ queues[s[1]][s[2]][s[3]] = t
  BY DEF SpotsOf
<1>6. ASSUME NEW s \in G
      PROVE  Of(at, s) \in P
  <2>1. PICK k \in DOMAIN Built : k = Source(s[1], s[2])
    BY <1>4, <1>5
  <2>2. PICK j \in DOMAIN Built[k] : j = s[3]
    BY <1>4, <1>5, <2>1
  <2>3. Built[k][j] = t
    BY <1>4, <1>5, <2>1, <2>2
  <2>4. at[k][j] \in DOMAIN ids /\ ids[at[k][j]] = t
    BY <1>3, <2>3
  <2> QED
    BY <2>1, <2>2, <2>4
<1>7. ASSUME NEW r \in G, NEW s \in G, Of(at, r) = Of(at, s)
      PROVE  r = s
  <2>1. PICK i \in DOMAIN Built : i = Source(r[1], r[2])
    BY <1>4, <1>5
  <2>2. PICK k \in DOMAIN Built : k = Source(s[1], s[2])
    BY <1>4, <1>5
  <2>3. PICK j \in DOMAIN Built[i] : j = r[3]
    BY <1>4, <1>5, <2>1
  <2>4. PICK l \in DOMAIN Built[k] : l = s[3]
    BY <1>4, <1>5, <2>2
  <2>5. at[i][j] = at[k][l]
    BY <1>7, <2>1, <2>2, <2>3, <2>4
  <2>6. i = k /\ j = l
    BY <1>3, <2>5
  <2>7. r[1] = s[1] /\ r[2] = s[2]
    <3> DEFINE w == r[1]
               b == r[2]
               v == s[1]
               c == s[2]
    <3>1. w \in Worker /\ v \in Worker /\ b \in DOMAIN queues[w] /\ c \in DOMAIN queues[v]
      BY <1>4, <1>5
    <3>2. Source(w, b) = Source(v, c)
      BY <2>1, <2>2, <2>6
    <3> HIDE DEF w, b, v, c
    <3>3. w = v /\ b = c
      BY <3>1, <3>2, DealtSource
    <3> QED
      BY <3>3 DEF w, b, v, c
  <2> HIDE DEF G
  <2> QED
    BY <1>4, <1>5, <2>3, <2>4, <2>6, <2>7
<1>8. ASSUME NEW p \in P
      PROVE  \E s \in G : Of(at, s) = p
  <2>1. PICK k \in DOMAIN Built : \E j \in DOMAIN Built[k] : at[k][j] = p
    BY <1>3
  <2>2. PICK j \in DOMAIN Built[k] : at[k][j] = p
    BY <2>1
  <2>3. PICK w \in Worker : \E b \in DOMAIN queues[w] : Source(w, b) = k
    BY DealtSource
  <2>4. PICK b \in DOMAIN queues[w] : Source(w, b) = k
    BY <2>3
  <2>5. queues[w][b] = Built[k]
    BY <2>4, DealtSource
  <2>6. PICK s : s = <<w, b, j>>
    OBVIOUS
  <2>7. s[1] = w /\ s[2] = b /\ s[3] = j
    BY <2>6
  <2>8. s \in Spots
    BY <2>2, <2>5, <2>6, SpotsAre
  <2>9. queues[s[1]][s[2]][s[3]] = t
    BY <1>3, <2>2, <2>5, <2>7
  <2>10. s \in G /\ Of(at, s) = p
    BY <2>2, <2>4, <2>7, <2>8, <2>9 DEF SpotsOf
  <2> QED
    BY <2>10
<1>9. IsFiniteSet(P)
  <2>1. IsFiniteSet(1 .. Len(ids)) /\ P \in SUBSET (1 .. Len(ids))
    BY <1>1, FS_Interval
  <2> QED
    BY <2>1, FS_Subset
<1>10. ExistsBijection(G, P)
  <2> DEFINE f == [s \in G |-> Of(at, s)]
  <2> HIDE DEF G, P, Of
  <2>1. f \in [G -> P] /\ \A s \in G : f[s] = Of(at, s)
    BY <1>6
  <2> HIDE DEF f
  <2>2. \A r, s \in G : f[r] = f[s] => r = s
    BY <1>7, <2>1
  <2>3. \A p \in P : \E s \in G : f[s] = p
    BY <1>8, <2>1
  <2>4. f \in Bijection(G, P)
    BY <2>1, <2>2, <2>3 DEF Bijection, Injection, IsInjective, Surjection
  <2> QED
    BY <2>4 DEF ExistsBijection
<1>11. Cardinality(G) = Cardinality(P)
  <2> HIDE DEF G, P
  <2>1. ExistsBijection(P, G)
    BY <1>10, Fun_ExistsBijSymmetric
  <2> QED
    BY <1>9, <2>1, FS_Bijection
<1> QED
  BY <1>11 DEF Count, ids

\* Dealing neither drops nor doubles a collected test, except under --dist
\* each, whatever is collected (a test ID collected twice included).
THEOREM BatchPartitioned == Spec => []Partitioned
<1>1. Spec => []Dealt
  BY InitDealt, StepDealt, PTL DEF Spec
<1> QED
  BY <1>1, DealtPartitioned, PTL

-----------------------------------------------------------------------------
(* Neighbours.                                                             *)

LEMMA DealtNeighbours == Dealt => NeighboursTogether
<1> SUFFICES ASSUME Dealt, dealt, job.mode = "load", Len(job.ids) >= 2 * NumWorkers,
                    NEW w \in Worker
             PROVE  /\ \E b \in DOMAIN queues[w] : Len(queues[w][b]) >= 2
                    /\ \A b \in DOMAIN queues[w] : \E i, j \in DOMAIN job.ids :
                          /\ queues[w][b] = SubSeq(job.ids, i, j)
                          /\ i < j \/ (i = j /\ j = Len(job.ids))
  BY DEF NeighboursTogether
<1> DEFINE ids == job.ids
           n == Len(ids)
           N == NumWorkers
           size == ChunkSize(n, N)
<1>1. ids \in Seq(Test) /\ n \in Nat /\ N \in Nat \ {0} /\ w \in 0 .. N - 1
  BY JobsAssumption, NumWorkersAssumption DEF Dealt, Worker
<1>2. Built = Chunks(ids, size)
  BY DEF Built, BuildBatches, PerModule
<1>3. size \in Nat /\ size >= 2 /\ N * size <= n
  <2> HIDE DEF n, N
  <2> DEFINE d == n \div N
             q == d \div 4
  <2>1. n >= 2 * N
    BY DEF n, N
  <2>2. d \in Nat /\ N * d <= n
    BY <1>1
  <2>3. q \in Nat /\ 4 * q <= d
    <3> HIDE DEF d
    <3> QED
      BY <2>2
  <2>4. size = Larger(q, 2)
    BY <1>1, <2>1 DEF ChunkSize
  <2> HIDE DEF size, d, q
  <2>5. CASE q > 2
    <3>1. size = q
      BY <2>3, <2>4, <2>5 DEF Larger
    <3>2. d = q + (d - q) /\ d - q \in Nat
      BY <2>2, <2>3
    <3>3. N * d = N * q + N * (d - q) /\ N * (d - q) \in Nat /\ N * q \in Nat
      BY <1>1, <2>3, <3>2
    <3> QED
      BY <1>1, <2>2, <2>3, <2>5, <3>1, <3>3
  <2>6. CASE q <= 2
    <3>1. size = 2
      BY <2>3, <2>4, <2>6 DEF Larger
    <3> QED
      BY <1>1, <2>1, <3>1
  <2> QED
    BY <2>3, <2>5, <2>6
<1>4. w + 1 \in Nat \ {0} /\ (w + 1) * size <= n
  <2> HIDE DEF n, N, size
  <2>1. w + 1 \in Nat \ {0} /\ N - (w + 1) \in Nat
    BY <1>1
  <2>2. N * size = (w + 1) * size + (N - (w + 1)) * size /\ (N - (w + 1)) * size \in Nat
    BY <1>1, <1>3, <2>1
  <2>3. (w + 1) * size \in Nat
    BY <1>3, <2>1
  <2> QED
    BY <1>1, <1>3, <2>1, <2>2, <2>3
<1> HIDE DEF size
<1>5. w + 1 \in DOMAIN Built /\ Len(Built[w + 1]) >= 2
  <2> HIDE DEF ids
  <2> QED
    BY <1>1, <1>2, <1>3, <1>4, ChunkRuns
<1>6. \A k \in DOMAIN Built : \E i, j \in DOMAIN ids :
        Built[k] = SubSeq(ids, i, j) /\ (i < j \/ (i = j /\ j = Len(ids)))
  <2>1. ids \in Seq(Test) /\ size \in Nat /\ size >= 2
    BY <1>1, <1>3
  <2> HIDE DEF ids, n, N
  <2>2. \A k \in DOMAIN Chunks(ids, size) : \E i, j \in DOMAIN ids :
           /\ Chunks(ids, size)[k] = SubSeq(ids, i, j)
           /\ i < j \/ (i = j /\ j = Len(ids))
    BY <2>1, ChunkRuns, ZenonT(60)
  <2> QED
    BY <1>2, <2>2, ZenonT(60)
<1>7. \A b \in DOMAIN queues[w] : \E i, j \in DOMAIN ids :
        queues[w][b] = SubSeq(ids, i, j) /\ (i < j \/ (i = j /\ j = Len(ids)))
  <2> HIDE DEF ids
  <2> QED
    BY <1>6, DealtSource
<1>8. \E b \in DOMAIN queues[w] : Len(queues[w][b]) >= 2
  <2>1. PICK v \in Worker : \E b \in DOMAIN queues[v] : Source(v, b) = w + 1
    BY <1>5, DealtSource
  <2>2. PICK b \in DOMAIN queues[v] : Source(v, b) = w + 1
    BY <2>1
  <2>3. Built \in Seq(Batch) /\ queues[v] = Share(Built, v)
    BY BuiltType DEF Dealt
  <2>4. b \in Nat \ {0}
    BY <2>3, ShareDomain
  <2>5. v = w
    <3>1. v \in 0 .. N - 1
      BY <1>1 DEF Worker
    <3>2. (b - 1) * N + v = w
      <4>1. (b - 1) * N \in Nat
        BY <1>1, <2>4
      <4> QED
        BY <1>1, <2>2, <3>1, <4>1 DEF Source
    <3>3. b # 1 => (b - 1) * N >= N
      <4>1. b # 1 => b - 2 \in Nat
        BY <2>4
      <4>2. b # 1 => (b - 1) * N = N + (b - 2) * N /\ (b - 2) * N \in Nat
        BY <1>1, <2>4, <4>1
      <4> QED
        BY <1>1, <4>2
    <3>4. b = 1
      <4>1. (b - 1) * N \in Nat
        BY <1>1, <2>4
      <4> QED
        BY <1>1, <3>1, <3>2, <3>3, <4>1
    <3> QED
      BY <1>1, <3>1, <3>2, <3>4
  <2>6. queues[w][b] = Built[w + 1]
    BY <2>2, <2>5, DealtSource
  <2> QED
    BY <1>5, <2>5, <2>6
<1> QED
  BY <1>7, <1>8

\* Plain load deals stretches of neighbours, and with two items per worker or
\* more starves no worker, for every collection and number of workers.
THEOREM BatchNeighboursTogether == Spec => []NeighboursTogether
<1>1. Spec => []Dealt
  BY InitDealt, StepDealt, PTL DEF Spec
<1> QED
  BY <1>1, DealtNeighbours, PTL
=============================================================================
