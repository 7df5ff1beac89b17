----------------------------- MODULE QueueProofs -----------------------------
(***************************************************************************)
(* Lemmas about the operators of the work queue (WorkQueue) and about the  *)
(* batches that are dealt to it (DistBatches), for the proofs about their  *)
(* clients: SchedulerProofs, BatchPlanProofs and DistProofs.  The batches  *)
(* of every collection are sequences of collected tests, none is empty,    *)
(* and the items of one scope are in one batch in collection order.        *)
(***************************************************************************)
EXTENDS WorkQueue, DistBatches, FiniteSetTheorems, FunctionTheorems, WellFoundedInduction, TLAPS

-----------------------------------------------------------------------------
(* The round-robin shares of push_batches. *)

\* A share takes its batches from positions of the plan.
LEMMA ShareDomain ==
    ASSUME NEW p \in Seq(Batch), NEW w \in Worker,
           NEW k \in DOMAIN Share(p, w)
    PROVE  /\ k \in Nat \ {0}
           /\ (k - 1) * NumWorkers + w + 1 \in DOMAIN p
           /\ Share(p, w)[k] = p[(k - 1) * NumWorkers + w + 1]
<1> DEFINE N == NumWorkers
           c == (Len(p) + N - 1 - w) \div N
<1>1. N \in Nat \ {0} /\ w \in 0 .. N - 1 /\ Len(p) \in Nat
  BY NumWorkersAssumption DEF Worker
<1>2. c \in Nat
  BY <1>1
<1>3. k \in 1 .. c /\ Share(p, w)[k] = p[(k - 1) * N + w + 1]
  BY <1>2 DEF Share
<1>4. c * N <= Len(p) + N - 1 - w
  BY <1>1, <1>2
<1>5. k * N <= c * N
  <2> HIDE DEF c, N
  <2> QED BY <1>1, <1>2, <1>3
<1>6. (k - 1) * N = k * N - N /\ (k - 1) * N >= 0
  <2> HIDE DEF c, N
  <2> QED BY <1>1, <1>2, <1>3
<1>7. (k - 1) * N + w + 1 \in 1 .. Len(p)
  <2>1. c * N \in Int /\ k * N \in Int /\ (k - 1) * N \in Int
    <3> HIDE DEF c, N
    <3> QED BY <1>1, <1>2, <1>3
  <2> HIDE DEF c, N
  <2> QED BY <1>1, <1>2, <1>3, <1>4, <1>5, <1>6, <2>1
<1> QED BY <1>1, <1>2, <1>3, <1>7

\* A share is a sequence of batches.
LEMMA ShareType ==
    ASSUME NEW p \in Seq(Batch), NEW w \in Worker
    PROVE  Share(p, w) \in Seq(Batch)
<1> DEFINE c == (Len(p) + NumWorkers - 1 - w) \div NumWorkers
<1>1. c \in Nat
  BY NumWorkersAssumption DEF Worker
<1>2. \A k \in 1 .. c : Share(p, w)[k] \in Batch
  <2> TAKE k \in 1 .. c
  <2>1. k \in DOMAIN Share(p, w)
    BY DEF Share
  <2> QED BY <2>1, ShareDomain
<1>3. Share(p, w) = [k \in 1 .. c |-> Share(p, w)[k]]
  BY DEF Share
<1> HIDE DEF c
<1> QED BY <1>1, <1>2, <1>3

\* Two shares, or two entries of one share, never hold the same position.
LEMMA ShareUnique ==
    ASSUME NEW p \in Seq(Batch), NEW w \in Worker, NEW v \in Worker,
           NEW k \in DOMAIN Share(p, w), NEW l \in DOMAIN Share(p, v),
           (k - 1) * NumWorkers + w + 1 = (l - 1) * NumWorkers + v + 1
    PROVE  w = v /\ k = l
<1> DEFINE N == NumWorkers
<1>1. N \in Nat \ {0} /\ w \in 0 .. N - 1 /\ v \in 0 .. N - 1
  BY NumWorkersAssumption DEF Worker
<1>2. k \in Nat \ {0} /\ l \in Nat \ {0}
  BY ShareDomain
<1>3. (k - 1) * N \in Int /\ (l - 1) * N \in Int
  BY <1>1, <1>2
<1>4. (k - 1) * N + w = (l - 1) * N + v
  BY <1>1, <1>3
<1>5. ASSUME NEW a \in Nat, NEW b \in Nat, a < b
      PROVE  a * N + N <= b * N
  <2>1. b * N = (a + 1) * N + (b - (a + 1)) * N
    BY <1>1, <1>5
  <2>2. (b - (a + 1)) * N >= 0
    BY <1>1, <1>5
  <2>3. (a + 1) * N = a * N + N
    BY <1>1, <1>5
  <2> QED BY <1>1, <1>5, <2>1, <2>2, <2>3
<1>6. ~(k - 1 < l - 1) /\ ~(l - 1 < k - 1)
  <2> HIDE DEF N
  <2>1. CASE k - 1 < l - 1
    <3>1. (k - 1) * N + N <= (l - 1) * N
      BY <1>2, <1>5, <2>1
    <3> QED BY <1>1, <1>3, <1>4, <3>1
  <2>2. CASE l - 1 < k - 1
    <3>1. (l - 1) * N + N <= (k - 1) * N
      BY <1>2, <1>5, <2>2
    <3> QED BY <1>1, <1>3, <1>4, <3>1
  <2> QED BY <2>1, <2>2
<1>7. k = l
  BY <1>2, <1>6
<1> QED BY <1>1, <1>3, <1>4, <1>7

\* Every batch of the plan is in some share.
LEMMA ShareReaches ==
    ASSUME NEW p \in Seq(Batch), NEW i \in DOMAIN p
    PROVE  \E w \in Worker : \E k \in DOMAIN Share(p, w) : (k - 1) * NumWorkers + w + 1 = i
<1> DEFINE N == NumWorkers
           w == (i - 1) % N
           q == (i - 1) \div N
           c == (Len(p) + N - 1 - w) \div N
<1>1. N \in Nat \ {0} /\ Len(p) \in Nat /\ i \in 1 .. Len(p)
  BY NumWorkersAssumption
<1>2. w \in 0 .. N - 1 /\ q \in Nat /\ i - 1 = q * N + w
  <2> DEFINE m == i - 1
  <2>1. m \in Nat
    BY <1>1
  <2> HIDE DEF m, N
  <2>2. m % N \in 0 .. N - 1 /\ m \div N \in Nat
    BY <1>1, <2>1
  <2>3. m = (m \div N) * N + (m % N)
    BY <1>1, <2>1
  <2> QED BY <2>2, <2>3 DEF m
<1>3. w \in Worker
  BY <1>2 DEF Worker
<1>4. (q + 1) * N = q * N + N
  <2> HIDE DEF q, N
  <2> QED BY <1>1, <1>2
<1>5. (q + 1) * N <= Len(p) + N - 1 - w
  <2> HIDE DEF q, N, w
  <2>1. q * N \in Int
    BY <1>1, <1>2
  <2> QED BY <1>1, <1>2, <1>4, <2>1
<1>6. q + 1 \in 1 .. c
  <2> DEFINE m == Len(p) + N - 1 - w
  <2>1. m \in Int /\ c \in Int /\ c * N + N > m
    <3> HIDE DEF w, q
    <3>1. m \in Int
      BY <1>1, <1>2
    <3>2. c = m \div N
      OBVIOUS
    <3> HIDE DEF m, c, N
    <3>3. c \in Int /\ m = c * N + (m % N) /\ (m % N) \in 0 .. N - 1
      BY <1>1, <3>1, <3>2
    <3> QED BY <1>1, <3>1, <3>3
  <2>2. ASSUME c < q + 1
        PROVE  FALSE
    <3> HIDE DEF c, q, N, w
    <3>1. (q + 1) * N = (c + 1) * N + (q - c) * N
      BY <1>1, <1>2, <2>1
    <3>2. (c + 1) * N = c * N + N /\ (q - c) * N >= 0
      BY <1>1, <1>2, <2>1, <2>2
    <3>3. (q + 1) * N \in Int /\ c * N \in Int /\ (q - c) * N \in Int
      BY <1>1, <1>2, <2>1
    <3> QED BY <1>1, <1>2, <1>5, <2>1, <3>1, <3>2, <3>3
  <2> HIDE DEF c, q, N, w
  <2> QED BY <1>2, <2>1, <2>2
<1>7. q + 1 \in DOMAIN Share(p, w)
  BY <1>6 DEF Share
<1>8. PICK k \in DOMAIN Share(p, w) : k = q + 1
  BY <1>7
<1>9. (k - 1) * NumWorkers + w + 1 = i
  <2> HIDE DEF q, w
  <2>1. k - 1 = q
    BY <1>2, <1>8
  <2> QED BY <1>1, <1>2, <2>1
<1> QED BY <1>3, <1>9

LEMMA ShareCovers ==
    ASSUME NEW p \in Seq(Batch), NEW i \in DOMAIN p
    PROVE  \E w \in Worker : \E k \in DOMAIN Share(p, w) : Share(p, w)[k] = p[i]
<1>1. PICK w \in Worker : \E k \in DOMAIN Share(p, w) : (k - 1) * NumWorkers + w + 1 = i
  BY ShareReaches
<1>2. PICK k \in DOMAIN Share(p, w) : (k - 1) * NumWorkers + w + 1 = i
  BY <1>1
<1>3. Share(p, w)[k] = p[(k - 1) * NumWorkers + w + 1]
  BY ShareDomain
<1> QED
  BY <1>2, <1>3

-----------------------------------------------------------------------------
(* Sequences of batches. *)

\* Popping, pushing in front and clearing keep a queue a queue.
LEMMA BatchSeqs ==
    ASSUME NEW q \in Seq(Batch), NEW b \in Batch
    PROVE  /\ q # << >> => Head(q) \in Batch /\ Tail(q) \in Seq(Batch)
           /\ b # << >> => Head(b) \in Test /\ Tail(b) \in Batch
           /\ <<b>> \o q \in Seq(Batch)
           /\ << >> \in Batch /\ << >> \in Seq(Batch)
BY DEF Batch

-----------------------------------------------------------------------------
(* How the operations move the tests of one slot: b is what its owner holds *)
(* and q its queue.                                                        *)

\* A slot's pending batches, index by index.
LEMMA PendingShape ==
    ASSUME NEW b \in Batch, NEW q \in Seq(Batch)
    PROVE  /\ DOMAIN PendingOf(b, q) = 0 .. Len(q)
           /\ PendingOf(b, q)[0] = b
           /\ \A i \in 1 .. Len(q) : PendingOf(b, q)[i] = q[i]
           /\ \A i \in 0 .. Len(q) : PendingOf(b, q)[i] \in Seq(Test)
BY DEF PendingOf, Batch

\* Batches picked from distinct ones at different places are distinct.
LEMMA DistinctPick ==
    ASSUME NEW P, NEW R, NEW f, Distinct(P),
           \A i \in DOMAIN R :
               R[i] = << >> \/ (f[i] \in DOMAIN P /\ R[i] = P[f[i]]),
           \A i, k \in DOMAIN R : f[i] = f[k] => i = k
    PROVE  Distinct(R) /\ Tests(R) \subseteq Tests(P)
<1>1. Distinct(R)
  BY DEF Distinct
<1>2. Tests(R) \subseteq Tests(P)
  BY DEF Tests
<1> QED BY <1>1, <1>2

\* next_blocking: the batch moves from the queue to the owner.
LEMMA TakeMoves ==
    ASSUME NEW q \in Seq(Batch), q # << >>, Distinct(PendingOf(<< >>, q))
    PROVE  /\ Distinct(PendingOf(Head(q), Tail(q)))
           /\ Tests(PendingOf(Head(q), Tail(q))) = Tests(PendingOf(<< >>, q))
<1> DEFINE h == Head(q)
           r == Tail(q)
           P == PendingOf(<< >>, q)
           R == PendingOf(h, r)
           f == [i \in 0 .. Len(r) |-> i + 1]
<1>1. << >> \in Batch /\ h \in Batch /\ r \in Seq(Batch)
  BY DEF Batch
<1>2. /\ Len(q) \in Nat /\ Len(r) = Len(q) - 1 /\ h = q[1]
      /\ \A i \in 1 .. Len(r) : r[i] = q[i + 1]
  OBVIOUS
<1> HIDE DEF h, r
<1>3. /\ DOMAIN P = 0 .. Len(q) /\ DOMAIN R = 0 .. Len(r)
      /\ P[0] = << >> /\ R[0] = h
      /\ \A i \in 1 .. Len(q) : P[i] = q[i]
      /\ \A i \in 1 .. Len(r) : R[i] = r[i]
  BY <1>1, PendingShape
<1> HIDE DEF P, R
<1>4. \A i \in DOMAIN R : f[i] \in DOMAIN P /\ R[i] = P[f[i]]
  BY <1>2, <1>3
<1>5. \A i, k \in DOMAIN R : f[i] = f[k] => i = k
  BY <1>2, <1>3
<1>6. Distinct(R) /\ Tests(R) \subseteq Tests(P)
  <2> HIDE DEF f
  <2>1. Distinct(P)
    BY DEF P
  <2> QED BY <1>4, <1>5, <2>1, DistinctPick
<1>7. \A i \in DOMAIN P : i = 0 \/ (i - 1 \in DOMAIN R /\ R[i - 1] = P[i])
  BY <1>2, <1>3
<1>8. Tests(P) \subseteq Tests(R)
  BY <1>3, <1>7 DEF Tests
<1> QED BY <1>6, <1>8 DEF P, R, h, r

\* A teardown report: the first test of the owner's batch is settled.
LEMMA CompleteMoves ==
    ASSUME NEW b \in Batch, NEW q \in Seq(Batch), b # << >>,
           Distinct(PendingOf(b, q))
    PROVE  /\ Distinct(PendingOf(Tail(b), q))
           /\ Head(b) \in Tests(PendingOf(b, q))
           /\ Tests(PendingOf(Tail(b), q)) = Tests(PendingOf(b, q)) \ {Head(b)}
<1> DEFINE r == Tail(b)
           P == PendingOf(b, q)
           R == PendingOf(r, q)
<1>1. /\ r \in Batch /\ Head(b) = b[1] /\ b[1] \in Test
      /\ DOMAIN b = 1 .. Len(b) /\ DOMAIN r = 1 .. Len(r)
      /\ Len(b) \in Nat \ {0} /\ Len(r) = Len(b) - 1
      /\ \A j \in 1 .. Len(r) : r[j] = b[j + 1]
  BY DEF Batch
<1> HIDE DEF r
<1>2. /\ DOMAIN P = 0 .. Len(q) /\ DOMAIN R = 0 .. Len(q)
      /\ P[0] = b /\ R[0] = r
      /\ \A i \in 0 .. Len(q) : i # 0 => R[i] = P[i]
  <2>1. Len(q) \in Nat
    OBVIOUS
  <2>2. DOMAIN P = 0 .. Len(q) /\ P[0] = b /\ \A i \in 1 .. Len(q) : P[i] = q[i]
    BY PendingShape
  <2>3. DOMAIN R = 0 .. Len(q) /\ R[0] = r /\ \A i \in 1 .. Len(q) : R[i] = q[i]
    BY <1>1, PendingShape
  <2> HIDE DEF P, R
  <2> QED
    BY <2>1, <2>2, <2>3
<1>3. Len(q) \in Nat /\ Distinct(P)
  OBVIOUS
<1> HIDE DEF P, R
<1>4. \A i \in DOMAIN R : \A j \in DOMAIN R[i] :
          /\ i # 0 => j \in DOMAIN P[i] /\ R[i][j] = P[i][j]
          /\ i = 0 => j + 1 \in DOMAIN P[i] /\ R[i][j] = P[i][j + 1] /\ j \in Nat \ {0}
  BY <1>1, <1>2
<1>5. Distinct(R)
  <2> SUFFICES ASSUME NEW i \in DOMAIN R, NEW k \in DOMAIN R,
                      NEW j \in DOMAIN R[i], NEW l \in DOMAIN R[k], R[i][j] = R[k][l]
               PROVE  i = k /\ j = l
    BY DEF Distinct
  <2>1. CASE i = 0 /\ k = 0
    <3>1. j + 1 = l + 1
      BY <1>2, <1>3, <1>4, <2>1 DEF Distinct
    <3> QED BY <1>4, <2>1, <3>1
  <2>2. CASE i = 0 /\ k # 0
    BY <1>2, <1>3, <1>4, <2>2 DEF Distinct
  <2>3. CASE i # 0 /\ k = 0
    BY <1>2, <1>3, <1>4, <2>3 DEF Distinct
  <2>4. CASE i # 0 /\ k # 0
    BY <1>2, <1>3, <1>4, <2>4 DEF Distinct
  <2> QED BY <2>1, <2>2, <2>3, <2>4
<1>6. b[1] \in Tests(P)
  BY <1>1, <1>2, <1>3 DEF Tests
<1>7. Tests(R) \subseteq Tests(P)
  BY <1>2, <1>4 DEF Tests
<1>8. b[1] \notin Tests(R)
  <2> SUFFICES ASSUME NEW i \in DOMAIN R, NEW j \in DOMAIN R[i], R[i][j] = b[1]
               PROVE  FALSE
    BY DEF Tests
  <2>1. 0 \in DOMAIN P /\ 1 \in DOMAIN P[0] /\ P[0][1] = b[1]
    BY <1>1, <1>2, <1>3
  <2>2. CASE i = 0
    <3>1. j + 1 = 1
      BY <1>2, <1>3, <1>4, <2>1, <2>2 DEF Distinct
    <3> QED BY <1>4, <2>2, <3>1
  <2>3. CASE i # 0
    BY <1>2, <1>3, <1>4, <2>1, <2>3 DEF Distinct
  <2> QED BY <2>2, <2>3
<1>9. Tests(P) \subseteq Tests(R) \cup {b[1]}
  <2> SUFFICES ASSUME NEW i \in DOMAIN P, NEW j \in DOMAIN P[i], P[i][j] # b[1],
                      P[i][j] \in Test
               PROVE  P[i][j] \in Tests(R)
    BY DEF Tests
  <2>1. CASE i = 0
    <3>1. j - 1 \in DOMAIN R[0] /\ R[0][j - 1] = P[i][j]
      BY <1>1, <1>2, <2>1
    <3> QED BY <1>2, <1>3, <3>1 DEF Tests
  <2>2. CASE i # 0
    BY <1>2, <2>2 DEF Tests
  <2> QED BY <2>1, <2>2
<1> QED BY <1>1, <1>5, <1>6, <1>7, <1>8, <1>9 DEF P, R, r

\* The owner gives its batch up.
LEMMA DropMoves ==
    ASSUME NEW b \in Batch, NEW q \in Seq(Batch), Distinct(PendingOf(b, q))
    PROVE  /\ Distinct(PendingOf(<< >>, q))
           /\ Tests(PendingOf(<< >>, q)) \subseteq Tests(PendingOf(b, q))
<1> DEFINE P == PendingOf(b, q)
           R == PendingOf(<< >>, q)
           f == [i \in 0 .. Len(q) |-> i]
<1>1. << >> \in Batch
  BY DEF Batch
<1>2. /\ DOMAIN P = 0 .. Len(q) /\ DOMAIN R = 0 .. Len(q)
      /\ \A i \in 0 .. Len(q) : R[i] = << >> \/ R[i] = P[i]
  BY <1>1, PendingShape
<1>3. Distinct(P)
  OBVIOUS
<1> HIDE DEF P, R
<1>4. /\ \A i \in DOMAIN R : R[i] = << >> \/ (f[i] \in DOMAIN P /\ R[i] = P[f[i]])
      /\ \A i, k \in DOMAIN R : f[i] = f[k] => i = k
  BY <1>2
<1> HIDE DEF f
<1>5. Distinct(R) /\ Tests(R) \subseteq Tests(P)
  BY <1>3, <1>4, DistinctPick
<1> QED BY <1>5 DEF P, R

\* stop and an aborting crash clear the queue under the owner's batch.
LEMMA ClearMoves ==
    ASSUME NEW b \in Batch, NEW q \in Seq(Batch), Distinct(PendingOf(b, q))
    PROVE  /\ Distinct(PendingOf(b, << >>))
           /\ Tests(PendingOf(b, << >>)) \subseteq Tests(PendingOf(b, q))
<1> DEFINE P == PendingOf(b, q)
           R == PendingOf(b, << >>)
           f == [i \in {0} |-> i]
<1>1. /\ DOMAIN P = 0 .. Len(q) /\ DOMAIN R = {0} /\ R[0] = P[0] /\ Len(q) \in Nat
  BY PendingShape DEF PendingOf
<1>2. Distinct(P)
  OBVIOUS
<1> HIDE DEF P, R
<1>3. /\ \A i \in DOMAIN R : f[i] \in DOMAIN P /\ R[i] = P[f[i]]
      /\ \A i, k \in DOMAIN R : f[i] = f[k] => i = k
  BY <1>1
<1> HIDE DEF f
<1>4. Distinct(R) /\ Tests(R) \subseteq Tests(P)
  BY <1>2, <1>3, DistinctPick
<1> QED BY <1>4 DEF P, R

\* crash: the unfinished remainder goes back in front of the slot's queue.
LEMMA RequeueMoves ==
    ASSUME NEW b \in Batch, NEW q \in Seq(Batch), Distinct(PendingOf(b, q))
    PROVE  /\ Distinct(PendingOf(<< >>, <<b>> \o q))
           /\ Tests(PendingOf(<< >>, <<b>> \o q)) = Tests(PendingOf(b, q))
<1> DEFINE s == <<b>> \o q
           P == PendingOf(b, q)
           R == PendingOf(<< >>, s)
           f == [i \in 0 .. Len(s) |-> i - 1]
<1>1. /\ << >> \in Batch /\ s \in Seq(Batch) /\ Len(s) = Len(q) + 1 /\ Len(q) \in Nat
      /\ s[1] = b /\ \A i \in 1 .. Len(q) : s[i + 1] = q[i]
  BY DEF Batch
<1> HIDE DEF s
<1>2. /\ DOMAIN P = 0 .. Len(q) /\ DOMAIN R = 0 .. Len(s)
      /\ P[0] = b /\ R[0] = << >>
      /\ \A i \in 1 .. Len(q) : P[i] = q[i]
      /\ \A i \in 1 .. Len(s) : R[i] = s[i]
  BY <1>1, PendingShape
<1>3. Distinct(P)
  OBVIOUS
<1> HIDE DEF P, R
<1>4. \A i \in DOMAIN P : i + 1 \in DOMAIN R /\ R[i + 1] = P[i]
  BY <1>1, <1>2
<1>5. \A i \in DOMAIN R : R[i] = << >> \/ (i - 1 \in DOMAIN P /\ R[i] = P[i - 1])
  <2> TAKE i \in DOMAIN R
  <2>1. CASE i = 0
    BY <1>2, <2>1
  <2>2. CASE i # 0
    <3>1. i - 1 \in DOMAIN P
      BY <1>1, <1>2, <2>2
    <3>2. R[(i - 1) + 1] = P[i - 1]
      BY <1>4, <3>1
    <3>3. (i - 1) + 1 = i
      BY <1>1, <1>2
    <3> QED BY <3>1, <3>2, <3>3
  <2> QED BY <2>1, <2>2
<1>6. /\ \A i \in DOMAIN R : R[i] = << >> \/ (f[i] \in DOMAIN P /\ R[i] = P[f[i]])
      /\ \A i, k \in DOMAIN R : f[i] = f[k] => i = k
  BY <1>1, <1>2, <1>5
<1>7. Distinct(R) /\ Tests(R) \subseteq Tests(P)
  <2> HIDE DEF f
  <2> QED BY <1>3, <1>6, DistinctPick
<1>8. Tests(P) \subseteq Tests(R)
  BY <1>4 DEF Tests
<1> QED BY <1>7, <1>8 DEF P, R, s

\* push_batches: a slot that has nothing gets its share of the plan.
LEMMA PushMoves ==
    ASSUME NEW p \in Seq(Batch), Distinct(p), NEW w \in Worker
    PROVE  /\ Distinct(PendingOf(<< >>, Share(p, w)))
           /\ \A k \in DOMAIN Share(p, w) : \A j \in DOMAIN Share(p, w)[k] :
                 Share(p, w)[k][j] \in Test
                 => Share(p, w)[k][j] \in Tests(PendingOf(<< >>, Share(p, w)))
           /\ \A t \in Tests(PendingOf(<< >>, Share(p, w))) :
                 \E k \in DOMAIN Share(p, w) : \E j \in DOMAIN Share(p, w)[k] :
                     Share(p, w)[k][j] = t
<1> DEFINE s == Share(p, w)
           P == PendingOf(<< >>, s)
           f == [k \in 0 .. Len(s) |-> (k - 1) * NumWorkers + w + 1]
<1>1. << >> \in Batch /\ s \in Seq(Batch) /\ Len(s) \in Nat /\ DOMAIN s = 1 .. Len(s)
  BY ShareType DEF Batch
<1>2. \A k \in 1 .. Len(s) :
         LET m == (k - 1) * NumWorkers + w + 1 IN m \in DOMAIN p /\ s[k] = p[m]
  BY <1>1, ShareDomain
<1>3. \A k, l \in 1 .. Len(s) :
         (k - 1) * NumWorkers + w + 1 = (l - 1) * NumWorkers + w + 1 => k = l
  BY <1>1, ShareUnique
<1> HIDE DEF s
<1>4. /\ DOMAIN P = 0 .. Len(s) /\ P[0] = << >>
      /\ \A k \in 1 .. Len(s) : P[k] = s[k]
  BY <1>1, PendingShape
<1> HIDE DEF P
<1>5. \A k \in DOMAIN P : k = 0 \/ k \in 1 .. Len(s)
  BY <1>1, <1>4
<1>6. Distinct(P)
  <2> SUFFICES ASSUME NEW i \in DOMAIN P, NEW k \in DOMAIN P,
                      NEW j \in DOMAIN P[i], NEW l \in DOMAIN P[k], P[i][j] = P[k][l]
               PROVE  i = k /\ j = l
    BY DEF Distinct
  <2>1. i \in 1 .. Len(s) /\ k \in 1 .. Len(s)
    BY <1>4, <1>5
  <2>2. (i - 1) * NumWorkers + w + 1 = (k - 1) * NumWorkers + w + 1 /\ j = l
    BY <1>2, <1>4, <2>1 DEF Distinct
  <2> QED BY <1>3, <2>1, <2>2
<1>7. \A k \in DOMAIN s : \A j \in DOMAIN s[k] : s[k][j] \in Test => s[k][j] \in Tests(P)
  <2> TAKE k \in DOMAIN s
  <2>1. k \in DOMAIN P /\ P[k] = s[k]
    BY <1>1, <1>4
  <2> QED BY <2>1 DEF Tests
<1>8. \A t \in Tests(P) : \E k \in DOMAIN s : \E j \in DOMAIN s[k] : s[k][j] = t
  BY <1>1, <1>4, <1>5 DEF Tests
<1> QED BY <1>6, <1>7, <1>8 DEF P, s


-----------------------------------------------------------------------------
(* Positions in their order. *)

\* In a finite set of positive numbers, some element has k up to it, for every
\* k up to the size of the set.
LEMMA Ranked ==
    ASSUME NEW n \in Nat, NEW K \in SUBSET (1 .. n), NEW k \in 1 .. Cardinality(K)
    PROVE  \E i \in K : Cardinality({j \in K : j <= i}) = k
<1> DEFINE below(i) == {j \in K : j <= i}
           many == {i \in Nat : Cardinality(below(i)) >= k}
<1>0. \A j \in K : j \in Nat /\ 1 <= j /\ j <= n
  OBVIOUS
<1>1. IsFiniteSet(K) /\ \A i \in Nat : IsFiniteSet(below(i)) /\ Cardinality(below(i)) \in Nat
  <2>1. IsFiniteSet(1 .. n)
    BY FS_Interval
  <2>2. IsFiniteSet(K)
    BY <2>1, FS_Subset
  <2>3. \A i \in Nat : below(i) \in SUBSET K
    OBVIOUS
  <2>4. \A i \in Nat : IsFiniteSet(below(i))
    BY <2>2, <2>3, FS_Subset
  <2> QED
    BY <2>2, <2>4, FS_CardinalityType
<1>2. n \in many
  <2>1. below(n) = K
    BY <1>0
  <2>2. Cardinality(K) \in Nat /\ k <= Cardinality(K)
    BY <1>1, FS_CardinalityType
  <2> QED
    BY <2>1, <2>2
<1>3. \E i \in Nat : Cardinality(below(i)) >= k /\ \A j \in Nat : j < i => ~(Cardinality(below(j)) >= k)
  <2>1. PICK i \in many : \A j \in many : <<j, i>> \notin OpToRel(<, Nat)
    BY <1>2, NatLessThanWellFounded, WFMin
  <2>2. \A j \in many : ~(j < i)
    BY <2>1 DEF OpToRel
  <2> QED
    BY <2>2
<1> HIDE DEF many
<1>4. PICK i \in Nat : /\ Cardinality(below(i)) >= k
                       /\ \A j \in Nat : j < i => ~(Cardinality(below(j)) >= k)
  BY <1>3
<1>5. i # 0
  <2>1. CASE i = 0
    <3>1. \A j \in K : ~(j <= i)
      BY <1>0, <2>1
    <3>2. below(i) = {}
      BY <3>1
    <3>3. Cardinality(below(i)) = 0
      BY <3>2, FS_EmptySet
    <3> QED
      BY <1>4, <3>3
  <2> QED
    BY <2>1
<1>6. i - 1 \in Nat /\ i - 1 < i /\ Cardinality(below(i - 1)) \in Nat /\ Cardinality(below(i - 1)) < k
  <2>1. i - 1 \in Nat /\ i - 1 < i
    BY <1>5
  <2> HIDE DEF below
  <2> QED
    BY <1>1, <1>4, <2>1
<1>7. \A j \in K : j <= i <=> j <= i - 1 \/ j = i
  BY <1>0
<1>8. i \in K
  <2>1. CASE i \notin K
    <3>1. below(i) = below(i - 1)
      BY <1>7, <2>1
    <3> HIDE DEF below
    <3> QED
      BY <1>4, <1>6, <3>1
  <2> QED
    BY <2>1
<1>9. Cardinality(below(i)) = Cardinality(below(i - 1)) + 1
  <2>1. below(i) = below(i - 1) \cup {i}
    BY <1>0, <1>7, <1>8
  <2>2. i \notin below(i - 1)
    BY <1>6
  <2> HIDE DEF below
  <2> QED
    BY <1>1, <1>6, <2>1, <2>2, FS_AddElement
<1>10. Cardinality(below(i)) = k
  <2> HIDE DEF below
  <2> QED
    BY <1>4, <1>6, <1>9
<1> QED
  BY <1>8, <1>10

\* The positions in order are the positions, and in order.
LEMMA InOrderPositions ==
    ASSUME NEW n \in Nat, NEW K \in SUBSET (1 .. n)
    PROVE  /\ Cardinality(K) \in Nat
           /\ DOMAIN InOrder(K) = 1 .. Cardinality(K)
           /\ \A k \in 1 .. Cardinality(K) :
                 InOrder(K)[k] \in K /\ Rank(K, InOrder(K)[k]) = k
           /\ \A i \in K : \E k \in 1 .. Cardinality(K) :
                 InOrder(K)[k] = i /\ Rank(K, i) = k
           /\ \A i, j \in K : i < j => Rank(K, i) < Rank(K, j)
<1> DEFINE below(i) == {j \in K : j <= i}
           at(k) == CHOOSE i \in K : Cardinality(below(i)) = k
<1>1. IsFiniteSet(K) /\ Cardinality(K) \in Nat
  <2>1. IsFiniteSet(1 .. n)
    BY FS_Interval
  <2> QED
    BY <2>1, FS_Subset, FS_CardinalityType
<1>2. \A i \in K : /\ i \in Int
                   /\ IsFiniteSet(below(i)) /\ Cardinality(below(i)) \in Nat
                   /\ Cardinality(below(i)) <= Cardinality(K)
                   /\ Cardinality(below(i)) # 0
  <2> TAKE i \in K
  <2>1. below(i) \in SUBSET K /\ i \in Int /\ i \in below(i)
    OBVIOUS
  <2> HIDE DEF below
  <2>2. IsFiniteSet(below(i)) /\ Cardinality(below(i)) <= Cardinality(K)
    BY <1>1, <2>1, FS_Subset
  <2>3. Cardinality(below(i)) \in Nat
    BY <2>2, FS_CardinalityType
  <2> QED
    BY <2>1, <2>2, <2>3, FS_EmptySet
<1>3. \A i, j \in K : i < j => Cardinality(below(i)) < Cardinality(below(j))
  <2> SUFFICES ASSUME NEW i \in K, NEW j \in K, i < j
               PROVE  Cardinality(below(i)) < Cardinality(below(j))
    OBVIOUS
  <2>0. \A l \in K : l \in Int
    OBVIOUS
  <2>a. (\A l \in K : l <= i => l <= j) /\ ~(j <= i) /\ j <= j
    BY <2>0
  <2>1. below(i) \in SUBSET below(j) /\ j \in below(j) /\ j \notin below(i)
    BY <2>a
  <2> HIDE DEF below
  <2>2. Cardinality(below(i)) <= Cardinality(below(j)) /\ below(i) # below(j)
    BY <1>2, <2>1, FS_Subset
  <2>3. Cardinality(below(i)) # Cardinality(below(j))
    BY <1>2, <2>1, <2>2, FS_Subset
  <2> QED
    BY <1>2, <2>2, <2>3
<1>4. \A i, j \in K : Cardinality(below(i)) = Cardinality(below(j)) => i = j
  <2> SUFFICES ASSUME NEW i \in K, NEW j \in K, Cardinality(below(i)) = Cardinality(below(j)) PROVE i = j
    OBVIOUS
  <2> HIDE DEF below
  <2>1. i \in Int /\ j \in Int /\ ~(i < j) /\ ~(j < i)
    BY <1>2, <1>3
  <2> QED
    BY <2>1
<1>5. \A k \in 1 .. Cardinality(K) : at(k) \in K /\ Cardinality(below(at(k))) = k
  <2> TAKE k \in 1 .. Cardinality(K)
  <2>1. \E i \in K : Cardinality(below(i)) = k
    BY Ranked
  <2> HIDE DEF below
  <2> QED
    BY <2>1
<1>6. InOrder(K) = [k \in 1 .. Cardinality(K) |-> at(k)]
  BY DEF InOrder, Rank
<1>7. \A i \in K : \E k \in 1 .. Cardinality(K) : at(k) = i /\ Cardinality(below(i)) = k
  <2> TAKE i \in K
  <2> DEFINE k == Cardinality(below(i))
  <2>1. k \in 1 .. Cardinality(K)
    <3> HIDE DEF below
    <3> QED
      BY <1>1, <1>2
  <2>2. at(k) = i
    <3> HIDE DEF below, at
    <3> QED
      BY <1>4, <1>5, <2>1
  <2> HIDE DEF at, k, below
  <2> QED
    BY <2>1, <2>2 DEF k
<1>8. \A i : Rank(K, i) = Cardinality(below(i))
  BY DEF Rank
<1> HIDE DEF at, below
<1> QED
  BY <1>1, <1>3, <1>5, <1>6, <1>7, <1>8

-----------------------------------------------------------------------------
(* The group-by. *)

Ordered(batch, a, b) == \E k, l \in DOMAIN batch : k < l /\ batch[k] = a /\ batch[l] = b

\* The groups are batches of what was collected, none is empty, and two items
\* with one key are in one batch, in their order.
LEMMA GroupedBatches ==
    ASSUME NEW Elem, NEW ids, ids \in Seq(Elem), NEW mode, NEW file, NEW group
    PROVE  /\ Grouped(mode, ids, file, group) \in Seq(Seq(Elem))
           /\ \A b \in DOMAIN Grouped(mode, ids, file, group) : Grouped(mode, ids, file, group)[b] # << >>
           /\ \A i, j \in DOMAIN ids :
                 /\ i < j
                 /\ Key(mode, ids, file, group, i) = Key(mode, ids, file, group, j)
                 => \E b \in DOMAIN Grouped(mode, ids, file, group) :
                       Ordered(Grouped(mode, ids, file, group)[b], ids[i], ids[j])
<1> DEFINE n == Len(ids)
           key(i) == Key(mode, ids, file, group, i)
           Firsts == {i \in 1 .. n : \A j \in 1 .. i - 1 : key(j) # key(i)}
           Same(f) == {i \in 1 .. n : key(i) = key(f)}
           batch(f) == [j \in 1 .. Cardinality(Same(f)) |-> ids[InOrder(Same(f))[j]]]
           g == [k \in 1 .. Cardinality(Firsts) |-> batch(InOrder(Firsts)[k])]
<1>1. n \in Nat /\ DOMAIN ids = 1 .. n /\ \A i \in 1 .. n : ids[i] \in Elem
  OBVIOUS
<1>2. Firsts \in SUBSET (1 .. n) /\ \A f : Same(f) \in SUBSET (1 .. n)
  OBVIOUS
<1>3. Grouped(mode, ids, file, group) = g
  <2>1. Grouped(mode, ids, file, group) =
          [k \in DOMAIN InOrder(Firsts) |->
             [j \in DOMAIN InOrder(Same(InOrder(Firsts)[k])) |-> ids[InOrder(Same(InOrder(Firsts)[k]))[j]]]]
    BY <1>1 DEF Grouped
  <2> HIDE DEF Firsts, Same
  <2>2. DOMAIN InOrder(Firsts) = 1 .. Cardinality(Firsts)
    BY <1>1, <1>2, InOrderPositions
  <2>3. \A f : DOMAIN InOrder(Same(f)) = 1 .. Cardinality(Same(f))
    BY <1>1, <1>2, InOrderPositions
  <2> QED
    BY <2>1, <2>2, <2>3
<1>4. ASSUME NEW f \in 1 .. n
      PROVE  batch(f) \in Seq(Elem) /\ Len(batch(f)) = Cardinality(Same(f)) /\ batch(f) # << >>
  <2> DEFINE c == Cardinality(Same(f))
  <2>1. f \in Same(f)
    OBVIOUS
  <2> HIDE DEF Same
  <2>2. c \in Nat /\ \A k \in 1 .. c : InOrder(Same(f))[k] \in Same(f)
    BY <1>1, <1>2, InOrderPositions
  <2>3. c # 0
    <3>1. \E k \in 1 .. c : InOrder(Same(f))[k] = f
      <4>1. Same(f) \in SUBSET (1 .. n)
        BY <1>2
      <4> DEFINE K == Same(f)
      <4> HIDE DEF K
      <4>2. \E k \in 1 .. Cardinality(K) : InOrder(K)[k] = f
        BY <1>1, <2>1, <4>1, InOrderPositions, ZenonT(60) DEF K
      <4> QED
        BY <4>2 DEF K
    <3> HIDE DEF c
    <3> QED
      BY <2>2, <3>1
  <2>4. \A k \in 1 .. c : ids[InOrder(Same(f))[k]] \in Elem
    BY <1>1, <1>2, <2>2
  <2>5. batch(f) = [k \in 1 .. c |-> ids[InOrder(Same(f))[k]]]
    OBVIOUS
  <2> HIDE DEF batch, c
  <2> QED
    BY <2>2, <2>3, <2>4, <2>5 DEF c
<1>5. Cardinality(Firsts) \in Nat /\ \A k \in 1 .. Cardinality(Firsts) : InOrder(Firsts)[k] \in 1 .. n
  <2> HIDE DEF Firsts
  <2> QED
    BY <1>1, <1>2, InOrderPositions
<1>6. g \in Seq(Seq(Elem)) /\ \A b \in DOMAIN g : g[b] # << >>
  <2> HIDE DEF batch, Firsts
  <2>1. \A k \in 1 .. Cardinality(Firsts) :
          batch(InOrder(Firsts)[k]) \in Seq(Elem) /\ batch(InOrder(Firsts)[k]) # << >>
    BY <1>4, <1>5
  <2> QED
    BY <1>5, <2>1
<1>7. ASSUME NEW i \in 1 .. n, NEW j \in 1 .. n, i < j, key(i) = key(j)
      PROVE  \E b \in DOMAIN g : Ordered(g[b], ids[i], ids[j])
  <2> DEFINE K == Same(i)
             rank(m) == Rank(K, m)
             f == InOrder(K)[1]
  <2>1. i \in K /\ j \in K /\ K \in SUBSET (1 .. n)
    BY <1>7
  <2>2. /\ Cardinality(K) \in Nat
        /\ \A k \in 1 .. Cardinality(K) : InOrder(K)[k] \in K /\ rank(InOrder(K)[k]) = k
        /\ \A m \in K : \E k \in 1 .. Cardinality(K) : InOrder(K)[k] = m /\ rank(m) = k
        /\ \A m, l \in K : m < l => rank(m) < rank(l)
    <3> HIDE DEF K
    <3> QED
      BY <1>1, <2>1, InOrderPositions, ZenonT(60)
  <2>3. f \in K /\ rank(f) = 1
    <3> HIDE DEF K, rank
    <3>1. 1 \in 1 .. Cardinality(K)
      BY <2>1, <2>2
    <3> QED
      BY <2>2, <3>1
  <2>4. \A m \in K : ~(m < f)
    <3> HIDE DEF K, rank, f
    <3> QED
      BY <2>2, <2>3
  <2>5. f \in Firsts /\ key(f) = key(i)
    <3>1. f \in 1 .. n /\ key(f) = key(i)
      BY <2>3
    <3>2. \A m \in 1 .. f - 1 : m \in 1 .. n /\ m < f
      <4> HIDE DEF f
      <4> QED
        BY <1>1, <3>1
    <3>3. \A m \in 1 .. f - 1 : key(m) # key(f)
      <4> SUFFICES ASSUME NEW m \in 1 .. f - 1, key(m) = key(f) PROVE FALSE
        OBVIOUS
      <4>1. m \in K
        BY <3>1, <3>2
      <4> QED
        BY <2>4, <3>2, <4>1
    <3> QED
      BY <3>1, <3>3
  <2>6. Same(f) = K
    BY <2>5
  <2>7. PICK b \in 1 .. Cardinality(Firsts) : InOrder(Firsts)[b] = f
    <3> HIDE DEF Firsts, f
    <3> QED
      BY <1>1, <1>2, <2>5, InOrderPositions, ZenonT(60)
  <2>8. g[b] = [k \in 1 .. Cardinality(K) |-> ids[InOrder(K)[k]]] /\ b \in DOMAIN g
    <3> HIDE DEF Firsts, Same, f, K
    <3> QED
      BY <2>6, <2>7
  <2>9. PICK k \in 1 .. Cardinality(K) : InOrder(K)[k] = i /\ rank(i) = k
    <3> HIDE DEF K, rank
    <3> QED
      BY <2>1, <2>2
  <2>10. PICK l \in 1 .. Cardinality(K) : InOrder(K)[l] = j /\ rank(j) = l
    <3> HIDE DEF K, rank
    <3> QED
      BY <2>1, <2>2
  <2>11. k < l
    <3> HIDE DEF K, rank
    <3> QED
      BY <1>7, <2>1, <2>2, <2>9, <2>10
  <2> HIDE DEF g, K
  <2> QED
    BY <2>8, <2>9, <2>10, <2>11 DEF Ordered
<1> HIDE DEF g
<1> QED
  BY <1>1, <1>3, <1>6, <1>7

-----------------------------------------------------------------------------
(* The other ways to cut and to order. *)

\* The sort by length gives the same batches in some order.
LEMMA LongestFirstBatches ==
    ASSUME NEW B, NEW batches \in Seq(Seq(B))
    PROVE  /\ LongestFirst(batches) \in Seq(Seq(B))
           /\ DOMAIN LongestFirst(batches) = DOMAIN batches
           /\ \A k \in DOMAIN batches : \E b \in DOMAIN batches : LongestFirst(batches)[k] = batches[b]
           /\ \A b \in DOMAIN batches : \E k \in DOMAIN batches : LongestFirst(batches)[k] = batches[b]
           /\ \E p \in [DOMAIN batches -> DOMAIN batches] :
                 /\ \A k, l \in DOMAIN batches : p[k] = p[l] => k = l
                 /\ \A k \in DOMAIN batches : LongestFirst(batches)[k] = batches[p[k]]
                 /\ \A b \in DOMAIN batches : \E k \in DOMAIN batches : p[k] = b
<1> DEFINE n == Len(batches)
           D == 1 .. n
           before(b) == {a \in D : Precedes(batches, a, b)}
           rank == [b \in D |-> Cardinality(before(b))]
           at(k) == CHOOSE b \in D : Cardinality(before(b)) = k - 1
<1>1. n \in Nat /\ DOMAIN batches = D /\ \A b \in D : batches[b] \in Seq(B) /\ Len(batches[b]) \in Nat
  OBVIOUS
<1>2. /\ \A a \in D : ~Precedes(batches, a, a)
      /\ \A a, b \in D : a # b => Precedes(batches, a, b) \/ Precedes(batches, b, a)
      /\ \A a, b, c \in D : Precedes(batches, a, b) /\ Precedes(batches, b, c) => Precedes(batches, a, c)
  <2> DEFINE len(a) == Len(batches[a])
  <2>1. \A a \in D : a \in Int /\ len(a) \in Nat
    BY <1>1
  <2>2. \A a, b : Precedes(batches, a, b) <=> (len(a) > len(b) \/ (len(a) = len(b) /\ a < b))
    BY DEF Precedes
  <2> HIDE DEF len, D
  <2>3. \A a \in D : ~Precedes(batches, a, a)
    BY <2>1, <2>2
  <2>4. \A a, b \in D : a # b => Precedes(batches, a, b) \/ Precedes(batches, b, a)
    <3> SUFFICES ASSUME NEW a \in D, NEW b \in D, a # b
                 PROVE  Precedes(batches, a, b) \/ Precedes(batches, b, a)
      OBVIOUS
    <3>1. len(a) \in Int /\ len(b) \in Int /\ a \in Int /\ b \in Int
      BY <2>1
    <3>2. len(a) > len(b) \/ len(b) > len(a) \/ (len(a) = len(b) /\ a < b) \/ (len(b) = len(a) /\ b < a)
      BY <3>1
    <3> QED
      BY <2>2, <3>2
  <2>5. \A a, b, c \in D : Precedes(batches, a, b) /\ Precedes(batches, b, c) => Precedes(batches, a, c)
    <3> SUFFICES ASSUME NEW a \in D, NEW b \in D, NEW c \in D, Precedes(batches, a, b), Precedes(batches, b, c)
                 PROVE  Precedes(batches, a, c)
      OBVIOUS
    <3>1. /\ len(a) \in Int /\ len(b) \in Int /\ len(c) \in Int
          /\ a \in Int /\ b \in Int /\ c \in Int
      BY <2>1
    <3>2. len(a) > len(b) \/ (len(a) = len(b) /\ a < b)
      BY <2>2
    <3>3. len(b) > len(c) \/ (len(b) = len(c) /\ b < c)
      BY <2>2
    <3>4. len(a) > len(c) \/ (len(a) = len(c) /\ a < c)
      BY <3>1, <3>2, <3>3
    <3> QED
      BY <2>2, <3>4
  <2> QED
    BY <2>3, <2>4, <2>5
<1>3. IsFiniteSet(D) /\ Cardinality(D) = n
  BY <1>1, FS_Interval
<1>4. \A b \in D : /\ before(b) \in SUBSET D /\ b \notin before(b)
                   /\ IsFiniteSet(before(b)) /\ Cardinality(before(b)) \in 0 .. n - 1
  <2> TAKE b \in D
  <2>1. before(b) \in SUBSET D /\ b \notin before(b)
    BY <1>2
  <2> HIDE DEF before, D
  <2>2. IsFiniteSet(before(b)) /\ Cardinality(before(b)) <= n /\ Cardinality(before(b)) # n
    BY <1>3, <2>1, FS_Subset
  <2>3. Cardinality(before(b)) \in Nat
    BY <2>2, FS_CardinalityType
  <2> QED
    BY <1>1, <2>1, <2>2, <2>3
<1>5. \A a, b \in D : Precedes(batches, a, b) => Cardinality(before(a)) < Cardinality(before(b))
  <2> SUFFICES ASSUME NEW a \in D, NEW b \in D, Precedes(batches, a, b)
               PROVE  Cardinality(before(a)) < Cardinality(before(b))
    OBVIOUS
  <2>1. before(a) \in SUBSET before(b) /\ a \in before(b) /\ a \notin before(a)
    BY <1>2
  <2> HIDE DEF before, D
  <2>2. Cardinality(before(a)) <= Cardinality(before(b)) /\ Cardinality(before(a)) # Cardinality(before(b))
    BY <1>4, <2>1, FS_Subset
  <2> QED
    BY <1>4, <2>2
<1>6. \A a, b \in D : Cardinality(before(a)) = Cardinality(before(b)) => a = b
  <2> HIDE DEF before, D
  <2> QED
    BY <1>2, <1>4, <1>5
<1>7. rank \in Surjection(D, 0 .. n - 1)
  <2> DEFINE R == 0 .. n - 1
  <2>1. rank \in [D -> R]
    <3> HIDE DEF before, D
    <3> QED
      BY <1>4
  <2>2. rank \in Injection(D, R)
    <3>1. \A a, b \in D : rank[a] = rank[b] => a = b
      <4> HIDE DEF before, D
      <4> QED
        BY <1>6
    <3> HIDE DEF rank, R, D
    <3> QED
      BY <2>1, <3>1 DEF Injection, IsInjective
  <2>3. IsFiniteSet(R) /\ Cardinality(R) = n
    <3>1. 0 \in Int /\ n - 1 \in Int
      BY <1>1
    <3> DEFINE top == n - 1
    <3> HIDE DEF top
    <3>2. IsFiniteSet(0 .. top) /\ Cardinality(0 .. top) = (IF 0 > top THEN 0 ELSE top - 0 + 1)
      BY <3>1, FS_Interval DEF top
    <3>3. (IF 0 > top THEN 0 ELSE top - 0 + 1) = n
      BY <1>1 DEF top
    <3> QED
      BY <3>2, <3>3 DEF top
  <2> HIDE DEF rank, R, D
  <2> QED
    BY <1>3, <2>2, <2>3, FS_Injection DEF R
<1>8. \A k \in D : at(k) \in D /\ Cardinality(before(at(k))) = k - 1
  <2> TAKE k \in D
  <2>1. k - 1 \in 0 .. n - 1
    BY <1>1
  <2>2. \E b \in D : Cardinality(before(b)) = k - 1
    <3>1. \E b \in D : rank[b] = k - 1
      <4> HIDE DEF rank, D
      <4> QED
        BY <1>7, <2>1 DEF Surjection
    <3> HIDE DEF before
    <3> QED
      BY <3>1
  <2> HIDE DEF before, D
  <2> QED
    BY <2>2
<1>9. LongestFirst(batches) = [k \in D |-> batches[at(k)]]
  BY <1>1 DEF LongestFirst
<1>10. \A b \in D : \E k \in D : at(k) = b
  <2> TAKE b \in D
  <2> DEFINE k == Cardinality(before(b)) + 1
  <2>1. k \in D /\ k - 1 = Cardinality(before(b))
    <3>1. Cardinality(before(b)) \in 0 .. n - 1
      BY <1>4
    <3> HIDE DEF before
    <3> QED
      BY <1>1, <3>1
  <2>2. at(k) = b
    <3> HIDE DEF before, D, at, k
    <3> QED
      BY <1>6, <1>8, <2>1
  <2> HIDE DEF at, k, D
  <2> QED
    BY <2>1, <2>2
<1>11. \E p \in [D -> D] : /\ \A k, l \in D : p[k] = p[l] => k = l
                          /\ \A k \in D : LongestFirst(batches)[k] = batches[p[k]]
                          /\ \A b \in D : \E m \in D : p[m] = b
  <2> DEFINE p == [k \in D |-> at(k)]
  <2> HIDE DEF at, before
  <2>1. p \in [D -> D] /\ \A k \in D : LongestFirst(batches)[k] = batches[p[k]]
    BY <1>8, <1>9
  <2>2. \A k, l \in D : p[k] = p[l] => k = l
    <3> SUFFICES ASSUME NEW k \in D, NEW l \in D, p[k] = p[l] PROVE k = l
      OBVIOUS
    <3>1. k - 1 = l - 1
      BY <1>8
    <3> QED
      BY <1>1, <3>1
  <2>3. \A b \in D : \E m \in D : p[m] = b
    BY <1>10
  <2> HIDE DEF p
  <2> QED
    BY <2>1, <2>2, <2>3
<1> HIDE DEF at, before
<1>12. DOMAIN LongestFirst(batches) = D
  BY <1>9
<1>13. LongestFirst(batches) \in Seq(Seq(B))
  BY <1>1, <1>8, <1>9
<1>14. D = DOMAIN batches
  BY <1>1
<1>15. \A k \in D : \E b \in D : LongestFirst(batches)[k] = batches[b]
  BY <1>8, <1>9
<1>16. \A b \in D : \E k \in D : LongestFirst(batches)[k] = batches[b]
  BY <1>9, <1>10
<1> HIDE DEF D, rank, n
<1>17. \E p \in [DOMAIN batches -> DOMAIN batches] :
          /\ \A k, l \in DOMAIN batches : p[k] = p[l] => k = l
          /\ \A k \in DOMAIN batches : LongestFirst(batches)[k] = batches[p[k]]
          /\ \A b \in DOMAIN batches : \E k \in DOMAIN batches : p[k] = b
  <2>1. PICK p \in [D -> D] : /\ \A k, l \in D : p[k] = p[l] => k = l
                             /\ \A k \in D : LongestFirst(batches)[k] = batches[p[k]]
                             /\ \A b \in D : \E m \in D : p[m] = b
    BY <1>11
  <2>2. /\ p \in [DOMAIN batches -> DOMAIN batches]
        /\ \A k, l \in DOMAIN batches : p[k] = p[l] => k = l
        /\ \A k \in DOMAIN batches : LongestFirst(batches)[k] = batches[p[k]]
        /\ \A b \in DOMAIN batches : \E m \in DOMAIN batches : p[m] = b
    BY <1>14, <2>1
  <2> QED
    BY <2>2
<1> QED
  BY <1>12, <1>13, <1>14, <1>15, <1>16, <1>17, Zenon

\* The chunks are non-empty sequences of what was collected.
LEMMA ChunksBatches ==
    ASSUME NEW Elem, NEW ids \in Seq(Elem), NEW size \in Nat \ {0}
    PROVE  /\ Chunks(ids, size) \in Seq(Seq(Elem))
           /\ \A b \in DOMAIN Chunks(ids, size) : Chunks(ids, size)[b] # << >>
<1> DEFINE n == Len(ids)
           c == (n + size - 1) \div size
           chunk(k) == SubSeq(ids, (k - 1) * size + 1, Smaller(k * size, n))
<1>1. n \in Nat /\ c \in Nat /\ c * size <= n + size - 1
  OBVIOUS
<1>2. \A k \in 1 .. c : chunk(k) \in Seq(Elem) /\ chunk(k) # << >>
  <2> TAKE k \in 1 .. c
  <2>1. k * size \in Nat /\ (k - 1) * size \in Nat /\ (k - 1) * size = k * size - size
    <3> HIDE DEF c
    <3> QED
      BY <1>1
  <2>2. k * size <= c * size /\ c * size \in Int
    <3> HIDE DEF c
    <3> QED
      BY <1>1
  <2> DEFINE lo == (k - 1) * size + 1
             hi == Smaller(k * size, n)
  <2>3. lo \in 1 .. n /\ hi \in lo .. n
    <3> DEFINE ks == k * size
               js == (k - 1) * size
               cs == c * size
    <3>1. ks \in Nat /\ js \in Nat /\ js = ks - size /\ ks <= cs /\ cs \in Int /\ cs <= n + size - 1
      BY <1>1, <2>1, <2>2
    <3>2. lo = js + 1 /\ hi = Smaller(ks, n)
      OBVIOUS
    <3> HIDE DEF ks, js, cs, lo, hi, n
    <3>3. lo \in Nat /\ 1 <= lo /\ lo <= n
      BY <1>1, <3>1, <3>2
    <3>4. hi \in Nat /\ lo <= hi /\ hi <= n
      BY <1>1, <3>1, <3>2, <3>3 DEF Smaller
    <3> QED
      BY <1>1, <3>3, <3>4
  <2>4. chunk(k) = SubSeq(ids, lo, hi)
    OBVIOUS
  <2> HIDE DEF lo, hi, chunk
  <2>5. SubSeq(ids, lo, hi) \in Seq(Elem) /\ Len(SubSeq(ids, lo, hi)) = hi - lo + 1
    BY <2>3
  <2>6. hi - lo + 1 >= 1
    <3> HIDE DEF n
    <3> QED
      BY <1>1, <2>3
  <2>7. SubSeq(ids, lo, hi) # << >>
    <3>1. Len(SubSeq(ids, lo, hi)) # 0
      BY <2>5, <2>6
    <3>2. Len(<< >>) = 0
      OBVIOUS
    <3> QED
      BY <3>1, <3>2
  <2> QED
    BY <2>4, <2>5, <2>7
<1>3. Chunks(ids, size) = [k \in 1 .. c |-> chunk(k)]
  BY DEF Chunks
<1> HIDE DEF chunk, c
<1>4. [k \in 1 .. c |-> chunk(k)] \in Seq(Seq(Elem))
  <2> DEFINE B == Seq(Elem)
  <2>1. \A k \in 1 .. c : chunk(k) \in B
    BY <1>2
  <2> HIDE DEF B
  <2>2. [k \in 1 .. c |-> chunk(k)] \in Seq(B)
    BY <1>1, <2>1
  <2> QED
    BY <2>2 DEF B
<1> QED
  BY <1>1, <1>2, <1>3, <1>4

\* Repeating a list of batches adds no other.
LEMMA RepeatedBatches ==
    ASSUME NEW B, NEW base, base \in Seq(B), NEW times, times \in Nat
    PROVE  /\ Repeated(base, times) \in Seq(B)
           /\ \A k \in DOMAIN Repeated(base, times) :
                 \E b \in DOMAIN base : Repeated(base, times)[k] = base[b]
<1> DEFINE n == Len(base)
           at(k) == ((k - 1) % n) + 1
<1>1. n \in Nat /\ n * times \in Nat
  OBVIOUS
<1>2. \A k \in 1 .. n * times : at(k) \in 1 .. n
  <2> TAKE k \in 1 .. n * times
  <2>1. n # 0
    BY <1>1
  <2>2. (k - 1) % n \in 0 .. n - 1
    <3> HIDE DEF n
    <3> QED
      BY <1>1, <2>1
  <2> QED
    BY <1>1, <2>2
<1>3. Repeated(base, times) = [k \in 1 .. n * times |-> base[at(k)]]
  BY DEF Repeated
<1>4. \A k \in 1 .. n * times : base[at(k)] \in B
  BY <1>2
<1> DEFINE m == n * times
<1> HIDE DEF at, m
<1>5. [k \in 1 .. m |-> base[at(k)]] \in Seq(B)
  BY <1>1, <1>4 DEF m
<1> QED
  BY <1>1, <1>2, <1>3, <1>5 DEF m

\* Whatever the mode, the batches are non-empty sequences of what was collected.
LEMMA BuildBatchesBatches ==
    ASSUME NEW Elem, NEW ids \in Seq(Elem), NEW mode, NEW file, NEW group,
           NEW workers \in Nat \ {0}, NEW reorder
    PROVE  /\ BuildBatches(mode, ids, file, group, workers, reorder) \in Seq(Seq(Elem))
           /\ \A b \in DOMAIN BuildBatches(mode, ids, file, group, workers, reorder) :
                 BuildBatches(mode, ids, file, group, workers, reorder)[b] # << >>
<1> DEFINE g == Grouped(mode, ids, file, group)
           c == Chunks(ids, ChunkSize(Len(ids), workers))
           all == BuildBatches(mode, ids, file, group, workers, reorder)
<1>1. g \in Seq(Seq(Elem)) /\ \A b \in DOMAIN g : g[b] # << >>
  BY GroupedBatches
<1>2. c \in Seq(Seq(Elem)) /\ \A b \in DOMAIN c : c[b] # << >>
  <2>1. ChunkSize(Len(ids), workers) \in Nat \ {0}
    <3>1. Len(ids) \in Nat /\ (Len(ids) \div workers) \div 4 \in Int
      OBVIOUS
    <3> QED
      BY <3>1 DEF ChunkSize, Larger
  <2> QED
    BY <2>1, ChunksBatches
<1>3. /\ LongestFirst(g) \in Seq(Seq(Elem))
      /\ \A k \in DOMAIN LongestFirst(g) : \E b \in DOMAIN g : LongestFirst(g)[k] = g[b]
  BY <1>1, LongestFirstBatches
<1>4. /\ Repeated(g, workers) \in Seq(Seq(Elem))
      /\ \A k \in DOMAIN Repeated(g, workers) : \E b \in DOMAIN g : Repeated(g, workers)[k] = g[b]
  <2> DEFINE Items == Seq(Elem)
  <2>1. g \in Seq(Items) /\ workers \in Nat
    BY <1>1
  <2> HIDE DEF Items, g, c, all
  <2>2. /\ Repeated(g, workers) \in Seq(Items)
        /\ \A k \in DOMAIN Repeated(g, workers) :
              \E b \in DOMAIN g : Repeated(g, workers)[k] = g[b]
    BY <2>1, RepeatedBatches
  <2> QED
    BY <2>2 DEF Items
<1>5. all \in {g, c, LongestFirst(g), Repeated(g, workers)}
  BY DEF BuildBatches
<1> HIDE DEF g, c, all
<1> QED
  BY <1>1, <1>2, <1>3, <1>4, <1>5 DEF all

-----------------------------------------------------------------------------
(* Every item is at one place.                                             *)

Injective(ids) == \A i, j \in DOMAIN ids : ids[i] = ids[j] => i = j

Apart(batches) ==
    \A i, k \in DOMAIN batches :
        \A j \in DOMAIN batches[i], l \in DOMAIN batches[k] :
            batches[i][j] = batches[k][l] => i = k /\ j = l

\* Each position is in the order once.
LEMMA InOrderOnce ==
    ASSUME NEW n \in Nat, NEW K \in SUBSET (1 .. n)
    PROVE  \A i, k \in DOMAIN InOrder(K) :
              InOrder(K)[i] \in K /\ (InOrder(K)[i] = InOrder(K)[k] => i = k)
<1>1. /\ DOMAIN InOrder(K) = 1 .. Cardinality(K)
      /\ \A i \in 1 .. Cardinality(K) : InOrder(K)[i] \in K /\ Rank(K, InOrder(K)[i]) = i
  BY InOrderPositions
<1> QED
  BY <1>1

\* The batches are the collection, cut into pieces: their places are the
\* positions of the collection, each once.
Cut(ids, batches) ==
    \E at :
        /\ \A k \in DOMAIN batches : \A j \in DOMAIN batches[k] :
              at[k][j] \in DOMAIN ids /\ batches[k][j] = ids[at[k][j]]
        /\ \A i, k \in DOMAIN batches : \A j \in DOMAIN batches[i], l \in DOMAIN batches[k] :
              at[i][j] = at[k][l] => i = k /\ j = l
        /\ \A p \in DOMAIN ids : \E k \in DOMAIN batches : \E j \in DOMAIN batches[k] : at[k][j] = p

LEMMA CutApart ==
    ASSUME NEW ids, NEW batches, Cut(ids, batches), Injective(ids)
    PROVE  Apart(batches)
<1>1. PICK at :
        /\ \A k \in DOMAIN batches : \A j \in DOMAIN batches[k] :
              at[k][j] \in DOMAIN ids /\ batches[k][j] = ids[at[k][j]]
        /\ \A i, k \in DOMAIN batches : \A j \in DOMAIN batches[i], l \in DOMAIN batches[k] :
              at[i][j] = at[k][l] => i = k /\ j = l
  BY DEF Cut
<1> SUFFICES ASSUME NEW i \in DOMAIN batches, NEW k \in DOMAIN batches,
                    NEW j \in DOMAIN batches[i], NEW l \in DOMAIN batches[k],
                    batches[i][j] = batches[k][l]
             PROVE  i = k /\ j = l
  BY DEF Apart
<1>2. PICK a : a = at[i][j]
  OBVIOUS
<1>3. PICK b : b = at[k][l]
  OBVIOUS
<1>4. a \in DOMAIN ids /\ batches[i][j] = ids[a]
  BY <1>1, <1>2
<1>5. b \in DOMAIN ids /\ batches[k][l] = ids[b]
  BY <1>1, <1>3
<1>6. a = b
  BY <1>4, <1>5 DEF Injective
<1>7. at[i][j] = at[k][l]
  BY <1>2, <1>3, <1>6
<1> QED
  BY <1>1, <1>7

LEMMA CutCovers ==
    ASSUME NEW ids, NEW batches, Cut(ids, batches)
    PROVE  \A p \in DOMAIN ids : \E k \in DOMAIN batches : \E j \in DOMAIN batches[k] : batches[k][j] = ids[p]
BY DEF Cut

\* f is the first item with the key of i.
Leads(mode, ids, file, group, f, i) ==
    /\ Key(mode, ids, file, group, f) = Key(mode, ids, file, group, i)
    /\ \A m \in 1 .. f - 1 : Key(mode, ids, file, group, m) # Key(mode, ids, file, group, f)

\* A key has a first item.
LEMMA KeyFirst ==
    ASSUME NEW n \in Nat, NEW ids, NEW mode, NEW file, NEW group, NEW i \in 1 .. n
    PROVE  \E f \in 1 .. n : Leads(mode, ids, file, group, f, i)
<1> USE DEF Leads
<1> DEFINE key(m) == Key(mode, ids, file, group, m)
           S == {m \in Nat : m \in 1 .. n /\ key(m) = key(i)}
<1>1. i \in S
  OBVIOUS
<1>2. PICK f \in S : \A m \in S : <<m, f>> \notin OpToRel(<, Nat)
  BY <1>1, NatLessThanWellFounded, WFMin
<1>3. \A m \in S : ~(m < f)
  BY <1>2 DEF OpToRel
<1>4. f \in 1 .. n /\ \A m \in 1 .. f - 1 : m \in 1 .. n /\ m \in Nat /\ m < f
  <2>1. f \in 1 .. n
    BY <1>2
  <2> HIDE DEF S
  <2> QED
    BY <2>1
<1>5. \A m \in 1 .. f - 1 : key(m) # key(f)
  <2> SUFFICES ASSUME NEW m \in 1 .. f - 1, key(m) = key(f) PROVE FALSE
    OBVIOUS
  <2>1. m \in S
    BY <1>2, <1>4
  <2> HIDE DEF S
  <2> QED
    BY <1>3, <1>4, <2>1
<1> QED
  BY <1>2, <1>5

\* Each position is in the group of its key, once.
LEMMA GroupedCut ==
    ASSUME NEW Elem, NEW ids, ids \in Seq(Elem), NEW mode, NEW file, NEW group
    PROVE  Cut(ids, Grouped(mode, ids, file, group))
<1> DEFINE n == Len(ids)
           key(i) == Key(mode, ids, file, group, i)
           Firsts == {i \in 1 .. n : \A j \in 1 .. i - 1 : key(j) # key(i)}
           Same(f) == {i \in 1 .. n : key(i) = key(f)}
           first(k) == InOrder(Firsts)[k]
           at(k, j) == InOrder(Same(first(k)))[j]
           g == Grouped(mode, ids, file, group)
<1>1. n \in Nat /\ DOMAIN ids = 1 .. n
  OBVIOUS
<1>2. Firsts \in SUBSET (1 .. n) /\ \A f : Same(f) \in SUBSET (1 .. n)
  OBVIOUS
<1>3. g = [k \in DOMAIN InOrder(Firsts) |-> [j \in DOMAIN InOrder(Same(first(k))) |-> ids[at(k, j)]]]
  BY <1>1 DEF Grouped
<1>4. \A i, k \in DOMAIN InOrder(Firsts) : first(i) \in Firsts /\ (first(i) = first(k) => i = k)
  <2> HIDE DEF Firsts
  <2> QED
    BY <1>1, <1>2, InOrderOnce
<1>5. ASSUME NEW f
      PROVE  \A j, l \in DOMAIN InOrder(Same(f)) :
                InOrder(Same(f))[j] \in Same(f) /\ (InOrder(Same(f))[j] = InOrder(Same(f))[l] => j = l)
  <2> DEFINE K == Same(f)
  <2>1. K \in SUBSET (1 .. n)
    BY <1>2
  <2> HIDE DEF K
  <2>2. \A j, l \in DOMAIN InOrder(K) : InOrder(K)[j] \in K /\ (InOrder(K)[j] = InOrder(K)[l] => j = l)
    BY <1>1, <2>1, InOrderOnce
  <2> QED
    BY <2>2 DEF K
<1>6. \A a, b \in Firsts : key(a) = key(b) => a = b
  <2> SUFFICES ASSUME NEW a \in Firsts, NEW b \in Firsts, key(a) = key(b), a # b PROVE FALSE
    OBVIOUS
  <2>1. a \in 1 .. n /\ b \in 1 .. n /\ (a \in 1 .. b - 1 \/ b \in 1 .. a - 1)
    BY <1>1
  <2> QED
    BY <2>1
<1>7. \A k \in DOMAIN g : /\ k \in DOMAIN InOrder(Firsts)
                         /\ DOMAIN g[k] = DOMAIN InOrder(Same(first(k)))
                         /\ \A j \in DOMAIN g[k] : g[k][j] = ids[at(k, j)]
  <2> HIDE DEF Firsts, Same
  <2> QED
    BY <1>3
<1>8. \A k \in DOMAIN g : \A j \in DOMAIN g[k] :
        at(k, j) \in DOMAIN ids /\ g[k][j] = ids[at(k, j)] /\ key(at(k, j)) = key(first(k))
  <2> TAKE k \in DOMAIN g
  <2> TAKE j \in DOMAIN g[k]
  <2>1. at(k, j) \in Same(first(k)) /\ g[k][j] = ids[at(k, j)]
    <3> HIDE DEF g, Firsts, Same
    <3> QED
      BY <1>5, <1>7
  <2> QED
    BY <1>1, <2>1
<1>9. ASSUME NEW i \in DOMAIN g, NEW k \in DOMAIN g, NEW j \in DOMAIN g[i], NEW l \in DOMAIN g[k],
             at(i, j) = at(k, l)
      PROVE  i = k /\ j = l
  <2>1. key(first(i)) = key(first(k))
    <3> HIDE DEF g, at, key, first
    <3> QED
      BY <1>8, <1>9
  <2>2. i = k
    <3> HIDE DEF g, key, Firsts
    <3> QED
      BY <1>4, <1>6, <1>7, <2>1, ZenonT(60)
  <2>3. j = l
    <3> HIDE DEF g, key, Firsts, Same
    <3> QED
      BY <1>5, <1>7, <1>9, <2>2
  <2> QED
    BY <2>2, <2>3
<1>10. ASSUME NEW p \in 1 .. n
       PROVE  \E k \in DOMAIN g : \E j \in DOMAIN g[k] : at(k, j) = p
  <2>1. PICK f \in 1 .. n : key(f) = key(p) /\ \A m \in 1 .. f - 1 : key(m) # key(f)
    <3>1. \E f \in 1 .. n : Leads(mode, ids, file, group, f, p)
      <4> HIDE DEF n
      <4> QED
        BY <1>1, KeyFirst
    <3> QED
      BY <3>1 DEF Leads
  <2>2. f \in Firsts
    BY <2>1
  <2>3. PICK b \in DOMAIN InOrder(Firsts) : first(b) = f
    <3> HIDE DEF Firsts
    <3> QED
      BY <1>1, <1>2, <2>2, InOrderPositions, ZenonT(60)
  <2> DEFINE K == Same(f)
  <2>4. p \in K /\ K \in SUBSET (1 .. n)
    BY <2>1
  <2> HIDE DEF K
  <2>5. PICK j \in DOMAIN InOrder(K) : InOrder(K)[j] = p
    BY <1>1, <2>4, InOrderPositions, ZenonT(60)
  <2>6. b \in DOMAIN g /\ j \in DOMAIN g[b] /\ at(b, j) = p
    <3>1. Same(first(b)) = K
      BY <2>3 DEF K
    <3> HIDE DEF Firsts, Same, first, key
    <3> QED
      BY <1>3, <2>3, <2>5, <3>1
  <2> QED
    BY <2>6
<1> HIDE DEF g, at, key, Firsts, Same, first
<1> DEFINE places == [k \in DOMAIN g |-> [j \in DOMAIN g[k] |-> at(k, j)]]
<1>11. \A k \in DOMAIN g : \A j \in DOMAIN g[k] : places[k][j] = at(k, j)
  OBVIOUS
<1> HIDE DEF places
<1>12. Cut(ids, g)
  <2>1. \A k \in DOMAIN g : \A j \in DOMAIN g[k] : places[k][j] \in DOMAIN ids /\ g[k][j] = ids[places[k][j]]
    BY <1>8, <1>11
  <2>2. \A i, k \in DOMAIN g : \A j \in DOMAIN g[i], l \in DOMAIN g[k] :
          places[i][j] = places[k][l] => i = k /\ j = l
    BY <1>9, <1>11
  <2>3. \A p \in DOMAIN ids : \E k \in DOMAIN g : \E j \in DOMAIN g[k] : places[k][j] = p
    BY <1>1, <1>10, <1>11
  <2> QED
    BY <2>1, <2>2, <2>3 DEF Cut
<1> QED
  BY <1>12 DEF g

\* The same batches in another order.
LEMMA LongestFirstCut ==
    ASSUME NEW B, NEW batches, batches \in Seq(Seq(B)), NEW ids, Cut(ids, batches)
    PROVE  Cut(ids, LongestFirst(batches))
<1> DEFINE s == LongestFirst(batches)
<1>1. PICK p :
        /\ p \in [DOMAIN batches -> DOMAIN batches]
        /\ \A k, l \in DOMAIN batches : p[k] = p[l] => k = l
        /\ \A k \in DOMAIN batches : s[k] = batches[p[k]]
        /\ \A b \in DOMAIN batches : \E k \in DOMAIN batches : p[k] = b
  <2>1. \E p \in [DOMAIN batches -> DOMAIN batches] :
          /\ \A k, l \in DOMAIN batches : p[k] = p[l] => k = l
          /\ \A k \in DOMAIN batches : s[k] = batches[p[k]]
          /\ \A b \in DOMAIN batches : \E k \in DOMAIN batches : p[k] = b
    BY LongestFirstBatches
  <2> HIDE DEF s
  <2> QED
    BY <2>1
<1>2. DOMAIN s = DOMAIN batches
  BY LongestFirstBatches
<1>3. PICK at :
        /\ \A k \in DOMAIN batches : \A j \in DOMAIN batches[k] :
              at[k][j] \in DOMAIN ids /\ batches[k][j] = ids[at[k][j]]
        /\ \A i, k \in DOMAIN batches : \A j \in DOMAIN batches[i], l \in DOMAIN batches[k] :
              at[i][j] = at[k][l] => i = k /\ j = l
        /\ \A q \in DOMAIN ids : \E k \in DOMAIN batches : \E j \in DOMAIN batches[k] : at[k][j] = q
  BY DEF Cut
<1> HIDE DEF s
<1> DEFINE places == [k \in DOMAIN s |-> at[p[k]]]
<1>4. \A k \in DOMAIN s : p[k] \in DOMAIN batches /\ places[k] = at[p[k]] /\ s[k] = batches[p[k]]
  BY <1>1, <1>2
<1> HIDE DEF places
<1>5. ASSUME NEW k \in DOMAIN s, NEW j \in DOMAIN s[k]
      PROVE  places[k][j] \in DOMAIN ids /\ s[k][j] = ids[places[k][j]]
  <2>1. PICK a \in DOMAIN batches : a = p[k] /\ places[k] = at[a] /\ s[k] = batches[a]
    BY <1>4
  <2>2. j \in DOMAIN batches[a] /\ places[k][j] = at[a][j] /\ s[k][j] = batches[a][j]
    BY <2>1
  <2> QED
    BY <1>3, <2>2
<1>6. ASSUME NEW i \in DOMAIN s, NEW k \in DOMAIN s, NEW j \in DOMAIN s[i], NEW l \in DOMAIN s[k],
             places[i][j] = places[k][l]
      PROVE  i = k /\ j = l
  <2>1. PICK a \in DOMAIN batches : a = p[i] /\ places[i] = at[a] /\ s[i] = batches[a]
    BY <1>4
  <2>2. PICK b \in DOMAIN batches : b = p[k] /\ places[k] = at[b] /\ s[k] = batches[b]
    BY <1>4
  <2>3. j \in DOMAIN batches[a] /\ l \in DOMAIN batches[b] /\ at[a][j] = at[b][l]
    BY <1>6, <2>1, <2>2
  <2>4. a = b /\ j = l
    BY <1>3, <2>3
  <2> QED
    BY <1>1, <1>2, <2>1, <2>2, <2>4
<1>7. \A q \in DOMAIN ids : \E k \in DOMAIN s : \E j \in DOMAIN s[k] : places[k][j] = q
  <2> TAKE q \in DOMAIN ids
  <2>1. PICK b \in DOMAIN batches : \E j \in DOMAIN batches[b] : at[b][j] = q
    BY <1>3
  <2>2. PICK k \in DOMAIN s : p[k] = b
    BY <1>1, <1>2
  <2> QED
    BY <1>4, <2>1, <2>2
<1>8. Cut(ids, s)
  <2>1. \A k \in DOMAIN s : \A j \in DOMAIN s[k] : places[k][j] \in DOMAIN ids /\ s[k][j] = ids[places[k][j]]
    BY <1>5
  <2>2. \A i, k \in DOMAIN s : \A j \in DOMAIN s[i], l \in DOMAIN s[k] :
          places[i][j] = places[k][l] => i = k /\ j = l
    BY <1>6
  <2> QED
    BY <1>7, <2>1, <2>2 DEF Cut
<1> QED
  BY <1>8 DEF s

\* Chunks follow each other.
LEMMA ChunksCut ==
    ASSUME NEW Elem, NEW ids, ids \in Seq(Elem), NEW size, size \in Nat \ {0}
    PROVE  Cut(ids, Chunks(ids, size))
<1> DEFINE n == Len(ids)
           c == (n + size - 1) \div size
           lo(k) == (k - 1) * size
           hi(k) == Smaller(k * size, n)
           s == Chunks(ids, size)
<1>1. n \in Nat /\ c \in Nat /\ c * size <= n + size - 1
  OBVIOUS
<1>2. s = [k \in 1 .. c |-> SubSeq(ids, lo(k) + 1, hi(k))]
  BY DEF Chunks
<1>3. \A k \in 1 .. c : /\ k \in Nat /\ lo(k) \in Nat /\ lo(k) + size = k * size
                        /\ hi(k) \in Nat /\ hi(k) <= lo(k) + size /\ hi(k) <= n
  <2> TAKE k \in 1 .. c
  <2>1. k \in Nat /\ k >= 1 /\ k * size \in Nat /\ (k - 1) * size \in Nat /\ (k - 1) * size = k * size - size
    <3> HIDE DEF c
    <3> QED
      BY <1>1
  <2> DEFINE ks == k * size
  <2> HIDE DEF ks, n
  <2>2. Smaller(ks, n) \in Nat /\ Smaller(ks, n) <= ks /\ Smaller(ks, n) <= n
    BY <1>1, <2>1 DEF ks, Smaller
  <2> QED
    BY <2>1, <2>2 DEF ks
<1>4. \A k \in 1 .. c :
        /\ DOMAIN s[k] = 1 .. hi(k) - lo(k)
        /\ \A j \in DOMAIN s[k] : /\ j \in Nat /\ 1 <= j /\ j <= size
                                 /\ lo(k) + j \in DOMAIN ids /\ s[k][j] = ids[lo(k) + j]
  <2> TAKE k \in 1 .. c
  <2> DEFINE l == lo(k)
             h == hi(k)
  <2>1. s[k] = SubSeq(ids, l + 1, h)
    <3> HIDE DEF s, c, lo, hi
    <3> QED
      BY <1>2
  <2>2. l \in Nat /\ h \in Nat /\ h <= l + size /\ h <= n
    BY <1>3
  <2> HIDE DEF l, h, s, c
  <2>3. /\ DOMAIN SubSeq(ids, l + 1, h) = 1 .. h - l
        /\ \A i \in 1 .. h - l : SubSeq(ids, l + 1, h)[i] = ids[l + i]
    BY <1>1, <2>2, SMTT(60) DEF n
  <2>4. DOMAIN s[k] = 1 .. h - l /\ \A j \in DOMAIN s[k] : s[k][j] = ids[l + j]
    BY <2>1, <2>3
  <2>5. \A j \in 1 .. h - l : j \in Nat /\ 1 <= j /\ j <= size /\ l + j \in 1 .. n
    BY <1>1, <2>2
  <2>6. 1 .. n = DOMAIN ids
    OBVIOUS
  <2>7. /\ DOMAIN s[k] = 1 .. h - l
        /\ \A j \in DOMAIN s[k] : j \in Nat /\ 1 <= j /\ j <= size /\ l + j \in DOMAIN ids /\ s[k][j] = ids[l + j]
    BY <2>4, <2>5, <2>6
  <2> QED
    BY <2>7 DEF l, h
<1>5. ASSUME NEW a \in 1 .. c, NEW b \in 1 .. c, a < b
      PROVE  lo(a) + size <= lo(b)
  <2>1. a \in Nat /\ b \in Nat /\ b - 1 - a \in Nat
    <3> HIDE DEF c
    <3> QED
      BY <1>1, <1>5
  <2>2. (b - 1 - a) * size \in Nat /\ (b - 1) * size = a * size + (b - 1 - a) * size
    BY <2>1
  <2>3. a * size \in Nat
    BY <2>1
  <2>4. lo(a) + size = a * size
    BY <1>3
  <2> QED
    BY <2>2, <2>3, <2>4
<1>6. DOMAIN s = 1 .. c
  BY <1>2
<1>10. ASSUME NEW q \in 1 .. n
      PROVE  \E k \in 1 .. c : \E j \in DOMAIN s[k] : lo(k) + j = q
  <2> DEFINE d == (q - 1) \div size
             r == (q - 1) % size
  <2>1. d \in Nat /\ r \in Nat /\ r < size /\ q - 1 = d * size + r
    <3>1. q - 1 \in Nat
      BY <1>1
    <3> HIDE DEF n
    <3> QED
      BY <3>1
  <2> HIDE DEF d, r
  <2>2. d + 1 \in 1 .. c
    <3>1. d * size + 1 <= n
      BY <1>1, <2>1
    <3>2. d + 1 <= c
      <4>1. CASE d + 1 > c
        <5>1. d >= c /\ d - c \in Nat
          BY <1>1, <2>1, <4>1
        <5>2. (d - c) * size \in Nat /\ d * size = c * size + (d - c) * size
          BY <1>1, <2>1, <5>1
        <5>3. c * size >= n
          BY <1>1
        <5> HIDE DEF c, n
        <5> QED
          BY <1>1, <2>1, <3>1, <5>2, <5>3
      <4> HIDE DEF c
      <4> QED
        BY <1>1, <2>1, <4>1
    <3> HIDE DEF c
    <3> QED
      BY <1>1, <2>1, <3>2
  <2> DEFINE k == d + 1
             l == lo(k)
             h == hi(k)
  <2>3. l = d * size /\ l \in Nat
    BY <2>1
  <2>4. k * size = l + size
    BY <1>3, <2>2
  <2>5. r + 1 \in 1 .. h - l /\ l + (r + 1) = q
    <3>1. h = Smaller(l + size, n)
      BY <2>4
    <3> HIDE DEF l, h, k, n
    <3> QED
      BY <1>1, <2>1, <2>3, <3>1 DEF Smaller
  <2>6. DOMAIN s[k] = 1 .. h - l
    BY <1>4, <2>2
  <2>7. k \in 1 .. c /\ r + 1 \in DOMAIN s[k] /\ lo(k) + (r + 1) = q
    BY <2>2, <2>5, <2>6
  <2> HIDE DEF k, s, c, lo
  <2> QED
    BY <2>7
<1> HIDE DEF s, c, lo, hi, n
<1>7. ASSUME NEW i \in 1 .. c, NEW k \in 1 .. c, NEW j \in DOMAIN s[i], NEW l \in DOMAIN s[k],
             lo(i) + j = lo(k) + l
      PROVE  i = k /\ j = l
  <2> DEFINE p == lo(i)
             q == lo(k)
  <2>a. p \in Nat /\ q \in Nat /\ (i < k => p + size <= q) /\ (k < i => q + size <= p)
    BY <1>3, <1>5
  <2>b. j \in Nat /\ l \in Nat /\ 1 <= j /\ j <= size /\ 1 <= l /\ l <= size /\ p + j = q + l
    BY <1>4, <1>7
  <2>c. i = k => p = q
    OBVIOUS
  <2> HIDE DEF p, q
  <2>2. ~(i < k) /\ ~(k < i)
    BY <2>a, <2>b
  <2>3. i = k
    BY <1>3, <2>2
  <2>4. j = l
    BY <2>a, <2>b, <2>c, <2>3
  <2> QED
    BY <2>3, <2>4
<1> DEFINE places == [k \in DOMAIN s |-> [j \in DOMAIN s[k] |-> lo(k) + j]]
<1>8. \A k \in DOMAIN s : \A j \in DOMAIN s[k] : places[k][j] = lo(k) + j
  OBVIOUS
<1> HIDE DEF places
<1>9. Cut(ids, s)
  <2>1. \A k \in DOMAIN s : \A j \in DOMAIN s[k] : places[k][j] \in DOMAIN ids /\ s[k][j] = ids[places[k][j]]
    BY <1>4, <1>6, <1>8
  <2>2. \A i, k \in DOMAIN s : \A j \in DOMAIN s[i], l \in DOMAIN s[k] :
          places[i][j] = places[k][l] => i = k /\ j = l
    BY <1>6, <1>7, <1>8
  <2>3. \A q \in DOMAIN ids : \E k \in DOMAIN s : \E j \in DOMAIN s[k] : places[k][j] = q
    BY <1>1, <1>6, <1>8, <1>10 DEF n
  <2> QED
    BY <2>1, <2>2, <2>3 DEF Cut
<1> QED
  BY <1>9 DEF s

\* A chunk is a stretch of two items or more, or the last item alone; while
\* items remain there are chunks, of two items or more.
LEMMA ChunkRuns ==
    ASSUME NEW Elem, NEW ids, ids \in Seq(Elem), NEW size, size \in Nat, size >= 2
    PROVE  /\ \A k \in DOMAIN Chunks(ids, size) : \E i, j \in DOMAIN ids :
                 /\ Chunks(ids, size)[k] = SubSeq(ids, i, j)
                 /\ i < j \/ (i = j /\ j = Len(ids))
           /\ \A k \in Nat \ {0} : k * size <= Len(ids) =>
                 k \in DOMAIN Chunks(ids, size) /\ Len(Chunks(ids, size)[k]) >= 2
<1> DEFINE n == Len(ids)
           c == (n + size - 1) \div size
           lo(k) == (k - 1) * size
           hi(k) == Smaller(k * size, n)
           s == Chunks(ids, size)
<1>1. n \in Nat /\ c \in Nat /\ c * size <= n + size - 1 /\ n <= c * size
  OBVIOUS
<1>2. s = [k \in 1 .. c |-> SubSeq(ids, lo(k) + 1, hi(k))]
  BY DEF Chunks
<1>3. DOMAIN ids = 1 .. n
  OBVIOUS
<1>4. ASSUME NEW k \in Nat \ {0} PROVE lo(k) \in Nat /\ k * size \in Nat /\ k * size = lo(k) + size
  OBVIOUS
<1>5. ASSUME NEW k \in 1 .. c
      PROVE  \E i, j \in DOMAIN ids : /\ s[k] = SubSeq(ids, i, j)
                                      /\ i < j \/ (i = j /\ j = n)
  <2> DEFINE ks == k * size
             l == lo(k)
             h == hi(k)
  <2>1. k \in Nat \ {0} /\ k <= c /\ c - k \in Nat
    <3> HIDE DEF c
    <3> QED
      BY <1>1
  <2>2. l \in Nat /\ ks \in Nat /\ ks = l + size
    BY <1>4, <2>1
  <2>3. ks <= c * size
    <3>1. c * size = k * size + (c - k) * size /\ (c - k) * size \in Nat
      <4> HIDE DEF c
      <4> QED
        BY <1>1, <2>1
    <3> HIDE DEF c
    <3> QED
      BY <1>1, <2>1, <2>2, <3>1
  <2>4. c * size \in Nat
    <3> HIDE DEF c
    <3> QED
      BY <1>1
  <2>5. h = Smaller(ks, n) /\ s[k] = SubSeq(ids, l + 1, h)
    <3>1. s[k] = SubSeq(ids, lo(k) + 1, hi(k))
      <4> HIDE DEF c, lo, hi, s
      <4> QED
        BY <1>2
    <3> QED
      BY <3>1
  <2> DEFINE cs == c * size
  <2>6. l + 1 \in 1 .. n /\ h \in 1 .. n /\ (l + 1 < h \/ (l + 1 = h /\ h = n))
    <3>1. cs \in Nat /\ cs <= n + size - 1 /\ ks <= cs
      BY <1>1, <2>3, <2>4
    <3> HIDE DEF n, c, cs, ks, l, h
    <3>2. CASE ks > n
      BY <1>1, <2>2, <2>5, <3>1, <3>2 DEF Smaller
    <3>3. CASE ks <= n
      BY <1>1, <2>2, <2>5, <3>1, <3>3 DEF Smaller
    <3> QED
      BY <1>1, <2>2, <3>2, <3>3
  <2> HIDE DEF l, h, n, s
  <2> QED
    BY <1>3, <2>5, <2>6
<1>6. ASSUME NEW k \in Nat \ {0}, k * size <= n
      PROVE  k \in 1 .. c /\ Len(s[k]) >= 2
  <2>1. k <= c
    <3>1. CASE k > c
      <4>1. k - c \in Nat /\ k - c >= 1
        BY <1>1, <3>1
      <4>2. k * size = c * size + (k - c) * size /\ c * size \in Nat
        <5> HIDE DEF c
        <5> QED
          BY <1>1
      <4>3. (k - c) * size = size + (k - c - 1) * size /\ (k - c - 1) * size \in Nat
        <5> HIDE DEF c
        <5> QED
          BY <1>1, <4>1
      <4> HIDE DEF c, n
      <4> QED
        BY <1>1, <1>4, <1>6, <4>2, <4>3
    <3> HIDE DEF c
    <3> QED
      BY <1>1, <3>1
  <2>2. k \in 1 .. c
    <3> HIDE DEF c
    <3> QED
      BY <1>1, <2>1
  <2> DEFINE l == lo(k)
             ks == k * size
  <2>3. hi(k) = ks
    <3>1. ks \in Nat /\ ks <= n
      BY <1>4, <1>6
    <3> HIDE DEF ks, n
    <3> QED
      BY <1>1, <3>1 DEF ks, Smaller
  <2>4. s[k] = SubSeq(ids, l + 1, ks)
    <3>1. s[k] = SubSeq(ids, lo(k) + 1, hi(k))
      <4> HIDE DEF c, lo, hi, s
      <4> QED
        BY <1>2, <2>2
    <3> QED
      BY <2>3, <3>1
  <2>5. l \in Nat /\ ks \in Nat /\ ks = l + size /\ ks <= n
    BY <1>4, <1>6
  <2> HIDE DEF l, ks
  <2>6. Len(SubSeq(ids, l + 1, ks)) = size
    BY <2>5
  <2> HIDE DEF c, s
  <2> QED
    BY <2>2, <2>4, <2>6
<1>7. DOMAIN s = 1 .. c
  BY <1>2
<1> HIDE DEF s, c
<1> QED
  BY <1>5, <1>6, <1>7 DEF s

\* Whatever the mode but "each", every item is dealt, and once.
LEMMA BuildBatchesCut ==
    ASSUME NEW Elem, NEW ids, ids \in Seq(Elem), NEW mode, mode # "each",
           NEW file, NEW group, NEW workers, workers \in Nat \ {0}, NEW reorder
    PROVE  Cut(ids, BuildBatches(mode, ids, file, group, workers, reorder))
<1> DEFINE g == Grouped(mode, ids, file, group)
           c == Chunks(ids, ChunkSize(Len(ids), workers))
           all == BuildBatches(mode, ids, file, group, workers, reorder)
<1>1. g \in Seq(Seq(Elem)) /\ Cut(ids, g)
  BY GroupedBatches, GroupedCut
<1>2. Cut(ids, c)
  <2>1. ChunkSize(Len(ids), workers) \in Nat \ {0}
    <3>1. Len(ids) \in Nat /\ (Len(ids) \div workers) \div 4 \in Int
      OBVIOUS
    <3> QED
      BY <3>1 DEF ChunkSize, Larger
  <2> QED
    BY <2>1, ChunksCut
<1>3. Cut(ids, LongestFirst(g))
  BY <1>1, LongestFirstCut
<1>4. all \in {g, c, LongestFirst(g)}
  BY DEF BuildBatches, PerModule
<1> HIDE DEF g, c, all
<1> QED
  BY <1>1, <1>2, <1>3, <1>4 DEF all

\* Nothing comes of an empty collection.
LEMMA BuildBatchesEmpty ==
    ASSUME NEW mode, NEW file, NEW group, NEW workers, workers \in Nat \ {0}, NEW reorder
    PROVE  BuildBatches(mode, << >>, file, group, workers, reorder) = << >>
<1> DEFINE Elem == {}
           all == BuildBatches(mode, << >>, file, group, workers, reorder)
<1>1. << >> \in Seq(Elem)
  OBVIOUS
<1>2. all \in Seq(Seq(Elem)) /\ \A b \in DOMAIN all : all[b] # << >>
  <2> HIDE DEF Elem
  <2> QED
    BY <1>1, BuildBatchesBatches
<1>3. \A b \in Seq(Elem) : b = << >>
  <2> TAKE b \in Seq(Elem)
  <2>1. Len(b) = 0
    <3>1. Len(b) # 0 => b[1] \in Elem
      OBVIOUS
    <3> QED
      BY <3>1
  <2> QED
    BY <2>1
<1> HIDE DEF all
<1>4. \A b \in DOMAIN all : all[b] \in Seq(Elem)
  <2> HIDE DEF Elem
  <2> QED
    BY <1>2
<1>5. DOMAIN all = {}
  BY <1>2, <1>3, <1>4
<1>6. Len(all) = 0
  <2> DEFINE B == Seq(Elem)
  <2> HIDE DEF B
  <2>1. all \in Seq(B)
    BY <1>2 DEF B
  <2> QED
    BY <1>5, <2>1
<1>7. all = << >>
  <2> DEFINE B == Seq(Elem)
  <2> HIDE DEF B
  <2>1. all \in Seq(B)
    BY <1>2 DEF B
  <2> QED
    BY <1>6, <2>1
<1> QED
  BY <1>7 DEF all
==============================================================================
