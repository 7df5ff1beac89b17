------------------------------ MODULE Folding -------------------------------
(***************************************************************************)
(* Folds of a sequence, for any step: a fold is what a loop computes, and  *)
(* what holds before the loop and survives each of its steps holds after   *)
(* it.  An instance gives Step and Holds their meaning; c stands for what  *)
(* the step reads and does not change.                                     *)
(***************************************************************************)
EXTENDS Integers, Sequences

CONSTANTS Step(_, _, _),    \* Step(c, st, x): the state after the element x
          Holds(_, _, _)    \* Holds(c, i, st): what is claimed of the state after i elements

Greatest(s) == CHOOSE x \in s : \A y \in s : x >= y

(* FoldLeft of the community modules, with all it is defined by.           *)
Fold(c, st, xs) ==
    LET iter[s \in SUBSET DOMAIN xs] ==
            IF s = {} THEN st
            ELSE LET x == Greatest(s) IN Step(c, iter[s \ {x}], xs[x])
    IN  iter[DOMAIN xs]

(* Induction over the natural numbers.  It is a hypothesis here, since an  *)
(* instance repeats every library its module extends; who cites a fact of  *)
(* an instance cites with it the proof of this one.                        *)
Induction == \A S : 0 \in S /\ (\A k \in Nat : k \in S => k + 1 \in S) => \A k \in Nat : k \in S

LEMMA GreatestOf ==
    ASSUME Induction, NEW k \in Nat, NEW s \in SUBSET (1..k), s # {}
    PROVE  Greatest(s) \in s /\ \A y \in s : y <= Greatest(s)
<1> DEFINE Tops(x, t) == x \in t /\ \A y \in t : x >= y
           S == {n \in Nat : \A t \in SUBSET (1..n) : t # {} => \E x \in t : Tops(x, t)}
<1>1. 0 \in S
  <2>1. \A t \in SUBSET (1..0) : t = {}
    OBVIOUS
  <2> QED
    BY <2>1
<1>2. ASSUME NEW n \in Nat, n \in S PROVE n + 1 \in S
  <2> SUFFICES ASSUME NEW t \in SUBSET (1..(n + 1)), t # {} PROVE \E x \in t : Tops(x, t)
    OBVIOUS
  <2>1. CASE n + 1 \in t
    BY <2>1
  <2>2. CASE n + 1 \notin t
    <3>1. t \in SUBSET (1..n)
      BY <2>2
    <3> QED
      BY <1>2, <3>1
  <2> QED
    BY <2>1, <2>2
<1> HIDE DEF S
<1>3. k \in S
  BY <1>1, <1>2 DEF Induction
<1>4. PICK x \in s : Tops(x, s)
  BY <1>3 DEF S
<1>5. Greatest(s) \in s /\ \A y \in s : Greatest(s) >= y
  BY <1>4 DEF Greatest
<1> QED
  BY <1>5

\* The recursion of a fold, on the subsets of 1..k.
Body(c, st, xs, h, s) == IF s = {} THEN st ELSE Step(c, h[s \ {Greatest(s)}], xs[Greatest(s)])
Solves(c, st, xs, k, h) == h = [s \in SUBSET (1..k) |-> Body(c, st, xs, h, s)]

LEMMA RecursionSolved ==
    ASSUME Induction, NEW c, NEW st, NEW xs
    PROVE  \A k \in Nat : \E h : Solves(c, st, xs, k, h)
<1> DEFINE S == {k \in Nat : \E h : Solves(c, st, xs, k, h)}
<1>1. 0 \in S
  <2> DEFINE h == [s \in SUBSET (1..0) |-> st]
  <2>1. Solves(c, st, xs, 0, h)
    <3>1. \A s \in SUBSET (1..0) : s = {}
      OBVIOUS
    <3> QED
      BY <3>1 DEF Solves, Body
  <2> QED
    BY <2>1
<1>2. ASSUME NEW k \in Nat, k \in S PROVE k + 1 \in S
  <2>1. PICK h : Solves(c, st, xs, k, h)
    BY <1>2
  <2> DEFINE U == SUBSET (1..(k + 1))
             g == [s \in U |-> IF k + 1 \in s THEN Step(c, h[s \ {k + 1}], xs[k + 1]) ELSE h[s]]
  <2>2. \A s \in U : k + 1 \notin s => s \in SUBSET (1..k)
    OBVIOUS
  <2>3. ASSUME NEW s \in U PROVE g[s] = Body(c, st, xs, g, s)
    <3>1. CASE k + 1 \in s
      <4>1. k + 1 \in Nat /\ s \in SUBSET (1..(k + 1)) /\ s # {}
        BY <3>1
      <4>2. Greatest(s) = k + 1
        <5> HIDE DEF g
        <5>1. Greatest(s) \in s /\ \A y \in s : y <= Greatest(s)
          BY <4>1, GreatestOf
        <5>2. Greatest(s) \in 1..(k + 1) /\ k + 1 <= Greatest(s)
          BY <3>1, <4>1, <5>1
        <5> QED
          BY <5>2
      <4>3. s \ {k + 1} \in U /\ k + 1 \notin s \ {k + 1}
        OBVIOUS
      <4>4. g[s \ {k + 1}] = h[s \ {k + 1}]
        BY <4>3
      <4> QED
        BY <3>1, <4>2, <4>4 DEF Body
    <3>2. CASE k + 1 \notin s
      <4>1. s \in SUBSET (1..k)
        BY <2>2, <3>2
      <4>2. h[s] = Body(c, st, xs, h, s)
        BY <2>1, <4>1 DEF Solves
      <4>3. s \ {Greatest(s)} \in U /\ k + 1 \notin s \ {Greatest(s)}
        BY <3>2
      <4>4. g[s \ {Greatest(s)}] = h[s \ {Greatest(s)}]
        BY <4>3
      <4>5. g[s] = h[s]
        BY <3>2
      <4> HIDE DEF g
      <4> QED
        BY <4>2, <4>4, <4>5 DEF Body
    <3> QED
      BY <3>1, <3>2
  <2>4. g = [s \in U |-> g[s]]
    OBVIOUS
  <2>5. Solves(c, st, xs, k + 1, g)
    <3> HIDE DEF g
    <3> QED
      BY <2>3, <2>4 DEF Solves
  <2> HIDE DEF g
  <2> QED
    BY <2>5
<1> HIDE DEF S
<1>3. \A k \in Nat : k \in S
  BY <1>1, <1>2 DEF Induction
<1> QED
  BY <1>3 DEF S

IsTrace(c, st, xs, n, f) ==
    f[0] = st /\ f[n] = Fold(c, st, xs) /\ \A i \in 1..n : f[i] = Step(c, f[i - 1], xs[i])

(* A fold goes through one state per element.                              *)
LEMMA FoldTrace ==
    ASSUME Induction, NEW c, NEW st, NEW xs, NEW n \in Nat, DOMAIN xs = 1..n
    PROVE  \E f : IsTrace(c, st, xs, n, f)
<1> DEFINE it == CHOOSE h : Solves(c, st, xs, n, h)
           f == [i \in 0..n |-> it[1..i]]
<1>1. Solves(c, st, xs, n, it)
  BY RecursionSolved
<1>2. Fold(c, st, xs) = it[1..n]
  BY DEF Fold, Solves, Body
<1> HIDE DEF it
<1>3. \A s \in SUBSET (1..n) : it[s] = Body(c, st, xs, it, s)
  BY <1>1 DEF Solves
<1>4. f[0] = st
  <2>1. 1..0 = {} /\ 1..0 \in SUBSET (1..n) /\ 0 \in 0..n
    OBVIOUS
  <2>2. it[1..0] = st
    BY <1>3, <2>1 DEF Body
  <2> QED
    BY <2>1, <2>2
<1>5. ASSUME NEW i \in 1..n PROVE f[i] = Step(c, f[i - 1], xs[i])
  <2>1. 1..i \in SUBSET (1..n) /\ i \in 1..i /\ i \in Nat /\ i - 1 \in 0..n /\ i \in 0..n
    OBVIOUS
  <2>2. Greatest(1..i) = i
    <3> HIDE DEF f
    <3>1. 1..i \in SUBSET (1..i) /\ 1..i # {}
      BY <2>1
    <3>2. Greatest(1..i) \in 1..i /\ \A y \in 1..i : y <= Greatest(1..i)
      BY <2>1, <3>1, GreatestOf
    <3>3. i <= Greatest(1..i)
      BY <2>1, <3>2
    <3> QED
      BY <2>1, <3>2, <3>3
  <2>3. (1..i) \ {i} = 1..(i - 1)
    BY <2>1
  <2>4. it[1..i] = Body(c, st, xs, it, 1..i)
    BY <1>3, <2>1
  <2>5. it[1..i] = Step(c, it[1..(i - 1)], xs[i])
    BY <2>1, <2>2, <2>3, <2>4 DEF Body
  <2> QED
    BY <2>1, <2>5
<1>6. f[n] = Fold(c, st, xs)
  BY <1>2
<1> HIDE DEF f
<1> QED
  BY <1>4, <1>5, <1>6 DEF IsTrace

(* What holds at the start and survives every step holds at the end.       *)
LEMMA FoldHolds ==
    ASSUME Induction, NEW c, NEW st, NEW xs, NEW n \in Nat, DOMAIN xs = 1..n,
           Holds(c, 0, st),
           \A i \in 1..n : \A s : Holds(c, i - 1, s) => Holds(c, i, Step(c, s, xs[i]))
    PROVE  Holds(c, n, Fold(c, st, xs))
<1>1. PICK f : IsTrace(c, st, xs, n, f)
  BY FoldTrace
<1> DEFINE S == {k \in Nat : k <= n => Holds(c, k, f[k])}
<1>2. 0 \in S
  BY <1>1 DEF IsTrace
<1>3. ASSUME NEW k \in Nat, k \in S PROVE k + 1 \in S
  <2> SUFFICES ASSUME k + 1 <= n PROVE Holds(c, k + 1, f[k + 1])
    OBVIOUS
  <2>1. k + 1 \in 1..n /\ (k + 1) - 1 = k /\ k <= n
    OBVIOUS
  <2>2. Holds(c, k, f[k])
    BY <1>3, <2>1
  <2>3. f[k + 1] = Step(c, f[k], xs[k + 1])
    BY <1>1, <2>1 DEF IsTrace
  <2>4. \A s : Holds(c, k, s) => Holds(c, k + 1, Step(c, s, xs[k + 1]))
    BY <2>1
  <2> QED
    BY <2>2, <2>3, <2>4
<1> HIDE DEF S
<1>4. n \in S
  BY <1>2, <1>3 DEF Induction
<1> QED
  BY <1>1, <1>4 DEF S, IsTrace

(* One element more is one step more.                                      *)
LEMMA FoldAppend ==
    ASSUME Induction, NEW c, NEW st, NEW xs, NEW ys, NEW n \in Nat, DOMAIN xs = 1..n, DOMAIN ys = 1..(n + 1),
           \A i \in 1..n : ys[i] = xs[i]
    PROVE  Fold(c, st, ys) = Step(c, Fold(c, st, xs), ys[n + 1])
<1>1. PICK f : IsTrace(c, st, xs, n, f)
  BY FoldTrace
<1>2. PICK g : IsTrace(c, st, ys, n + 1, g)
  BY FoldTrace
<1> DEFINE S == {k \in Nat : k <= n => g[k] = f[k]}
<1>3. 0 \in S
  BY <1>1, <1>2 DEF IsTrace
<1>4. ASSUME NEW k \in Nat, k \in S PROVE k + 1 \in S
  <2> SUFFICES ASSUME k + 1 <= n PROVE g[k + 1] = f[k + 1]
    OBVIOUS
  <2>1. k + 1 \in 1..n /\ k + 1 \in 1..(n + 1) /\ (k + 1) - 1 = k /\ k <= n
    OBVIOUS
  <2>2. g[k] = f[k]
    BY <1>4, <2>1
  <2>3. g[k + 1] = Step(c, g[k], ys[k + 1])
    BY <1>2, <2>1 DEF IsTrace
  <2>4. f[k + 1] = Step(c, f[k], xs[k + 1])
    BY <1>1, <2>1 DEF IsTrace
  <2>5. ys[k + 1] = xs[k + 1]
    BY <2>1
  <2> QED
    BY <2>2, <2>3, <2>4, <2>5
<1> HIDE DEF S
<1>5. n \in S
  BY <1>3, <1>4 DEF Induction
<1>6. g[n] = f[n]
  BY <1>5 DEF S
<1>7. n + 1 \in 1..(n + 1) /\ (n + 1) - 1 = n
  OBVIOUS
<1>8. g[n + 1] = Step(c, g[n], ys[n + 1])
  BY <1>2, <1>7 DEF IsTrace
<1>9. f[n] = Fold(c, st, xs) /\ g[n + 1] = Fold(c, st, ys)
  BY <1>1, <1>2 DEF IsTrace
<1> QED
  BY <1>6, <1>8, <1>9
=============================================================================
