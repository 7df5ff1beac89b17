---------------------------- MODULE SessionProofs ----------------------------
(***************************************************************************)
(* What holds of every run of every scenario (Session): that it stays of   *)
(* its types, ends cleanly, registers no plugin twice and ends with exit   *)
(* code 0 only when nothing failed; that reordering and pytest-split       *)
(* neither lose nor repeat a test; and that --lf takes what it says.       *)
(*                                                                         *)
(* The lists come first: a loop over a list is an instance of Folding, and *)
(* what it preserves is shown there once.  Then come the parts of a run in *)
(* the order in which it takes them, each with the invariant it keeps:     *)
(*   HooksOK      the stage, the hooks called so far, those still to come  *)
(*   RunsOK       which run of which scenario                              *)
(*   ColOK        what was collected: plugins once, errors in a list       *)
(*   ListsOK      the reports are reports, the items a list                *)
(*   LoopOK       how far the loop came and what is known of the items run *)
(*   CodesOK      the exit codes; CachesOK, what the cache keeps           *)
(*   OrderedOK    what was collected and in which order                    *)
(*   LfOK         what --lf left of it                                     *)
(*   DurationsOK  the durations that were stored                           *)
(* Each follows from those above it.  Collection is followed through every *)
(* step that builds a list or a report, since the items and the errors of  *)
(* a run are whatever it returns.                                          *)
(***************************************************************************)
EXTENDS Session, FiniteSetTheorems, SequenceTheorems, TLAPS

---------------------------------------------------------------------------
(* Lists.                                                                  *)

LEMMA NaturalInduction ==
    ASSUME NEW S, 0 \in S, \A k \in Nat : k \in S => k + 1 \in S
    PROVE  \A k \in Nat : k \in S
<1> DEFINE D == Nat \ S
<1> SUFFICES ASSUME D # {} PROVE FALSE
  OBVIOUS
<1>1. PICK m \in D : \A k \in D : <<k, m>> \notin OpToRel(<, Nat)
  <2> HIDE DEF D
  <2> QED
    BY NatLessThanWellFounded, WFMin DEF D
<1>2. m \in Nat /\ m \notin S /\ m # 0
  OBVIOUS
<1>3. m - 1 \in Nat /\ (m - 1) + 1 = m /\ m - 1 < m
  BY <1>2
<1>4. m - 1 \in S
  <2> SUFFICES ASSUME m - 1 \in D PROVE FALSE
    BY <1>3
  <2> HIDE DEF D
  <2>1. <<m - 1, m>> \notin OpToRel(<, Nat)
    BY <1>1
  <2> QED
    BY <1>2, <1>3, <2>1 DEF OpToRel
<1> QED
  BY <1>2, <1>3, <1>4

LEMMA SeqFacts ==
    ASSUME NEW s, IsSeq(s)
    PROVE  /\ Len(s) \in Nat /\ DOMAIN s = 1..Len(s)
           /\ s = <<>> <=> Len(s) = 0
           /\ \A i \in 1..Len(s) : s[i] \in ToSet(s)
           /\ \A x \in ToSet(s) : \E i \in 1..Len(s) : s[i] = x
<1>1. s \in Seq(ToSet(s))
  BY DEF IsSeq
<1>2. Len(s) \in Nat /\ DOMAIN s = 1..Len(s)
  BY <1>1, LenProperties
<1>3. s = <<>> <=> Len(s) = 0
  BY <1>1, EmptySeq
<1> QED
  BY <1>2, <1>3 DEF ToSet

(* A function on 1..n is a sequence.                                       *)
LEMMA SeqIntro ==
    ASSUME NEW s, NEW n \in Nat, DOMAIN s = 1..n, s = [i \in DOMAIN s |-> s[i]]
    PROVE  IsSeq(s) /\ Len(s) = n
<1>1. s \in [1..n -> ToSet(s)]
  BY DEF ToSet
<1>2. s \in Seq(ToSet(s))
  BY <1>1, SeqDef
<1>3. Len(s) \in Nat /\ DOMAIN s = 1..Len(s)
  BY <1>2, LenProperties
<1>4. Len(s) = n
  BY <1>3
<1> QED
  BY <1>2, <1>4 DEF IsSeq

LEMMA SeqRange ==
    ASSUME NEW S, NEW s, s \in Seq(S)
    PROVE  IsSeq(s) /\ ToSet(s) \subseteq S
<1>1. PICK n \in Nat : s \in [1..n -> S]
  BY SeqDef
<1>2. DOMAIN s = 1..n /\ s = [i \in DOMAIN s |-> s[i]]
  BY <1>1
<1>3. IsSeq(s)
  BY <1>2, SeqIntro
<1> QED
  BY <1>1, <1>3 DEF ToSet

LEMMA SeqIn ==
    ASSUME NEW S, NEW s, IsSeq(s), ToSet(s) \subseteq S
    PROVE  s \in Seq(S)
  BY SeqMonotonic DEF IsSeq

LEMMA EmptyFacts == IsSeq(<<>>) /\ Len(<<>>) = 0 /\ ToSet(<<>>) = {} /\ DOMAIN <<>> = {}
<1>1. IsSeq(<<>>)
  BY EmptySeq DEF IsSeq
<1>2. Len(<<>>) = 0
  BY EmptySeq
<1>3. DOMAIN <<>> = {}
  BY <1>1, <1>2, SeqFacts
<1> QED
  BY <1>1, <1>2, <1>3 DEF ToSet

LEMMA AppendFacts ==
    ASSUME NEW s, IsSeq(s), NEW e
    PROVE  /\ IsSeq(Append(s, e)) /\ Len(Append(s, e)) = Len(s) + 1
           /\ \A i \in 1..Len(s) : Append(s, e)[i] = s[i]
           /\ Append(s, e)[Len(s) + 1] = e
           /\ ToSet(Append(s, e)) = ToSet(s) \cup {e}
<1> DEFINE U == ToSet(s) \cup {e}
           t == Append(s, e)
<1>1. s \in Seq(U) /\ e \in U
  BY SeqIn
<1>2. /\ t \in Seq(U) /\ Len(t) = Len(s) + 1
      /\ \A i \in 1..Len(s) : t[i] = s[i]
      /\ t[Len(s) + 1] = e
  BY <1>1, AppendProperties
<1>3. IsSeq(t) /\ ToSet(t) \subseteq U
  BY <1>2, SeqRange
<1> HIDE DEF t
<1>4. Len(s) \in Nat /\ DOMAIN s = 1..Len(s) /\ DOMAIN t = 1..(Len(s) + 1)
  BY <1>2, <1>3, SeqFacts
<1>5. ToSet(s) \subseteq ToSet(t) /\ e \in ToSet(t)
  <2>1. \A i \in 1..Len(s) : s[i] = t[i] /\ i \in DOMAIN t
    BY <1>2, <1>4
  <2>2. Len(s) + 1 \in DOMAIN t
    BY <1>4
  <2> QED
    BY <1>2, <1>4, <2>1, <2>2 DEF ToSet
<1> QED
  BY <1>2, <1>3, <1>5 DEF t

LEMMA ConcatFacts ==
    ASSUME NEW s, IsSeq(s), NEW t, IsSeq(t)
    PROVE  /\ IsSeq(s \o t) /\ Len(s \o t) = Len(s) + Len(t)
           /\ \A i \in 1..Len(s) : (s \o t)[i] = s[i]
           /\ \A i \in 1..Len(t) : (s \o t)[Len(s) + i] = t[i]
           /\ ToSet(s \o t) = ToSet(s) \cup ToSet(t)
<1> DEFINE U == ToSet(s) \cup ToSet(t)
           u == s \o t
<1>1. s \in Seq(U) /\ t \in Seq(U)
  BY SeqIn
<1>2. /\ u \in Seq(U) /\ Len(u) = Len(s) + Len(t)
      /\ \A i \in 1..Len(s) + Len(t) : u[i] = IF i <= Len(s) THEN s[i] ELSE t[i - Len(s)]
  BY <1>1, ConcatProperties
<1>3. IsSeq(u) /\ ToSet(u) \subseteq U
  BY <1>2, SeqRange
<1>4. Len(s) \in Nat /\ DOMAIN s = 1..Len(s) /\ Len(t) \in Nat /\ DOMAIN t = 1..Len(t)
  BY SeqFacts
<1> HIDE DEF u
<1>5. DOMAIN u = 1..(Len(s) + Len(t))
  BY <1>2, <1>3, SeqFacts
<1>6. \A i \in 1..Len(s) : u[i] = s[i] /\ i \in DOMAIN u
  BY <1>2, <1>4, <1>5
<1>7. ASSUME NEW i \in 1..Len(t) PROVE u[Len(s) + i] = t[i] /\ Len(s) + i \in DOMAIN u
  <2>1. Len(s) + i \in 1..(Len(s) + Len(t)) /\ ~(Len(s) + i <= Len(s)) /\ (Len(s) + i) - Len(s) = i
    BY <1>4
  <2> QED
    BY <1>2, <1>5, <2>1
<1>8. ToSet(s) \subseteq ToSet(u)
  BY <1>4, <1>6 DEF ToSet
<1>9. ToSet(t) \subseteq ToSet(u)
  BY <1>4, <1>7 DEF ToSet
<1> QED
  BY <1>2, <1>3, <1>6, <1>7, <1>8, <1>9 DEF u

LEMMA ContainsIn ==
    ASSUME NEW s, IsSeq(s), NEW e
    PROVE  Contains(s, e) <=> e \in ToSet(s)
  BY SeqFacts DEF Contains

(* One element.                                                            *)
LEMMA OneFacts ==
    ASSUME NEW e
    PROVE  /\ IsSeq(<<e>>) /\ Len(<<e>>) = 1 /\ <<e>>[1] = e /\ ToSet(<<e>>) = {e}
           /\ DOMAIN <<e>> = 1..1
<1>1. DOMAIN <<e>> = 1..1 /\ <<e>>[1] = e /\ Len(<<e>>) = 1
  OBVIOUS
<1>2. <<e>> \in Seq({e})
  OBVIOUS
<1>3. IsSeq(<<e>>) /\ ToSet(<<e>>) \subseteq {e}
  BY <1>2, SeqRange
<1>4. e \in ToSet(<<e>>)
  BY <1>1 DEF ToSet
<1> QED
  BY <1>1, <1>3, <1>4

LEMMA SubSeqFacts ==
    ASSUME NEW s, IsSeq(s), NEW m \in Int, NEW n \in Int, m >= 1, n <= Len(s)
    PROVE  /\ IsSeq(SubSeq(s, m, n)) /\ ToSet(SubSeq(s, m, n)) \subseteq ToSet(s)
           /\ Len(SubSeq(s, m, n)) = IF m <= n THEN n - m + 1 ELSE 0
           /\ \A i \in 1..n - m + 1 : SubSeq(s, m, n)[i] = s[m + i - 1]
<1>1. Len(s) \in Nat /\ \A i \in 1..Len(s) : s[i] \in ToSet(s)
  BY SeqFacts
<1>2. \A i \in m..n : s[i] \in ToSet(s)
  BY <1>1
<1>3. /\ SubSeq(s, m, n) \in Seq(ToSet(s))
      /\ Len(SubSeq(s, m, n)) = IF m <= n THEN n - m + 1 ELSE 0
      /\ \A i \in 1..n - m + 1 : SubSeq(s, m, n)[i] = s[m + i - 1]
  BY <1>2, SubSeqProperties
<1>4. IsSeq(SubSeq(s, m, n)) /\ ToSet(SubSeq(s, m, n)) \subseteq ToSet(s)
  BY <1>3, SeqRange
<1> QED
  BY <1>3, <1>4

LEMMA EqualSeqs ==
    ASSUME NEW s, IsSeq(s), NEW t, IsSeq(t), Len(s) = Len(t), \A i \in 1..Len(s) : s[i] = t[i]
    PROVE  s = t
<1>1. s \in Seq(ToSet(s) \cup ToSet(t)) /\ t \in Seq(ToSet(s) \cup ToSet(t))
  BY SeqIn
<1> QED
  BY <1>1, SeqEqual

(* Sequences without repetitions.                                          *)
LEMMA AppendOnce ==
    ASSUME NEW s, IsSeq(s), IsInjective(s), NEW e, e \notin ToSet(s)
    PROVE  IsInjective(Append(s, e))
<1> DEFINE t == Append(s, e)
<1>1. /\ IsSeq(t) /\ Len(t) = Len(s) + 1
      /\ \A i \in 1..Len(s) : t[i] = s[i]
      /\ t[Len(s) + 1] = e
  BY AppendFacts
<1>2. Len(s) \in Nat /\ DOMAIN s = 1..Len(s) /\ \A i \in 1..Len(s) : s[i] \in ToSet(s)
  BY SeqFacts
<1> HIDE DEF t
<1>3. DOMAIN t = 1..(Len(s) + 1)
  BY <1>1, SeqFacts
<1>4. \A i \in DOMAIN t : i \in 1..Len(s) \/ i = Len(s) + 1
  BY <1>2, <1>3
<1>5. IsInjective(t)
  BY <1>1, <1>2, <1>4 DEF IsInjective
<1> QED
  BY <1>5 DEF t

LEMMA ConcatOnce ==
    ASSUME NEW s, IsSeq(s), IsInjective(s), NEW t, IsSeq(t), IsInjective(t),
           ToSet(s) \cap ToSet(t) = {}
    PROVE  IsInjective(s \o t)
<1> DEFINE u == s \o t
<1>1. /\ IsSeq(u) /\ Len(u) = Len(s) + Len(t)
      /\ \A i \in 1..Len(s) : u[i] = s[i]
      /\ \A i \in 1..Len(t) : u[Len(s) + i] = t[i]
  BY ConcatFacts
<1>2. /\ Len(s) \in Nat /\ DOMAIN s = 1..Len(s) /\ \A i \in 1..Len(s) : s[i] \in ToSet(s)
      /\ Len(t) \in Nat /\ DOMAIN t = 1..Len(t) /\ \A i \in 1..Len(t) : t[i] \in ToSet(t)
  BY SeqFacts
<1> HIDE DEF u
<1>3. DOMAIN u = 1..(Len(s) + Len(t))
  BY <1>1, SeqFacts
<1>4. ASSUME NEW i \in DOMAIN u
      PROVE  \/ i \in 1..Len(s) /\ u[i] = s[i]
             \/ i - Len(s) \in 1..Len(t) /\ u[i] = t[i - Len(s)] /\ i = Len(s) + (i - Len(s))
  <2>1. i \in 1..Len(s) \/ (i - Len(s) \in 1..Len(t) /\ i = Len(s) + (i - Len(s)))
    BY <1>2, <1>3
  <2> QED
    BY <1>1, <2>1
<1>5. ASSUME NEW i \in DOMAIN u, NEW j \in DOMAIN u, u[i] = u[j] PROVE i = j
  <2>1. CASE i \in 1..Len(s) /\ u[i] = s[i] /\ j \in 1..Len(s) /\ u[j] = s[j]
    BY <1>2, <1>5, <2>1 DEF IsInjective
  <2>2. CASE /\ i - Len(s) \in 1..Len(t) /\ u[i] = t[i - Len(s)] /\ i = Len(s) + (i - Len(s))
             /\ j - Len(s) \in 1..Len(t) /\ u[j] = t[j - Len(s)] /\ j = Len(s) + (j - Len(s))
    <3>1. i - Len(s) = j - Len(s)
      BY <1>2, <1>5, <2>2 DEF IsInjective
    <3> QED
      BY <2>2, <3>1
  <2>3. CASE /\ i \in 1..Len(s) /\ u[i] = s[i]
             /\ j - Len(s) \in 1..Len(t) /\ u[j] = t[j - Len(s)]
    BY <1>2, <1>5, <2>3
  <2>4. CASE /\ j \in 1..Len(s) /\ u[j] = s[j]
             /\ i - Len(s) \in 1..Len(t) /\ u[i] = t[i - Len(s)]
    BY <1>2, <1>5, <2>4
  <2> QED
    BY <1>4, <2>1, <2>2, <2>3, <2>4
<1>6. IsInjective(u)
  BY <1>5 DEF IsInjective
<1> QED
  BY <1>6 DEF u

(* Kept.                                                                   *)
KeepStep(c, kept, x) == KeepIn(c[1], kept, x)
KeepHolds(c, i, kept) ==
    /\ IsSeq(kept) /\ Len(kept) <= i
    /\ \A x : x \in ToSet(kept) <=> x \in c[1] /\ \E j \in 1..i : c[2][j] = x
    /\ IsInjective(c[2]) => IsInjective(kept)
    /\ ToSet(c[2]) \subseteq c[1] => Len(kept) = i /\ \A j \in 1..i : kept[j] = c[2][j]

Keeping == INSTANCE Folding WITH Step <- KeepStep, Holds <- KeepHolds

LEMMA KeptFold ==
    ASSUME NEW S, NEW s, NEW c, c[1] = S
    PROVE  Kept(s, S) = Keeping!Fold(c, <<>>, s)
  BY DEF Kept, Keeping!Fold, KeepStep, FoldLeft, MapThenFoldSet, Max, Keeping!Greatest

LEMMA KeepStepHolds ==
    ASSUME NEW S, NEW s, IsSeq(s), NEW c, c = <<S, s>>, NEW i \in 1..Len(s),
           NEW kept, KeepHolds(c, i - 1, kept)
    PROVE  KeepHolds(c, i, KeepStep(c, kept, s[i]))
<1> DEFINE x == s[i]
           t == KeepStep(c, kept, x)
<1>0. c[1] = S /\ c[2] = s
  OBVIOUS
<1>1. /\ Len(s) \in Nat /\ DOMAIN s = 1..Len(s) /\ x \in ToSet(s)
      /\ i \in Nat /\ i - 1 \in Nat /\ (i - 1) + 1 = i /\ i \in DOMAIN s
      /\ \A j \in 1..i : j \in 1..(i - 1) \/ j = i
      /\ \A j \in 1..(i - 1) : j \in 1..i /\ j \in DOMAIN s /\ j # i
  BY SeqFacts
<1>2. /\ IsSeq(kept) /\ Len(kept) \in Nat /\ Len(kept) <= i - 1
      /\ \A y : y \in ToSet(kept) <=> y \in S /\ \E j \in 1..(i - 1) : s[j] = y
      /\ IsInjective(s) => IsInjective(kept)
      /\ ToSet(s) \subseteq S => Len(kept) = i - 1 /\ \A j \in 1..(i - 1) : kept[j] = s[j]
  BY <1>0, SeqFacts DEF KeepHolds
<1>3. CASE x \notin S
  <2>1. t = kept
    BY <1>0, <1>3 DEF KeepStep, KeepIn
  <2>2. IsSeq(t) /\ Len(t) <= i
    BY <1>1, <1>2, <2>1
  <2>3. ASSUME NEW y PROVE y \in ToSet(t) <=> y \in S /\ \E j \in 1..i : s[j] = y
    BY <1>1, <1>2, <1>3, <2>1
  <2>4. ~(ToSet(s) \subseteq S)
    BY <1>1, <1>3
  <2>5. IsInjective(s) => IsInjective(t)
    BY <1>2, <2>1
  <2> HIDE DEF t
  <2>6. KeepHolds(c, i, t)
    BY <1>0, <2>2, <2>3, <2>4, <2>5 DEF KeepHolds
  <2> QED
    BY <2>6 DEF t
<1>4. CASE x \in S
  <2>1. t = Append(kept, x)
    BY <1>0, <1>4 DEF KeepStep, KeepIn
  <2> HIDE DEF t, x
  <2>2. /\ IsSeq(t) /\ Len(t) = Len(kept) + 1
        /\ \A j \in 1..Len(kept) : t[j] = kept[j]
        /\ t[Len(kept) + 1] = x
        /\ ToSet(t) = ToSet(kept) \cup {x}
    BY <1>2, <2>1, AppendFacts
  <2>3. ASSUME IsInjective(s) PROVE IsInjective(t)
    <3>1. x \notin ToSet(kept)
      BY <1>1, <1>2, <2>3 DEF IsInjective, x
    <3> QED
      BY <1>2, <2>1, <2>3, <3>1, AppendOnce
  <2>4. Len(t) <= i
    BY <1>1, <1>2, <2>2
  <2>5. ASSUME NEW y PROVE y \in ToSet(t) <=> y \in S /\ \E j \in 1..i : s[j] = y
    BY <1>1, <1>2, <1>4, <2>2 DEF x
  <2>6. ASSUME ToSet(s) \subseteq S PROVE Len(t) = i /\ \A j \in 1..i : t[j] = s[j]
    BY <1>1, <1>2, <2>2, <2>6 DEF x
  <2>7. KeepHolds(c, i, t)
    BY <1>0, <2>2, <2>3, <2>4, <2>5, <2>6 DEF KeepHolds
  <2> QED
    BY <2>7 DEF t, x
<1> QED
  BY <1>3, <1>4

(* What a filter keeps, and that it keeps everything or nothing.           *)
LEMMA KeptFacts ==
    ASSUME NEW s, IsSeq(s), NEW S
    PROVE  /\ IsSeq(Kept(s, S)) /\ Len(Kept(s, S)) <= Len(s)
           /\ ToSet(Kept(s, S)) = ToSet(s) \cap S
           /\ IsInjective(s) => IsInjective(Kept(s, S))
           /\ ToSet(s) \subseteq S => Kept(s, S) = s
           /\ ToSet(s) \cap S = {} => Kept(s, S) = <<>>
<1> DEFINE c == <<S, s>>
           k == Kept(s, S)
<1>0. c[1] = S /\ c[2] = s
  OBVIOUS
<1>1. Len(s) \in Nat /\ DOMAIN s = 1..Len(s)
  BY SeqFacts
<1>2. k = Keeping!Fold(c, <<>>, s)
  BY <1>0, KeptFold
<1> HIDE DEF k
<1>3. KeepHolds(c, 0, <<>>)
  <2>1. IsInjective(<<>>)
    BY EmptyFacts DEF IsInjective
  <2> QED
    BY <2>1, EmptyFacts DEF KeepHolds
<1>4. c = <<S, s>>
  OBVIOUS
<1> HIDE DEF c
<1>5. \A i \in 1..Len(s) : \A st : KeepHolds(c, i - 1, st) => KeepHolds(c, i, KeepStep(c, st, s[i]))
  BY <1>4, KeepStepHolds
<1>6. KeepHolds(c, Len(s), Keeping!Fold(c, <<>>, s))
  BY <1>1, <1>3, <1>5, NaturalInduction, Keeping!FoldHolds DEF Keeping!Induction
<1>7. /\ IsSeq(k) /\ Len(k) <= Len(s)
      /\ \A x : x \in ToSet(k) <=> x \in S /\ \E j \in 1..Len(s) : s[j] = x
      /\ IsInjective(s) => IsInjective(k)
      /\ ToSet(s) \subseteq S => Len(k) = Len(s) /\ \A j \in 1..Len(s) : k[j] = s[j]
  BY <1>0, <1>2, <1>6 DEF KeepHolds
<1>8. ToSet(k) = ToSet(s) \cap S
  BY <1>1, <1>7 DEF ToSet
<1>9. ToSet(s) \subseteq S => k = s
  BY <1>7, EqualSeqs
<1>10. ToSet(s) \cap S = {} => k = <<>>
  BY <1>7, <1>8, SeqFacts
<1> QED
  BY <1>7, <1>8, <1>9, <1>10 DEF k

(* Filtering twice is filtering by both.                                   *)
LEMMA KeptAppend ==
    ASSUME NEW s, IsSeq(s), NEW x, NEW S
    PROVE  Kept(Append(s, x), S) = KeepIn(S, Kept(s, S), x)
<1> DEFINE c == <<S>>
           t == Append(s, x)
<1>0. c[1] = S
  OBVIOUS
<1>1. /\ IsSeq(t) /\ Len(t) = Len(s) + 1
      /\ \A i \in 1..Len(s) : t[i] = s[i]
      /\ t[Len(s) + 1] = x
  BY AppendFacts
<1> HIDE DEF t, c
<1>2. Len(s) \in Nat /\ DOMAIN s = 1..Len(s) /\ DOMAIN t = 1..(Len(s) + 1)
  BY <1>1, SeqFacts
<1>3. Keeping!Fold(c, <<>>, t) = KeepStep(c, Keeping!Fold(c, <<>>, s), t[Len(s) + 1])
  BY <1>1, <1>2, NaturalInduction, Keeping!FoldAppend DEF Keeping!Induction
<1>4. Kept(s, S) = Keeping!Fold(c, <<>>, s) /\ Kept(t, S) = Keeping!Fold(c, <<>>, t)
  BY <1>0, KeptFold
<1> QED
  BY <1>0, <1>1, <1>3, <1>4 DEF KeepStep, t

(* FlattenSeq, which is defined by recursion.                              *)
JoinBody(ss, h, i) == IF i = 1 THEN ss[i] ELSE h[i - 1] \o ss[i]
Joins(ss, n, h) == h = [i \in 1..n |-> JoinBody(ss, h, i)]

LEMMA JoinsSolved ==
    ASSUME NEW ss
    PROVE  \A n \in Nat : \E h : Joins(ss, n, h)
<1> DEFINE S == {n \in Nat : \E h : Joins(ss, n, h)}
<1>1. 0 \in S
  <2> DEFINE h == [i \in 1..0 |-> 0]
  <2>1. Joins(ss, 0, h)
    BY DEF Joins
  <2> QED
    BY <2>1
<1>2. ASSUME NEW n \in Nat, n \in S PROVE n + 1 \in S
  <2>1. PICK h : Joins(ss, n, h)
    BY <1>2
  <2> DEFINE g == [i \in 1..(n + 1) |-> IF i = n + 1 THEN JoinBody(ss, h, i) ELSE h[i]]
  <2>2. ASSUME NEW i \in 1..(n + 1) PROVE g[i] = JoinBody(ss, g, i)
    <3>1. i # 1 => i - 1 \in 1..n /\ i - 1 \in 1..(n + 1) /\ i - 1 # n + 1
      OBVIOUS
    <3>2. i # 1 => g[i - 1] = h[i - 1]
      BY <3>1
    <3>3. JoinBody(ss, g, i) = JoinBody(ss, h, i)
      <4> HIDE DEF g
      <4> QED
        BY <3>2 DEF JoinBody
    <3>4. CASE i = n + 1
      BY <3>3, <3>4
    <3>5. CASE i # n + 1
      <4>1. i \in 1..n
        BY <3>5
      <4>2. h[i] = JoinBody(ss, h, i)
        BY <2>1, <4>1 DEF Joins
      <4>3. g[i] = h[i]
        BY <3>5
      <4> QED
        BY <3>3, <4>2, <4>3
    <3> QED
      BY <3>4, <3>5
  <2>3. g = [i \in 1..(n + 1) |-> g[i]]
    OBVIOUS
  <2>4. Joins(ss, n + 1, g)
    <3> HIDE DEF g
    <3> QED
      BY <2>2, <2>3 DEF Joins
  <2> HIDE DEF g
  <2> QED
    BY <2>4
<1> HIDE DEF S
<1>3. \A n \in Nat : n \in S
  BY <1>1, <1>2, NaturalInduction
<1> QED
  BY <1>3 DEF S

LEMMA FlattenFacts ==
    ASSUME NEW ss, IsSeq(ss), \A i \in 1..Len(ss) : IsSeq(ss[i])
    PROVE  /\ IsSeq(FlattenSeq(ss))
           /\ \A x : x \in ToSet(FlattenSeq(ss)) <=> \E i \in 1..Len(ss) : x \in ToSet(ss[i])
<1> DEFINE n == Len(ss)
           h == CHOOSE h : Joins(ss, n, h)
           Good(i) == /\ IsSeq(h[i])
                      /\ \A x : x \in ToSet(h[i]) <=> \E j \in 1..i : x \in ToSet(ss[j])
<1>1. n \in Nat /\ (ss = <<>> <=> n = 0)
  BY SeqFacts
<1>2. Joins(ss, n, h)
  BY <1>1, JoinsSolved
<1>3. n # 0 => FlattenSeq(ss) = h[n]
  BY DEF FlattenSeq, Joins, JoinBody
<1>4. n = 0 => FlattenSeq(ss) = ss
  BY DEF FlattenSeq
<1> DEFINE S == {k \in Nat : k + 1 <= n => Good(k + 1)}
<1>5. \A i \in 1..n : h[i] = JoinBody(ss, h, i)
  BY <1>2 DEF Joins
<1> HIDE DEF h
<1>6. 0 \in S
  <2> SUFFICES ASSUME 1 <= n PROVE Good(0 + 1)
    OBVIOUS
  <2>1. 1 \in 1..n /\ 0 + 1 = 1 /\ \A j \in 1..1 : j = 1
    BY <1>1
  <2>2. h[1] = ss[1]
    BY <1>5, <2>1 DEF JoinBody
  <2>3. IsSeq(h[1])
    BY <2>1, <2>2
  <2>4. \A x : x \in ToSet(h[1]) <=> \E j \in 1..1 : x \in ToSet(ss[j])
    BY <2>1, <2>2
  <2> QED
    BY <2>1, <2>3, <2>4
<1>7. ASSUME NEW k \in Nat, k \in S PROVE k + 1 \in S
  <2> DEFINE i == (k + 1) + 1
  <2> SUFFICES ASSUME i <= n PROVE Good(i)
    OBVIOUS
  <2>1. i \in 1..n /\ i # 1 /\ i - 1 = k + 1 /\ k + 1 <= n /\ \A j \in 1..i : j \in 1..(k + 1) \/ j = i
    BY <1>1
  <2>2. 1..(k + 1) \subseteq 1..i /\ i \in 1..i
    OBVIOUS
  <2>3. IsSeq(h[k + 1]) /\ \A x : x \in ToSet(h[k + 1]) <=> \E j \in 1..(k + 1) : x \in ToSet(ss[j])
    BY <1>7, <2>1
  <2> HIDE DEF i
  <2>4. h[i] = h[k + 1] \o ss[i]
    BY <1>5, <2>1 DEF JoinBody
  <2>5. IsSeq(ss[i])
    BY <2>1
  <2>6. IsSeq(h[i]) /\ ToSet(h[i]) = ToSet(h[k + 1]) \cup ToSet(ss[i])
    BY <2>3, <2>4, <2>5, ConcatFacts
  <2>7. \A x : x \in ToSet(h[i]) <=> \E j \in 1..i : x \in ToSet(ss[j])
    BY <2>1, <2>2, <2>3, <2>6
  <2> QED
    BY <2>6, <2>7
<1> HIDE DEF S
<1>8. \A k \in Nat : k \in S
  BY <1>6, <1>7, NaturalInduction
<1>9. CASE n = 0
  BY <1>1, <1>4, <1>9, EmptyFacts
<1>10. CASE n # 0
  <2>1. n - 1 \in Nat /\ (n - 1) + 1 = n
    BY <1>1, <1>10
  <2>2. Good(n)
    <3>1. n - 1 \in S
      BY <1>8, <2>1
    <3> HIDE DEF n
    <3> QED
      BY <2>1, <3>1 DEF S
  <2> QED
    BY <1>3, <1>10, <2>2
<1> QED
  BY <1>9, <1>10

LEMMA TwoFacts ==
    ASSUME NEW a, NEW b
    PROVE  /\ IsSeq(<<a, b>>) /\ Len(<<a, b>>) = 2 /\ ToSet(<<a, b>>) = {a, b}
           /\ <<a, b>>[2] = b
           /\ a # b => IsInjective(<<a, b>>)
<1>1. DOMAIN <<a, b>> = 1..2 /\ <<a, b>>[1] = a /\ <<a, b>>[2] = b
  OBVIOUS
<1>2. <<a, b>> \in Seq({a, b})
  OBVIOUS
<1>3. IsSeq(<<a, b>>) /\ ToSet(<<a, b>>) \subseteq {a, b} /\ Len(<<a, b>>) = 2
  BY <1>2, SeqRange
<1>4. a \in ToSet(<<a, b>>) /\ b \in ToSet(<<a, b>>)
  BY <1>1 DEF ToSet
<1>5. a # b => IsInjective(<<a, b>>)
  BY <1>1 DEF IsInjective
<1> QED
  BY <1>1, <1>3, <1>4, <1>5

LEMMA ThreeFacts ==
    ASSUME NEW a, NEW b, NEW c
    PROVE  /\ IsSeq(<<a, b, c>>) /\ Len(<<a, b, c>>) = 3 /\ ToSet(<<a, b, c>>) = {a, b, c}
           /\ <<a, b, c>>[3] = c
           /\ a # b /\ b # c /\ a # c => IsInjective(<<a, b, c>>)
<1>1. DOMAIN <<a, b, c>> = 1..3 /\ <<a, b, c>>[1] = a /\ <<a, b, c>>[2] = b /\ <<a, b, c>>[3] = c
  OBVIOUS
<1>2. <<a, b, c>> \in Seq({a, b, c})
  OBVIOUS
<1>3. IsSeq(<<a, b, c>>) /\ ToSet(<<a, b, c>>) \subseteq {a, b, c} /\ Len(<<a, b, c>>) = 3
  BY <1>2, SeqRange
<1>4. a \in ToSet(<<a, b, c>>) /\ b \in ToSet(<<a, b, c>>) /\ c \in ToSet(<<a, b, c>>)
  BY <1>1 DEF ToSet
<1>5. a # b /\ b # c /\ a # c => IsInjective(<<a, b, c>>)
  BY <1>1 DEF IsInjective
<1> QED
  BY <1>1, <1>3, <1>4, <1>5

---------------------------------------------------------------------------
(* The stages of a run, the code it ends with and the hooks it calls.      *)

Stages == {"boot", "plugins", "configure", "start", "collect", "errors", "select", "selected",
           "run", "empty", "finish", "internal", "ended"}
Late == {"selected", "run", "empty", "finish", "internal"}
LastHooks == {"sessionfinish", "save", "unconfigure"}

CtlOK == ctl = [override |-> ctl.override, stop |-> ctl.stop, fail |-> ctl.fail,
                stepFailed |-> ctl.stepFailed, code |-> ctl.code]

(* The hooks before the end of a run, in the order of its stages.          *)
Begun ==
    /\ stage \in {"boot", "plugins", "configure"} => ToSet(events) = {} /\ Len(events) = 0
    /\ stage = "start" => ToSet(events) = {"configure"} /\ Len(events) = 1
    /\ stage \in {"collect", "errors", "select"} =>
          ToSet(events) = {"configure", "sessionstart"} /\ Len(events) = 2
    /\ stage \in Late =>
          /\ ToSet(events) \subseteq {"configure", "sessionstart", "deselected", "collected"}
          /\ "sessionstart" \in ToSet(events) /\ Len(events) <= 4

(* And what its end adds.                                                  *)
Closed ==
    Ended => /\ Len(events) <= 7
             /\ "sessionfinish" \in ToSet(events) => "sessionstart" \in ToSet(events)
             /\ "unconfigure" \in ToSet(events) => Last(events) = "unconfigure"
             /\ pos # 0 => {"sessionfinish", "save"} \subseteq ToSet(events) \/ ctl.code = INTERNAL_ERROR

HooksOK ==
    /\ stage \in Stages /\ CtlOK
    /\ IsSeq(events) /\ IsInjective(events) /\ Begun /\ Closed
    /\ stage \notin {"run", "finish", "internal", "ended"} => pos = 0

LEMMA HooksInit == Init => HooksOK
<1> SUFFICES ASSUME Init PROVE HooksOK
  OBVIOUS
<1>1. IsInjective(<<>>)
  BY EmptyFacts DEF IsInjective
<1>2. events = <<>> /\ stage = "boot" /\ pos = 0 /\ ctl = Control
  BY DEF Init
<1> QED
  BY <1>1, <1>2, EmptyFacts DEF HooksOK, Begun, Closed, CtlOK, Control, Stages, Ended, Late

(* The hooks a run ends with, when it has called those of events.          *)
EndHooks(hooks) ==
    /\ IsSeq(hooks) /\ Len(hooks) <= 3 /\ IsInjective(hooks) /\ ToSet(hooks) \cap ToSet(events) = {}
    /\ "unconfigure" \in ToSet(hooks) => Last(hooks) = "unconfigure"
    /\ "sessionfinish" \in ToSet(hooks) => "sessionstart" \in ToSet(events) \cup ToSet(hooks)

LEMMA Ending ==
    ASSUME HooksOK, ~Ended, NEW code, NEW hooks, EndHooks(hooks), End(code, hooks), pos' = pos,
           pos # 0 => {"sessionfinish", "save"} \subseteq ToSet(hooks) \/ code = INTERNAL_ERROR
    PROVE  HooksOK'
<1>1. /\ stage' = "ended" /\ ctl' = [ctl EXCEPT !.code = code] /\ events' = events \o hooks
  BY DEF End, Call
<1>2. CtlOK' /\ ctl'.code = code
  BY <1>1 DEF HooksOK, CtlOK
<1>3. /\ IsSeq(events') /\ Len(events') = Len(events) + Len(hooks)
      /\ \A i \in 1..Len(hooks) : (events')[Len(events) + i] = hooks[i]
      /\ ToSet(events') = ToSet(events) \cup ToSet(hooks)
  BY <1>1, ConcatFacts DEF HooksOK, EndHooks
<1>4. IsInjective(events')
  BY <1>1, ConcatOnce DEF HooksOK, EndHooks
<1>5. Len(events) \in Nat /\ Len(events) <= 4 /\ "unconfigure" \notin ToSet(events)
      /\ "sessionfinish" \notin ToSet(events)
  <2>1. Len(events) \in Nat
    BY SeqFacts DEF HooksOK
  <2>2. \/ stage \in {"boot", "plugins", "configure"} \/ stage = "start"
        \/ stage \in {"collect", "errors", "select"} \/ stage \in Late
    BY DEF HooksOK, Ended, Stages, Late
  <2>3. Begun
    BY DEF HooksOK
  <2>4. Len(events) = 0 \/ Len(events) = 1 \/ Len(events) = 2 \/ Len(events) <= 4
    BY <2>2, <2>3 DEF Begun
  <2>5. ToSet(events) \subseteq {"configure", "sessionstart", "deselected", "collected"}
    BY <2>2, <2>3 DEF Begun
  <2>6. Len(events) <= 4
    <3> DEFINE n == Len(events)
    <3>1. n \in Nat /\ (n = 0 \/ n = 1 \/ n = 2 \/ n <= 4)
      BY <2>1, <2>4
    <3> HIDE DEF n
    <3>2. n <= 4
      BY <3>1
    <3> QED
      BY <3>2 DEF n
  <2>7. "unconfigure" \notin ToSet(events) /\ "sessionfinish" \notin ToSet(events)
    BY <2>5
  <2> QED
    BY <2>1, <2>6, <2>7
<1>6. Len(hooks) \in Nat /\ Len(hooks) <= 3 /\ (hooks = <<>> <=> Len(hooks) = 0)
  BY SeqFacts DEF EndHooks
<1>7. ASSUME "unconfigure" \in ToSet(events') PROVE Last(events') = "unconfigure"
  <2>1. "unconfigure" \in ToSet(hooks)
    BY <1>3, <1>5, <1>7
  <2>2. Last(hooks) = "unconfigure" /\ Len(hooks) # 0
    BY <1>6, <2>1, EmptyFacts DEF EndHooks
  <2>3. Len(hooks) \in 1..Len(hooks) /\ Len(events') = Len(events) + Len(hooks)
    BY <1>3, <1>6, <2>2
  <2>4. (events')[Len(events')] = hooks[Len(hooks)]
    BY <1>3, <2>3
  <2> QED
    BY <2>2, <2>4 DEF Last
<1>8. "sessionfinish" \in ToSet(events') => "sessionstart" \in ToSet(events')
  BY <1>3, <1>5 DEF EndHooks
<1>9. Closed'
  BY <1>1, <1>2, <1>3, <1>5, <1>6, <1>7, <1>8 DEF Closed
<1>10. Begun'
  BY <1>1 DEF Begun, Late
<1> QED
  BY <1>1, <1>2, <1>3, <1>4, <1>9, <1>10 DEF HooksOK, Stages

LEMMA NoHooks == EndHooks(<<>>)
<1>1. IsInjective(<<>>)
  BY EmptyFacts DEF IsInjective
<1> QED
  BY <1>1, EmptyFacts DEF EndHooks

LEMMA OneHook ==
    ASSUME NEW a, a \notin ToSet(events), a = "sessionfinish" => "sessionstart" \in ToSet(events)
    PROVE  EndHooks(<<a>>)
<1>1. IsInjective(<<a>>)
  BY OneFacts DEF IsInjective
<1> QED
  BY <1>1, OneFacts DEF EndHooks, Last

LEMMA TwoHooks ==
    ASSUME NEW a, NEW b, {a, b} \cap ToSet(events) = {}, a # b, a # "unconfigure",
           "sessionfinish" \in {a, b} => "sessionstart" \in ToSet(events) \cup {a, b}
    PROVE  EndHooks(<<a, b>>)
  BY TwoFacts DEF EndHooks, Last

LEMMA ThreeHooks ==
    ASSUME NEW a, NEW b, NEW c, {a, b, c} \cap ToSet(events) = {}, a # b, b # c, a # c,
           "unconfigure" \notin {a, b},
           "sessionfinish" \in {a, b, c} => "sessionstart" \in ToSet(events) \cup {a, b, c}
    PROVE  EndHooks(<<a, b, c>>)
  BY ThreeFacts DEF EndHooks, Last

(* <<a>> \o Unconfigure(needed)                                            *)
LEMMA ThenUnconfigure ==
    ASSUME NEW a, a \notin ToSet(events), "unconfigure" \notin ToSet(events), a \notin LastHooks,
           NEW needed
    PROVE  EndHooks(<<a>> \o Unconfigure(needed))
<1> DEFINE u == Unconfigure(needed)
           t == <<a>> \o u
<1>1. IsSeq(<<a>>) /\ Len(<<a>>) = 1 /\ ToSet(<<a>>) = {a} /\ IsInjective(<<a>>)
  BY OneFacts DEF IsInjective
<1>2. u = <<>> \/ u = <<"unconfigure">>
  BY DEF Unconfigure
<1>3. IsSeq(u) /\ ToSet(u) \subseteq {"unconfigure"} /\ IsInjective(u) /\ Len(u) \in {0, 1}
  <2>1. CASE u = <<>>
    BY <2>1, EmptyFacts DEF IsInjective
  <2>2. CASE u = <<"unconfigure">>
    BY <2>2, OneFacts DEF IsInjective
  <2> QED
    BY <1>2, <2>1, <2>2
<1>4. \A i \in 1..Len(u) : i = 1 /\ u[i] = "unconfigure"
  <2>1. CASE u = <<>>
    BY <2>1, EmptyFacts
  <2>2. CASE u = <<"unconfigure">>
    BY <2>2, OneFacts
  <2> QED
    BY <1>2, <2>1, <2>2
<1> HIDE DEF u
<1>5. /\ IsSeq(t) /\ Len(t) = 1 + Len(u) /\ ToSet(t) = {a} \cup ToSet(u)
      /\ \A i \in 1..Len(u) : t[1 + i] = u[i]
  BY <1>1, <1>3, ConcatFacts
<1>6. IsInjective(t)
  BY <1>1, <1>3, ConcatOnce DEF LastHooks
<1> HIDE DEF t
<1>7. Len(t) <= 3
  BY <1>3, <1>5
<1>8. ASSUME "unconfigure" \in ToSet(t) PROVE Last(t) = "unconfigure"
  <2>1. Len(u) = 1
    BY <1>3, <1>5, <1>8, SeqFacts DEF LastHooks
  <2>2. Len(t) = 1 + 1 /\ 1 \in 1..Len(u)
    BY <1>5, <2>1
  <2>3. t[Len(t)] = "unconfigure"
    BY <1>4, <1>5, <2>2
  <2> QED
    BY <2>3 DEF Last
<1>9. EndHooks(t)
  BY <1>3, <1>5, <1>6, <1>7, <1>8 DEF EndHooks, LastHooks
<1> QED
  BY <1>9 DEF t, u

(* What is known of the hooks so far, stage by stage.                      *)
LEMMA BegunFacts ==
    ASSUME HooksOK
    PROVE  /\ stage \in {"boot", "plugins", "configure"} => ToSet(events) = {} /\ Len(events) = 0
           /\ stage = "start" => ToSet(events) = {"configure"} /\ Len(events) = 1
           /\ stage \in {"collect", "errors", "select"} =>
                 ToSet(events) = {"configure", "sessionstart"} /\ Len(events) = 2
           /\ stage \in {"selected", "run", "empty", "finish", "internal"} =>
                 /\ ToSet(events) \cap {"sessionfinish", "save", "unconfigure"} = {}
                 /\ "sessionstart" \in ToSet(events)
  BY DEF HooksOK, Begun, Late

LEMMA BootHooks == HooksOK /\ Boot => HooksOK'
<1> SUFFICES ASSUME HooksOK, Boot PROVE HooksOK'
  OBVIOUS
<1>1. stage = "boot" /\ pos = 0 /\ pos' = pos /\ ~Ended
  BY DEF Boot, chosen, HooksOK, Ended
<1>2. ASSUME NEW step, End(BootCode[step], <<>>) PROVE HooksOK'
  BY <1>1, <1>2, NoHooks, Ending
<1>3. CASE stage' = "plugins" /\ UNCHANGED <<ctl, events>>
  BY <1>1, <1>3 DEF HooksOK, CtlOK, Begun, Closed, Ended, Late, Stages
<1> QED
  BY <1>2, <1>3 DEF Boot

LEMMA PluginsHooks == HooksOK /\ ConfigurePlugins => HooksOK'
<1> SUFFICES ASSUME HooksOK, ConfigurePlugins PROVE HooksOK'
  OBVIOUS
<1>1. stage = "plugins" /\ pos = 0 /\ pos' = pos /\ ~Ended
  BY DEF ConfigurePlugins, chosen, HooksOK, Ended
<1>2. ASSUME NEW code, End(code, <<>>) PROVE HooksOK'
  BY <1>1, <1>2, NoHooks, Ending
<1>3. CASE stage' = "configure" /\ UNCHANGED <<ctl, events>>
  BY <1>1, <1>3 DEF HooksOK, CtlOK, Begun, Closed, Ended, Late, Stages
<1> QED
  BY <1>2, <1>3 DEF ConfigurePlugins

LEMMA ConfigureHooks == HooksOK /\ Configure => HooksOK'
<1> SUFFICES ASSUME HooksOK, Configure PROVE HooksOK'
  OBVIOUS
<1>1. stage = "configure" /\ pos = 0 /\ pos' = pos /\ ~Ended
  BY DEF Configure, chosen, HooksOK, Ended
<1>2. ToSet(events) = {} /\ Len(events) = 0
  BY <1>1, BegunFacts
<1>3. ASSUME NEW code, NEW needed, End(code, Unconfigure(needed)) PROVE HooksOK'
  <2>1. EndHooks(<<>>) /\ EndHooks(<<"unconfigure">>)
    BY <1>2, NoHooks, OneHook
  <2>2. EndHooks(Unconfigure(needed))
    BY <2>1 DEF Unconfigure
  <2> QED
    BY <1>1, <1>3, <2>2, Ending
<1>4. ASSUME NEW code, NEW needed, End(code, <<"configure">> \o Unconfigure(needed)) PROVE HooksOK'
  <2>1. EndHooks(<<"configure">> \o Unconfigure(needed))
    BY <1>2, ThenUnconfigure DEF LastHooks
  <2> QED
    BY <1>1, <1>4, <2>1, Ending
<1>5. ASSUME NEW code, End(code, <<"configure", "unconfigure">>) PROVE HooksOK'
  <2>1. EndHooks(<<"configure", "unconfigure">>)
    BY <1>2, TwoHooks
  <2> QED
    BY <1>1, <1>5, <2>1, Ending
<1>6. ASSUME NEW code, End(code, <<"unconfigure">>) PROVE HooksOK'
  <2>1. EndHooks(<<"unconfigure">>)
    BY <1>2, OneHook
  <2> QED
    BY <1>1, <1>6, <2>1, Ending
<1>7. ASSUME stage' = "start", Call(<<"configure">>), UNCHANGED ctl PROVE HooksOK'
  <2>1. IsSeq(<<"configure">>) /\ ToSet(<<"configure">>) = {"configure"} /\ Len(<<"configure">>) = 1
        /\ IsInjective(<<"configure">>)
    BY OneFacts DEF IsInjective
  <2>2. IsSeq(events) /\ IsInjective(events)
    BY DEF HooksOK
  <2>3. events' = events \o <<"configure">>
    BY <1>7 DEF Call
  <2>4. IsSeq(events') /\ IsInjective(events')
    BY <1>2, <2>1, <2>2, <2>3, ConcatFacts, ConcatOnce
  <2>5. ToSet(events') = {"configure"} /\ Len(events') = 1
    BY <1>2, <2>1, <2>2, <2>3, ConcatFacts
  <2> QED
    BY <1>1, <1>7, <2>4, <2>5 DEF HooksOK, CtlOK, Begun, Closed, Ended, Late, Stages
<1> QED
  BY <1>3, <1>4, <1>5, <1>6, <1>7 DEF Configure

LEMMA StartHooks == HooksOK /\ SessionStart => HooksOK'
<1> SUFFICES ASSUME HooksOK, SessionStart PROVE HooksOK'
  OBVIOUS
<1>1. stage = "start" /\ pos = 0 /\ pos' = pos /\ ~Ended
  BY DEF SessionStart, chosen, HooksOK, Ended
<1>2. ToSet(events) = {"configure"} /\ Len(events) = 1
  BY <1>1, BegunFacts
<1>3. ASSUME NEW code, NEW needed, End(code, <<"sessionstart">> \o Unconfigure(needed)) PROVE HooksOK'
  <2>1. EndHooks(<<"sessionstart">> \o Unconfigure(needed))
    BY <1>2, ThenUnconfigure DEF LastHooks
  <2> QED
    BY <1>1, <1>3, <2>1, Ending
<1>4. ASSUME NEW code, End(code, <<"sessionstart", "unconfigure">>) PROVE HooksOK'
  <2>1. EndHooks(<<"sessionstart", "unconfigure">>)
    BY <1>2, TwoHooks
  <2> QED
    BY <1>1, <1>4, <2>1, Ending
<1>5. ASSUME stage' = "collect", Call(<<"sessionstart">>), UNCHANGED ctl PROVE HooksOK'
  <2>1. IsSeq(<<"sessionstart">>) /\ ToSet(<<"sessionstart">>) = {"sessionstart"}
        /\ Len(<<"sessionstart">>) = 1 /\ IsInjective(<<"sessionstart">>)
    BY OneFacts DEF IsInjective
  <2>2. IsSeq(events) /\ IsInjective(events)
    BY DEF HooksOK
  <2>3. events' = events \o <<"sessionstart">>
    BY <1>5 DEF Call
  <2>4. IsSeq(events') /\ IsInjective(events')
    BY <1>2, <2>1, <2>2, <2>3, ConcatFacts, ConcatOnce
  <2>5. ToSet(events') = ToSet(events) \cup ToSet(<<"sessionstart">>)
        /\ Len(events') = Len(events) + Len(<<"sessionstart">>)
    BY <2>1, <2>2, <2>3, ConcatFacts
  <2>6. ToSet(events') = {"configure", "sessionstart"} /\ Len(events') = 2
    BY <1>2, <2>1, <2>5
  <2> QED
    BY <1>1, <1>5, <2>4, <2>6 DEF HooksOK, CtlOK, Begun, Closed, Ended, Late, Stages
<1> QED
  BY <1>3, <1>4, <1>5 DEF SessionStart

LEMMA CollectHooks == HooksOK /\ CollectItems => HooksOK'
<1> SUFFICES ASSUME HooksOK, CollectItems PROVE HooksOK'
  OBVIOUS
<1>1. stage = "collect" /\ pos = 0 /\ pos' = pos /\ ~Ended
  BY DEF CollectItems, HooksOK, Ended
<1>2. ToSet(events) = {"configure", "sessionstart"} /\ Len(events) = 2
  BY <1>1, BegunFacts
<1>3. ASSUME NEW code, End(code, <<>>) PROVE HooksOK'
  BY <1>1, <1>3, NoHooks, Ending
<1>4. ASSUME NEW code, End(code, <<"unconfigure">>) PROVE HooksOK'
  <2>1. EndHooks(<<"unconfigure">>)
    BY <1>2, OneHook
  <2> QED
    BY <1>1, <1>4, <2>1, Ending
<1>5. CASE stage' = "errors" /\ UNCHANGED <<ctl, events>>
  BY <1>1, <1>2, <1>5 DEF HooksOK, CtlOK, Begun, Closed, Ended, Late, Stages
<1> QED
  BY <1>3, <1>4, <1>5 DEF CollectItems

LEMMA ErrorsHooks == HooksOK /\ HandleCollectionErrors => HooksOK'
<1> SUFFICES ASSUME HooksOK, HandleCollectionErrors PROVE HooksOK'
  OBVIOUS
<1>1. stage = "errors" /\ pos = 0 /\ pos' = pos /\ ~Ended
  BY DEF HandleCollectionErrors, HooksOK, Ended, chosen
<1>2. ToSet(events) = {"configure", "sessionstart"} /\ Len(events) = 2
  BY <1>1, BegunFacts
<1>3. ASSUME NEW code, End(code, <<>>) PROVE HooksOK'
  BY <1>1, <1>3, NoHooks, Ending
<1>4. ASSUME NEW code, End(code, <<"save", "sessionfinish">>) PROVE HooksOK'
  <2>1. EndHooks(<<"save", "sessionfinish">>)
    BY <1>2, TwoHooks
  <2> QED
    BY <1>1, <1>4, <2>1, Ending
<1>5. CASE stage' = "select" /\ UNCHANGED <<ctl, events>>
  BY <1>1, <1>2, <1>5 DEF HooksOK, CtlOK, Begun, Closed, Ended, Late, Stages
<1> QED
  BY <1>3, <1>4, <1>5 DEF HandleCollectionErrors

LEMMA SelectHooks == HooksOK /\ Select => HooksOK'
<1> SUFFICES ASSUME HooksOK, Select PROVE HooksOK'
  OBVIOUS
<1>1. stage = "select" /\ pos = 0 /\ pos' = pos /\ ~Ended
  BY DEF Select, HooksOK, Ended
<1>2. ToSet(events) = {"configure", "sessionstart"} /\ Len(events) = 2
  BY <1>1, BegunFacts
<1>3. ASSUME NEW code, End(code, <<>>) PROVE HooksOK'
  BY <1>1, <1>3, NoHooks, Ending
<1>4. ASSUME NEW first, first = <<>> \/ first = <<"deselected">>, Call(first \o <<"collected">>),
             stage' = "selected", UNCHANGED ctl
      PROVE  HooksOK'
  <2> DEFINE t == first \o <<"collected">>
  <2>1. /\ IsSeq(first) /\ IsInjective(first) /\ ToSet(first) \subseteq {"deselected"}
        /\ Len(first) \in {0, 1}
    <3>1. CASE first = <<>>
      BY <3>1, EmptyFacts DEF IsInjective
    <3>2. CASE first = <<"deselected">>
      BY <3>2, OneFacts DEF IsInjective
    <3> QED
      BY <1>4, <3>1, <3>2
  <2>2. IsSeq(<<"collected">>) /\ ToSet(<<"collected">>) = {"collected"} /\ Len(<<"collected">>) = 1
        /\ IsInjective(<<"collected">>)
    BY OneFacts DEF IsInjective
  <2>3. /\ IsSeq(t) /\ IsInjective(t) /\ ToSet(t) = ToSet(first) \cup {"collected"}
        /\ Len(t) = Len(first) + 1
    BY <2>1, <2>2, ConcatFacts, ConcatOnce
  <2> HIDE DEF t
  <2>4. Len(t) <= 2 /\ Len(t) \in Nat
    BY <2>1, <2>3
  <2>5. IsSeq(events) /\ IsInjective(events)
    BY DEF HooksOK
  <2>6. events' = events \o t
    BY <1>4 DEF Call, t
  <2>7. /\ IsSeq(events') /\ ToSet(events') = ToSet(events) \cup ToSet(t)
        /\ Len(events') = Len(events) + Len(t)
    BY <2>3, <2>5, <2>6, ConcatFacts
  <2>8. IsInjective(events')
    BY <1>2, <2>1, <2>3, <2>5, <2>6, ConcatOnce
  <2>9. Len(events') <= 4
    BY <1>2, <2>4, <2>7
  <2>10. /\ ToSet(events') \subseteq {"configure", "sessionstart", "deselected", "collected"}
         /\ "sessionstart" \in ToSet(events')
    BY <1>2, <2>1, <2>3, <2>7
  <2>11. Begun'
    BY <1>4, <2>9, <2>10 DEF Begun, Late
  <2> QED
    BY <1>1, <1>4, <2>7, <2>8, <2>11 DEF HooksOK, CtlOK, Closed, Ended, Stages
<1> QED
  BY <1>3, <1>4 DEF Select

LEMMA ListHooks == HooksOK /\ ListOnly => HooksOK'
<1> SUFFICES ASSUME HooksOK, ListOnly PROVE HooksOK'
  OBVIOUS
<1>1. stage = "selected" /\ pos = 0 /\ pos' = pos /\ ~Ended
  BY DEF ListOnly, HooksOK, Ended, chosen
<1>2. ToSet(events) \cap {"sessionfinish", "save", "unconfigure"} = {} /\ "sessionstart" \in ToSet(events)
  BY <1>1, BegunFacts
<1>3. ASSUME NEW code, NEW hooks, End(code, hooks),
             hooks \in {<<>>, <<"unconfigure">>, <<"sessionfinish">>}
      PROVE  HooksOK'
  <2>1. EndHooks(<<>>) /\ EndHooks(<<"unconfigure">>) /\ EndHooks(<<"sessionfinish">>)
    BY <1>2, NoHooks, OneHook
  <2> QED
    BY <1>1, <1>3, <2>1, Ending
<1> QED
  BY <1>3 DEF ListOnly

LEMMA BeginHooks == HooksOK /\ BeginLoop => HooksOK'
  BY DEF HooksOK, BeginLoop, chosen, CtlOK, Begun, Closed, Ended, Late, Stages

LEMMA RunHooksOK == HooksOK /\ RunItem => HooksOK'
<1> SUFFICES ASSUME HooksOK, RunItem PROVE HooksOK'
  OBVIOUS
<1>1. PICK it, b, r : AfterItem(it, b, r)
  BY DEF RunItem
<1>2. stage = "run" /\ events' = events
  BY DEF RunItem
<1>3. stage' \in {"run", "finish", "internal"}
  BY <1>1, <1>2 DEF AfterItem
<1>4. CtlOK'
  BY <1>1 DEF AfterItem, CtlOK, HooksOK
<1> QED
  BY <1>2, <1>3, <1>4 DEF HooksOK, Begun, Closed, Ended, Late, Stages

LEMMA EndLoopHooks == HooksOK /\ EndLoop => HooksOK'
  BY DEF HooksOK, EndLoop, chosen, CtlOK, Begun, Closed, Ended, Late, Stages

LEMMA InternalHooks == HooksOK /\ InternalError => HooksOK'
<1> SUFFICES ASSUME HooksOK, InternalError PROVE HooksOK'
  OBVIOUS
<1>1. stage = "internal" /\ pos' = pos /\ ~Ended /\ End(INTERNAL_ERROR, <<"unconfigure">>)
  BY DEF InternalError, Ended, chosen
<1>2. EndHooks(<<"unconfigure">>)
  BY <1>1, BegunFacts, OneHook
<1> QED
  BY <1>1, <1>2, Ending

LEMMA NoTestsHooks == HooksOK /\ HandleNoTests => HooksOK'
<1> SUFFICES ASSUME HooksOK, HandleNoTests PROVE HooksOK'
  OBVIOUS
<1>1. stage = "empty" /\ pos = 0 /\ pos' = pos /\ ~Ended
  BY DEF HandleNoTests, Ended, chosen, HooksOK
<1>2. PICK code : End(code, <<"sessionfinish", "save">>)
  BY DEF HandleNoTests
<1>3. EndHooks(<<"sessionfinish", "save">>)
  BY <1>1, BegunFacts, TwoHooks
<1> QED
  BY <1>1, <1>2, <1>3, Ending

LEMMA FinishHooks == HooksOK /\ FinishSession => HooksOK'
<1> SUFFICES ASSUME HooksOK, FinishSession PROVE HooksOK'
  OBVIOUS
<1>1. stage = "finish" /\ pos' = pos /\ ~Ended
  BY DEF FinishSession, Ended, chosen
<1>2. \E code : \/ End(code, <<"sessionfinish", "save">>)
                \/ End(code, <<"sessionfinish", "save", "unconfigure">>)
  BY DEF FinishSession
<1>3. EndHooks(<<"sessionfinish", "save">>) /\ EndHooks(<<"sessionfinish", "save", "unconfigure">>)
  BY <1>1, BegunFacts, TwoHooks, ThreeHooks
<1>4. /\ {"sessionfinish", "save"} \subseteq ToSet(<<"sessionfinish", "save">>)
      /\ {"sessionfinish", "save"} \subseteq ToSet(<<"sessionfinish", "save", "unconfigure">>)
  BY TwoFacts, ThreeFacts
<1> QED
  BY <1>1, <1>2, <1>3, <1>4, Ending

LEMMA NextRunHooks == HooksOK /\ NextRun => HooksOK'
<1> SUFFICES ASSUME HooksOK, NextRun PROVE HooksOK'
  OBVIOUS
<1>1. IsInjective(<<>>)
  BY EmptyFacts DEF IsInjective
<1>2. events' = <<>> /\ stage' = "boot" /\ pos' = 0 /\ ctl' = Control
  BY DEF NextRun
<1> QED
  BY <1>1, <1>2, EmptyFacts DEF HooksOK, Begun, Closed, CtlOK, Control, Stages, Ended, Late

LEMMA HooksNext == HooksOK /\ [Next]_vars => HooksOK'
<1> SUFFICES ASSUME HooksOK, [Next]_vars PROVE HooksOK'
  OBVIOUS
<1>1. CASE Boot
  BY <1>1, BootHooks
<1>2. CASE ConfigurePlugins
  BY <1>2, PluginsHooks
<1>3. CASE Configure
  BY <1>3, ConfigureHooks
<1>4. CASE SessionStart
  BY <1>4, StartHooks
<1>5. CASE CollectItems
  BY <1>5, CollectHooks
<1>6. CASE HandleCollectionErrors
  BY <1>6, ErrorsHooks
<1>7. CASE Select
  BY <1>7, SelectHooks
<1>8. CASE ListOnly
  BY <1>8, ListHooks
<1>9. CASE BeginLoop
  BY <1>9, BeginHooks
<1>10. CASE RunItem
  BY <1>10, RunHooksOK
<1>11. CASE EndLoop
  BY <1>11, EndLoopHooks
<1>12. CASE InternalError
  BY <1>12, InternalHooks
<1>13. CASE HandleNoTests
  BY <1>13, NoTestsHooks
<1>14. CASE FinishSession
  BY <1>14, FinishHooks
<1>15. CASE NextRun
  BY <1>15, NextRunHooks
<1>16. CASE Over \/ UNCHANGED vars
  BY <1>16 DEF Over, vars, chosen, HooksOK, CtlOK, Begun, Closed, Ended, Late, Stages
<1> QED
  BY <1>1, <1>2, <1>3, <1>4, <1>5, <1>6, <1>7, <1>8, <1>9, <1>10, <1>11, <1>12, <1>13, <1>14, <1>15,
     <1>16 DEF Next

(* No hook was called twice.                                               *)
LEMMA OnceCounted ==
    ASSUME IsSeq(events), IsInjective(events), NEW hook \in ToSet(events)
    PROVE  Count(hook) = 1
<1>1. PICK i \in DOMAIN events : events[i] = hook
  BY DEF ToSet
<1>2. {j \in DOMAIN events : events[j] = hook} = {i}
  BY <1>1 DEF IsInjective
<1> QED
  BY <1>2, FS_Singleton DEF Count

(* The hooks of a run are called once, pytest_sessionfinish not before     *)
(* pytest_sessionstart, pytest_unconfigure last; a run of tests finishes   *)
(* and keeps its cache unless an internal error ended it.                  *)
THEOREM CleanEndHolds == Spec => []CleanEnd
<1>1. HooksOK => CleanEnd
  <2> SUFFICES ASSUME HooksOK PROVE CleanEnd
    OBVIOUS
  <2>1. IsSeq(events) /\ IsInjective(events)
    BY DEF HooksOK
  <2>2. \A hook : Happened(hook) <=> hook \in ToSet(events)
    BY <2>1, ContainsIn DEF Happened
  <2>3. \A hook \in ToSet(events) : Count(hook) = 1
    BY <2>1, OnceCounted
  <2>4. ~Ended => \/ stage \in {"boot", "plugins", "configure"} \/ stage = "start"
                  \/ stage \in {"collect", "errors", "select"} \/ stage \in Late
    BY DEF HooksOK, Ended, Stages, Late
  <2>5. ~Ended => ToSet(events) \subseteq {"configure", "sessionstart", "deselected", "collected"}
    BY <2>4 DEF HooksOK, Begun
  <2>6. "sessionfinish" \in ToSet(events) => "sessionstart" \in ToSet(events)
    BY <2>5 DEF HooksOK, Closed
  <2>7. "unconfigure" \in ToSet(events) => Last(events) = "unconfigure" /\ Ended
    BY <2>5 DEF HooksOK, Closed
  <2>8. Ended /\ pos > 0 => {"sessionfinish", "save"} \subseteq ToSet(events) \/ ctl.code = INTERNAL_ERROR
    <3>1. Ended /\ pos # 0 => {"sessionfinish", "save"} \subseteq ToSet(events) \/ ctl.code = INTERNAL_ERROR
      BY DEF HooksOK, Closed
    <3>2. pos > 0 => pos # 0
      OBVIOUS
    <3> QED
      BY <3>1, <3>2
  <2> QED
    BY <2>2, <2>3, <2>6, <2>7, <2>8 DEF CleanEnd
<1>2. HooksOK /\ [Next]_vars => HooksOK'
  BY HooksNext
<1> QED
  BY HooksInit, <1>1, <1>2, PTL DEF Spec

HookedOnce(st) == IsSeq(st.hooked) /\ IsInjective(st.hooked)
Loads(st, t) ==
    /\ DOMAIN t = DOMAIN st /\ HookedOnce(t)
    /\ \A x \in DOMAIN st \ {"defs", "hooked"} : t[x] = st[x]

LEMMA ScanLoads ==
    ASSUME NEW p, NEW st, HookedOnce(st), {"defs", "hooked"} \subseteq DOMAIN st, NEW n,
           ~Contains(st.hooked, n)
    PROVE  Loads(st, Scan(p, st, n))
<1> DEFINE t == Scan(p, st, n)
<1>1. DOMAIN t = DOMAIN st /\ \A x \in DOMAIN st \ {"defs", "hooked"} : t[x] = st[x]
  BY DEF Scan
<1>2. t.hooked = IF p.modules[n].hooks THEN Append(st.hooked, n) ELSE st.hooked
  BY DEF Scan
<1>3. n \notin ToSet(st.hooked)
  BY ContainsIn DEF HookedOnce
<1>4. IsSeq(Append(st.hooked, n)) /\ IsInjective(Append(st.hooked, n))
  BY <1>3, AppendFacts, AppendOnce DEF HookedOnce
<1> HIDE DEF t
<1>5. HookedOnce(t)
  BY <1>2, <1>4 DEF HookedOnce
<1>6. Loads(st, t)
  BY <1>1, <1>5 DEF Loads
<1> QED
  BY <1>6 DEF t

LEMMA ImportLoads ==
    ASSUME NEW p, NEW st, HookedOnce(st), {"defs", "hooked"} \subseteq DOMAIN st, NEW n
    PROVE  Loads(st, Import(p, st, n))
<1>1. Loads(st, st)
  BY DEF Loads
<1> QED
  BY <1>1, ScanLoads DEF Import

LEMMA LoadsThen ==
    ASSUME NEW st, NEW t, NEW u, Loads(st, t), Loads(t, u)
    PROVE  Loads(st, u)
  BY DEF Loads

(* A state that plugins are loaded into: what it was, x after x.           *)
Loadable(st) == HookedOnce(st) /\ {"defs", "hooked"} \subseteq DOMAIN st

LEMMA LoadsLoadable ==
    ASSUME NEW st, NEW t, Loadable(st), Loads(st, t)
    PROVE  Loadable(t)
  BY DEF Loadable, Loads

\* c = <<p, st>>
LoadStep(c, s, n) == Import(c[1], s, n)
LoadHolds(c, i, s) == Loads(c[2], s)
Loading == INSTANCE Folding WITH Step <- LoadStep, Holds <- LoadHolds

LEMMA LoadNamedFold ==
    ASSUME NEW p, NEW st, NEW names, NEW c, c[1] = p
    PROVE  LoadNamed(p, st, names) = Loading!Fold(c, st, names)
  BY DEF LoadNamed, Loading!Fold, LoadStep, FoldLeft, MapThenFoldSet, Max, Loading!Greatest

LEMMA LoadNamedLoads ==
    ASSUME NEW p, NEW st, Loadable(st), NEW names, IsSeq(names)
    PROVE  Loads(st, LoadNamed(p, st, names))
<1> DEFINE c == <<p, st>>
<1>0. c[1] = p /\ c[2] = st
  OBVIOUS
<1> HIDE DEF c
<1>1. Len(names) \in Nat /\ DOMAIN names = 1..Len(names)
  BY SeqFacts
<1>2. LoadHolds(c, 0, st)
  BY <1>0 DEF LoadHolds, Loads, Loadable
<1>3. ASSUME NEW i \in 1..Len(names), NEW s, LoadHolds(c, i - 1, s)
      PROVE  LoadHolds(c, i, LoadStep(c, s, names[i]))
  <2>1. Loads(st, s) /\ Loadable(s)
    BY <1>0, <1>3, LoadsLoadable DEF LoadHolds
  <2>2. Loads(s, Import(p, s, names[i]))
    BY <2>1, ImportLoads DEF Loadable
  <2> QED
    BY <1>0, <2>1, <2>2, LoadsThen DEF LoadHolds, LoadStep
<1>4. LoadHolds(c, Len(names), Loading!Fold(c, st, names))
  BY <1>1, <1>2, <1>3, NaturalInduction, Loading!FoldHolds DEF Loading!Induction
<1> QED
  BY <1>0, <1>4, LoadNamedFold DEF LoadHolds

---------------------------------------------------------------------------
(* The plugins of the command line.                                        *)

(* The state while they are loaded.                                        *)
CmdState(st) == HookedOnce(st) /\ DOMAIN st = {"defs", "hooked", "tracked"}

LEMMA EntryKeeps ==
    ASSUME NEW p, NEW st, CmdState(st), NEW n
    PROVE  CmdState(LoadEntry(p, st, n))
<1> DEFINE t == Scan(p, st, n)
           u == [t EXCEPT !.tracked = Append(@, n)]
<1>1. CASE Importable(p, n) /\ ~Already(st, n)
  <2>1. Loads(st, t)
    BY <1>1, ScanLoads DEF CmdState, Already
  <2>2. LoadEntry(p, st, n) = u
    BY <1>1 DEF LoadEntry
  <2> HIDE DEF t
  <2>3. DOMAIN u = DOMAIN t /\ u.hooked = t.hooked
    BY <2>1 DEF Loads, CmdState
  <2> HIDE DEF u
  <2> QED
    BY <2>1, <2>2, <2>3 DEF Loads, CmdState, HookedOnce
<1>2. CASE ~(Importable(p, n) /\ ~Already(st, n))
  BY <1>2 DEF LoadEntry
<1> QED
  BY <1>1, <1>2

LEMMA ArgumentKeeps ==
    ASSUME NEW p, NEW opts, NEW st, CmdState(st), NEW n
    PROVE  CmdState(LoadArgument(p, opts, st, n))
<1>1. \A m : CmdState(LoadEntry(p, st, m))
  BY EntryKeeps
<1>2. CmdState(Import(p, st, n))
  <2>1. Loads(st, Import(p, st, n))
    BY ImportLoads DEF CmdState
  <2> QED
    BY <2>1 DEF Loads, CmdState
<1>3. \/ LoadArgument(p, opts, st, n) = st
      \/ \E m : LoadArgument(p, opts, st, n) = LoadEntry(p, st, m)
      \/ LoadArgument(p, opts, st, n) = Import(p, st, n)
  BY DEF LoadArgument
<1> QED
  BY <1>1, <1>2, <1>3

\* c = <<p, o>>
ArgumentStep(c, s, n) == LoadArgument(c[1], c[2], s, n)
EntryStep(c, s, e) == LoadEntry(c[1], s, e.module)
CmdHolds(c, i, s) == CmdState(s)
Arguing == INSTANCE Folding WITH Step <- ArgumentStep, Holds <- CmdHolds
Entering == INSTANCE Folding WITH Step <- EntryStep, Holds <- CmdHolds

Arguments(p, opts, st, names) == FoldLeft(LAMBDA s, n : LoadArgument(p, opts, s, n), st, names)
Entries(p, st, es) == FoldLeft(LAMBDA s, e : LoadEntry(p, s, e.module), st, es)

LEMMA ArgumentsKeep ==
    ASSUME NEW p, NEW opts, NEW st, CmdState(st), NEW names, IsSeq(names)
    PROVE  CmdState(Arguments(p, opts, st, names))
<1>1. ASSUME NEW c, c[1] = p, c[2] = opts
      PROVE  Arguments(p, opts, st, names) = Arguing!Fold(c, st, names)
  BY <1>1 DEF Arguments, Arguing!Fold, ArgumentStep, FoldLeft, MapThenFoldSet, Max, Arguing!Greatest
<1> DEFINE c == <<p, opts>>
<1>2. c[1] = p /\ c[2] = opts
  OBVIOUS
<1> HIDE DEF c
<1>3. Len(names) \in Nat /\ DOMAIN names = 1..Len(names)
  BY SeqFacts
<1>4. \A i \in 1..Len(names) : \A s : CmdHolds(c, i - 1, s) => CmdHolds(c, i, ArgumentStep(c, s, names[i]))
  BY <1>2, ArgumentKeeps DEF CmdHolds, ArgumentStep
<1>5. CmdHolds(c, Len(names), Arguing!Fold(c, st, names))
  BY <1>3, <1>4, NaturalInduction, Arguing!FoldHolds DEF CmdHolds, Arguing!Induction
<1> QED
  BY <1>1, <1>2, <1>5 DEF CmdHolds

LEMMA EntriesKeep ==
    ASSUME NEW p, NEW st, CmdState(st), NEW es, IsSeq(es)
    PROVE  CmdState(Entries(p, st, es))
<1>1. ASSUME NEW c, c[1] = p
      PROVE  Entries(p, st, es) = Entering!Fold(c, st, es)
  BY <1>1 DEF Entries, Entering!Fold, EntryStep, FoldLeft, MapThenFoldSet, Max, Entering!Greatest
<1> DEFINE c == <<p>>
<1>2. c[1] = p
  OBVIOUS
<1> HIDE DEF c
<1>3. Len(es) \in Nat /\ DOMAIN es = 1..Len(es)
  BY SeqFacts
<1>4. \A i \in 1..Len(es) : \A s : CmdHolds(c, i - 1, s) => CmdHolds(c, i, EntryStep(c, s, es[i]))
  BY <1>2, EntryKeeps DEF CmdHolds, EntryStep
<1>5. CmdHolds(c, Len(es), Entering!Fold(c, st, es))
  BY <1>3, <1>4, NaturalInduction, Entering!FoldHolds DEF CmdHolds, Entering!Induction
<1> QED
  BY <1>1, <1>2, <1>5 DEF CmdHolds

LEMMA LoadEntrypointsKeep ==
    ASSUME NEW p, IsSeq(p.entrypoints), NEW opts, NEW st, CmdState(st)
    PROVE  CmdState(LoadEntrypoints(p, opts, st))
<1> DEFINE S == {e \in ToSet(p.entrypoints) : {e.name, e.module} \cap opts.blocked = {}}
           es == Kept(p.entrypoints, S)
<1>1. IsSeq(es)
  BY KeptFacts
<1>2. LoadEntrypoints(p, opts, st) = IF ~opts.autoload THEN st
                                  ELSE Entries(p, st, es)
  BY DEF LoadEntrypoints, Where, Entries
<1> HIDE DEF es
<1> QED
  BY <1>1, <1>2, EntriesKeep

LEMMA CmdlineLoaded ==
    ASSUME NEW p, IsSeq(p.entrypoints), NEW opts, IsSeq(opts.plugins), IsSeq(opts.envPlugins)
    PROVE  CmdState(LoadCmdline(p, opts))
<1> DEFINE st0 == [defs |-> <<>>, hooked |-> <<>>, tracked |-> <<>>]
           st1 == Arguments(p, opts, st0, opts.plugins)
           st2 == LoadEntrypoints(p, opts, st1)
<1>1. CmdState(st0)
  BY EmptyFacts DEF CmdState, HookedOnce, IsInjective
<1> HIDE DEF st0
<1>2. CmdState(st1)
  BY <1>1, ArgumentsKeep
<1> HIDE DEF st1
<1>3. CmdState(st2)
  BY <1>2, LoadEntrypointsKeep
<1> HIDE DEF st2
<1>4. Loads(st2, LoadNamed(p, st2, opts.envPlugins))
  BY <1>3, LoadNamedLoads DEF Loadable, CmdState
<1>5. LoadCmdline(p, opts) = LoadNamed(p, st2, opts.envPlugins)
  BY DEF LoadCmdline, st0, st1, st2, Arguments
<1> QED
  BY <1>3, <1>4, <1>5 DEF CmdState, Loads

---------------------------------------------------------------------------
(* Sorting by rank.  R holds the pairs <<x, y>> with x before y.           *)
Orders(R, S) ==
    /\ \A x \in S : <<x, x>> \notin R
    /\ \A x, y, z \in S : <<x, y>> \in R /\ <<y, z>> \in R => <<x, z>> \in R
    /\ \A x, y \in S : x # y => <<x, y>> \in R \/ <<y, x>> \in R

BeforeIn(S, R, x) == {y \in S : <<y, x>> \in R}

LEMMA Ranks ==
    ASSUME NEW S, IsFiniteSet(S), NEW R, Orders(R, S)
    PROVE  /\ Cardinality(S) \in Nat
           /\ \A x \in S : Cardinality(BeforeIn(S, R, x)) \in 0..(Cardinality(S) - 1)
           /\ \A x, y \in S : Cardinality(BeforeIn(S, R, x)) = Cardinality(BeforeIn(S, R, y)) => x = y
           /\ \A x, y \in S : <<x, y>> \in R =>
                 Cardinality(BeforeIn(S, R, x)) < Cardinality(BeforeIn(S, R, y))
           /\ \A k \in 1..Cardinality(S) : \E x \in S : Cardinality(BeforeIn(S, R, x)) = k - 1
<1> DEFINE n == Cardinality(S)
           rank(x) == Cardinality(BeforeIn(S, R, x))
<1>1. n \in Nat
  BY FS_CardinalityType
<1>2. ASSUME NEW x \in S
      PROVE  IsFiniteSet(BeforeIn(S, R, x)) /\ rank(x) \in Nat /\ x \notin BeforeIn(S, R, x)
  <2>1. BeforeIn(S, R, x) \in SUBSET S /\ x \notin BeforeIn(S, R, x)
    BY DEF BeforeIn, Orders
  <2>2. IsFiniteSet(BeforeIn(S, R, x))
    BY <2>1, FS_Subset
  <2> QED
    BY <2>1, <2>2, FS_CardinalityType
<1>3. ASSUME NEW x \in S PROVE rank(x) \in 0..(n - 1)
  <2> DEFINE B == BeforeIn(S, R, x)
  <2>1. IsFiniteSet(B) /\ rank(x) \in Nat /\ x \notin B
    BY <1>2
  <2>2. IsFiniteSet(B \cup {x}) /\ Cardinality(B \cup {x}) = rank(x) + 1
    BY <2>1, FS_AddElement
  <2>3. B \cup {x} \in SUBSET S
    BY DEF BeforeIn
  <2>4. Cardinality(B \cup {x}) <= n
    BY <2>3, FS_Subset
  <2> QED
    BY <1>1, <2>1, <2>2, <2>4
<1>4. ASSUME NEW x \in S, NEW y \in S, <<x, y>> \in R PROVE rank(x) < rank(y)
  <2> DEFINE B == BeforeIn(S, R, x)
             C == BeforeIn(S, R, y)
  <2>1. IsFiniteSet(B) /\ rank(x) \in Nat /\ x \notin B
    BY <1>2
  <2>2. IsFiniteSet(C) /\ rank(y) \in Nat
    BY <1>2
  <2>3. B \cup {x} \in SUBSET C
    BY <1>4 DEF BeforeIn, Orders
  <2>4. Cardinality(B \cup {x}) = rank(x) + 1
    BY <2>1, FS_AddElement
  <2>5. Cardinality(B \cup {x}) <= rank(y)
    BY <2>2, <2>3, FS_Subset
  <2> QED
    BY <2>1, <2>2, <2>4, <2>5
<1>5. ASSUME NEW x \in S, NEW y \in S, rank(x) = rank(y) PROVE x = y
  <2>1. rank(x) \in Nat
    BY <1>2
  <2>2. ~(rank(x) < rank(y)) /\ ~(rank(y) < rank(x))
    BY <1>5, <2>1
  <2>3. <<x, y>> \notin R /\ <<y, x>> \notin R
    BY <1>4, <2>2
  <2> QED
    BY <2>3 DEF Orders
<1> DEFINE f == [x \in S |-> rank(x)]
<1>6. f \in Injection(S, 0..(n - 1))
  <2>1. f \in [S -> 0..(n - 1)]
    BY <1>3
  <2>2. IsInjective(f)
    BY <1>5 DEF IsInjective
  <2> QED
    BY <2>1, <2>2 DEF Injection
<1>7. IsFiniteSet(0..(n - 1)) /\ Cardinality(0..(n - 1)) = n
  <2>1. 0 \in Int /\ n - 1 \in Int
    BY <1>1
  <2>2. IsFiniteSet(0..(n - 1)) /\ Cardinality(0..(n - 1)) = IF 0 > n - 1 THEN 0 ELSE (n - 1) - 0 + 1
    BY <2>1, FS_Interval
  <2> QED
    BY <1>1, <2>2
<1>8. f \in Surjection(S, 0..(n - 1))
  BY <1>6, <1>7, FS_Injection
<1>9. ASSUME NEW k \in 1..n PROVE \E x \in S : rank(x) = k - 1
  <2>1. k - 1 \in 0..(n - 1)
    BY <1>1
  <2>2. PICK x \in S : f[x] = k - 1
    BY <1>8, <2>1 DEF Surjection
  <2> QED
    BY <2>2
<1> QED
  BY <1>1, <1>3, <1>4, <1>5, <1>9

(* A list of S by rank: every element, each once, in the order.            *)
IsRanked(t, S, R) ==
    /\ DOMAIN t = 1..Cardinality(S) /\ t = [k \in DOMAIN t |-> t[k]]
    /\ \A k \in 1..Cardinality(S) : t[k] \in S /\ Cardinality(BeforeIn(S, R, t[k])) = k - 1

LEMMA RankedFacts ==
    ASSUME NEW S, IsFiniteSet(S), NEW R, Orders(R, S), NEW t, IsRanked(t, S, R)
    PROVE  /\ IsSeq(t) /\ Len(t) = Cardinality(S) /\ ToSet(t) = S /\ IsInjective(t)
           /\ \A i, j \in 1..Cardinality(S) : <<t[i], t[j]>> \in R => i < j
<1> DEFINE n == Cardinality(S)
           rank(x) == Cardinality(BeforeIn(S, R, x))
<1>1. n \in Nat
  BY FS_CardinalityType
<1>2. \A k \in 1..n : t[k] \in S /\ rank(t[k]) = k - 1
  BY DEF IsRanked
<1>3. DOMAIN t = 1..n /\ t = [k \in DOMAIN t |-> t[k]]
  BY DEF IsRanked
<1>4. IsSeq(t) /\ Len(t) = n
  BY <1>1, <1>3, SeqIntro
<1>5. ASSUME NEW x \in S PROVE x \in ToSet(t)
  <2>1. rank(x) \in 0..(n - 1)
    BY Ranks
  <2>2. rank(x) + 1 \in 1..n /\ (rank(x) + 1) - 1 = rank(x)
    BY <1>1, <2>1
  <2>3. t[rank(x) + 1] \in S /\ rank(t[rank(x) + 1]) = rank(x)
    BY <1>2, <2>2
  <2>4. t[rank(x) + 1] = x
    BY <2>3, Ranks
  <2> QED
    BY <1>3, <2>2, <2>4 DEF ToSet
<1>6. ToSet(t) = S
  BY <1>2, <1>3, <1>5 DEF ToSet
<1>7. IsInjective(t)
  <2> SUFFICES ASSUME NEW i \in 1..n, NEW j \in 1..n, t[i] = t[j] PROVE i = j
    BY <1>3 DEF IsInjective
  <2>1. i - 1 = j - 1
    BY <1>2
  <2> QED
    BY <2>1
<1>8. ASSUME NEW i \in 1..n, NEW j \in 1..n, <<t[i], t[j]>> \in R PROVE i < j
  <2>1. t[i] \in S /\ t[j] \in S /\ rank(t[i]) = i - 1 /\ rank(t[j]) = j - 1
    BY <1>2
  <2>2. rank(t[i]) < rank(t[j])
    BY <1>8, <2>1, Ranks
  <2>3. i - 1 < j - 1
    BY <2>1, <2>2
  <2> QED
    BY <2>3
<1> QED
  BY <1>4, <1>6, <1>7, <1>8

---------------------------------------------------------------------------
(* Lists made from lists.                                                  *)

LEMMA MapFacts ==
    ASSUME NEW s, IsSeq(s), NEW t, DOMAIN t = DOMAIN s, t = [i \in DOMAIN t |-> t[i]]
    PROVE  IsSeq(t) /\ Len(t) = Len(s) /\ DOMAIN t = 1..Len(t)
<1>1. Len(s) \in Nat /\ DOMAIN s = 1..Len(s)
  BY SeqFacts
<1> QED
  BY <1>1, SeqIntro

LEMMA FlattenMap ==
    ASSUME NEW s, IsSeq(s), NEW ss, DOMAIN ss = DOMAIN s, ss = [i \in DOMAIN ss |-> ss[i]],
           \A i \in DOMAIN s : IsSeq(ss[i])
    PROVE  /\ IsSeq(FlattenSeq(ss))
           /\ \A x : x \in ToSet(FlattenSeq(ss)) <=> \E i \in DOMAIN s : x \in ToSet(ss[i])
<1>1. IsSeq(ss) /\ DOMAIN ss = 1..Len(ss)
  BY MapFacts
<1>2. \A i \in 1..Len(ss) : IsSeq(ss[i])
  BY <1>1
<1>3. 1..Len(ss) = DOMAIN s
  BY <1>1
<1> QED
  BY <1>1, <1>2, <1>3, FlattenFacts

LEMMA IndicesFacts ==
    ASSUME NEW s, IsSeq(s)
    PROVE  /\ IsSeq(Indices(s)) /\ IsInjective(Indices(s)) /\ Len(Indices(s)) = Len(s)
           /\ ToSet(Indices(s)) = DOMAIN s /\ \A i \in DOMAIN s : Indices(s)[i] = i
<1> DEFINE t == Indices(s)
<1>1. DOMAIN t = DOMAIN s /\ t = [i \in DOMAIN t |-> t[i]] /\ \A i \in DOMAIN s : t[i] = i
  BY DEF Indices
<1> HIDE DEF t
<1>2. IsSeq(t) /\ Len(t) = Len(s)
  BY <1>1, MapFacts
<1>3. IsInjective(t) /\ ToSet(t) = DOMAIN s
  BY <1>1 DEF IsInjective, ToSet
<1> QED
  BY <1>1, <1>2, <1>3 DEF t

LEMMA ReverseFacts ==
    ASSUME NEW s, IsSeq(s)
    PROVE  IsSeq(Reverse(s)) /\ Len(Reverse(s)) = Len(s) /\ ToSet(Reverse(s)) = ToSet(s)
<1> DEFINE t == Reverse(s)
<1>1. Len(s) \in Nat /\ DOMAIN s = 1..Len(s)
  BY SeqFacts
<1>2. /\ DOMAIN t = DOMAIN s /\ t = [i \in DOMAIN t |-> t[i]]
      /\ \A i \in DOMAIN s : t[i] = s[(Len(s) - i) + 1]
  BY <1>1 DEF Reverse
<1> HIDE DEF t
<1>3. IsSeq(t) /\ Len(t) = Len(s)
  BY <1>2, MapFacts
<1>4. \A i \in 1..Len(s) : (Len(s) - i) + 1 \in 1..Len(s) /\ (Len(s) - ((Len(s) - i) + 1)) + 1 = i
  BY <1>1
<1>5. ToSet(t) = ToSet(s)
  BY <1>1, <1>2, <1>4 DEF ToSet
<1> QED
  BY <1>3, <1>5 DEF t

\* c is the list
DedupStep(c, acc, x) == IF Contains(acc, x) THEN acc ELSE Append(acc, x)
DedupHolds(c, i, acc) ==
    /\ IsSeq(acc) /\ IsInjective(acc)
    /\ \A x : x \in ToSet(acc) <=> \E j \in 1..i : c[j] = x
Deduping == INSTANCE Folding WITH Step <- DedupStep, Holds <- DedupHolds

LEMMA DedupFacts ==
    ASSUME NEW s, IsSeq(s)
    PROVE  IsSeq(Dedup(s)) /\ IsInjective(Dedup(s)) /\ ToSet(Dedup(s)) = ToSet(s)
<1>1. Len(s) \in Nat /\ DOMAIN s = 1..Len(s)
  BY SeqFacts
<1>2. Dedup(s) = Deduping!Fold(s, <<>>, s)
  BY DEF Dedup, Deduping!Fold, DedupStep, FoldLeft, MapThenFoldSet, Max, Deduping!Greatest
<1>3. DedupHolds(s, 0, <<>>)
  BY EmptyFacts DEF DedupHolds, IsInjective
<1>4. ASSUME NEW i \in 1..Len(s), NEW acc, DedupHolds(s, i - 1, acc)
      PROVE  DedupHolds(s, i, DedupStep(s, acc, s[i]))
  <2>1. \A j : j \in 1..i <=> j \in 1..(i - 1) \/ j = i
    BY <1>1
  <2>2. Contains(acc, s[i]) <=> s[i] \in ToSet(acc)
    BY <1>4, ContainsIn DEF DedupHolds
  <2>3. CASE s[i] \in ToSet(acc)
    BY <1>4, <2>1, <2>2, <2>3 DEF DedupHolds, DedupStep
  <2>4. CASE s[i] \notin ToSet(acc)
    <3>1. IsSeq(Append(acc, s[i])) /\ ToSet(Append(acc, s[i])) = ToSet(acc) \cup {s[i]}
      BY <1>4, AppendFacts DEF DedupHolds
    <3>2. IsInjective(Append(acc, s[i]))
      BY <1>4, <2>4, AppendOnce DEF DedupHolds
    <3> QED
      BY <1>4, <2>1, <2>2, <2>4, <3>1, <3>2 DEF DedupHolds, DedupStep
  <2> QED
    BY <2>3, <2>4
<1>5. DedupHolds(s, Len(s), Deduping!Fold(s, <<>>, s))
  BY <1>1, <1>3, <1>4, NaturalInduction, Deduping!FoldHolds DEF Deduping!Induction
<1>6. ToSet(Dedup(s)) = ToSet(s)
  BY <1>1, <1>2, <1>5 DEF DedupHolds, ToSet
<1> QED
  BY <1>2, <1>5, <1>6 DEF DedupHolds

---------------------------------------------------------------------------
(* Paths, and the lists of files and directories collection makes of them. *)

Paths == Seq(Nat)

LEMMA PathFacts ==
    ASSUME NEW d \in Paths
    PROVE  IsSeq(d) /\ Len(d) \in Nat /\ DOMAIN d = 1..Len(d) /\ \A i \in 1..Len(d) : d[i] \in Nat
<1>1. d \in Seq(Nat)
  BY DEF Paths
<1>2. IsSeq(d) /\ ToSet(d) \subseteq Nat
  BY <1>1, SeqRange
<1> QED
  BY <1>2, SeqFacts

LEMMA FrontPath ==
    ASSUME NEW d \in Paths
    PROVE  Front(d) \in Paths
<1>1. Len(d) \in Nat /\ \A i \in 1..(Len(d) - 1) : d[i] \in Nat
  BY PathFacts
<1>2. Len(d) - 1 \in Int
  BY <1>1
<1>3. SubSeq(d, 1, Len(d) - 1) \in Seq(Nat)
  BY <1>1, <1>2, SubSeqProperties
<1> QED
  BY <1>3 DEF Front, Paths

(* The first place where two paths part.                                   *)
LEMMA Parting ==
    ASSUME NEW a \in Paths, NEW b \in Paths, a # b
    PROVE  Before(a, b) \/ Before(b, a)
<1> DEFINE D == {i \in DOMAIN a \cap DOMAIN b : a[i] # b[i]}
<1>1. /\ Len(a) \in Nat /\ DOMAIN a = 1..Len(a) /\ \A i \in 1..Len(a) : a[i] \in Nat
      /\ Len(b) \in Nat /\ DOMAIN b = 1..Len(b) /\ \A i \in 1..Len(b) : b[i] \in Nat
      /\ IsSeq(a) /\ IsSeq(b)
  BY PathFacts
<1>2. CASE D = {}
  <2>1. \A i \in DOMAIN a \cap DOMAIN b : a[i] = b[i]
    BY <1>2
  <2>2. Len(a) # Len(b)
    <3> SUFFICES ASSUME Len(a) = Len(b) PROVE FALSE
      OBVIOUS
    <3> QED
      BY <1>1, <2>1, EqualSeqs
  <2>3. CASE Len(a) < Len(b)
    BY <1>1, <2>1, <2>3 DEF Before, Under
  <2>4. CASE Len(b) < Len(a)
    BY <1>1, <2>1, <2>4 DEF Before, Under
  <2>5. Len(a) < Len(b) \/ Len(b) < Len(a)
    <3> DEFINE m == Len(a)
               n == Len(b)
    <3>1. m \in Nat /\ n \in Nat /\ m # n
      BY <1>1, <2>2
    <3> HIDE DEF m, n
    <3>2. m < n \/ n < m
      BY <3>1
    <3> QED
      BY <3>2 DEF m, n
  <2> QED
    BY <2>3, <2>4, <2>5
<1>3. CASE D # {}
  <2>1. D \subseteq Nat
    BY <1>1
  <2>2. PICK i \in D : \A j \in D : <<j, i>> \notin OpToRel(<, Nat)
    <3> HIDE DEF D
    <3> QED
      BY <1>3, <2>1, NatLessThanWellFounded, WFMin
  <2>3. i \in Nat /\ i \in 1..Len(a) /\ i \in 1..Len(b) /\ a[i] # b[i]
    BY <1>1, <2>1
  <2>4. \A j \in D : ~(j < i)
    <3> HIDE DEF D
    <3> QED
      BY <2>1, <2>2, <2>3 DEF OpToRel
  <2>5. \A j \in 1..(i - 1) : j \in DOMAIN a /\ j \in DOMAIN b /\ j < i
    BY <1>1, <2>3
  <2>6. \A j \in 1..(i - 1) : a[j] = b[j]
    BY <2>4, <2>5
  <2>7. a[i] < b[i] \/ b[i] < a[i]
    BY <1>1, <2>3
  <2> QED
    BY <1>1, <2>3, <2>6, <2>7 DEF Before
<1> QED
  BY <1>2, <1>3

LEMMA BeforeIrreflexive ==
    ASSUME NEW a \in Paths
    PROVE  ~Before(a, a)
  BY PathFacts DEF Before

LEMMA BeforeTransitive ==
    ASSUME NEW a \in Paths, NEW b \in Paths, NEW c \in Paths, Before(a, b), Before(b, c)
    PROVE  Before(a, c)
<1>1. /\ Len(a) \in Nat /\ DOMAIN a = 1..Len(a) /\ \A i \in 1..Len(a) : a[i] \in Nat
      /\ Len(b) \in Nat /\ DOMAIN b = 1..Len(b) /\ \A i \in 1..Len(b) : b[i] \in Nat
      /\ Len(c) \in Nat /\ DOMAIN c = 1..Len(c) /\ \A i \in 1..Len(c) : c[i] \in Nat
  BY PathFacts
<1>2. \/ Len(a) < Len(b) /\ \A i \in 1..Len(a) : b[i] = a[i]
      \/ \E i \in 1..Len(a) : i \in 1..Len(b) /\ a[i] < b[i] /\ \A j \in 1..(i - 1) : a[j] = b[j]
  BY <1>1 DEF Before, Under
<1>3. \/ Len(b) < Len(c) /\ \A i \in 1..Len(b) : c[i] = b[i]
      \/ \E i \in 1..Len(b) : i \in 1..Len(c) /\ b[i] < c[i] /\ \A j \in 1..(i - 1) : b[j] = c[j]
  BY <1>1 DEF Before, Under
<1>4. CASE Len(a) < Len(b) /\ \A i \in 1..Len(a) : b[i] = a[i]
  <2>1. CASE Len(b) < Len(c) /\ \A i \in 1..Len(b) : c[i] = b[i]
    <3>1. Len(a) < Len(c) /\ \A i \in 1..Len(a) : i \in 1..Len(b) /\ c[i] = a[i]
      BY <1>1, <1>4, <2>1
    <3>2. Len(a) <= Len(c)
      BY <1>1, <3>1
    <3> QED
      BY <1>1, <3>1, <3>2 DEF Before, Under
  <2>2. ASSUME NEW i \in 1..Len(b), i \in 1..Len(c), b[i] < c[i], \A j \in 1..(i - 1) : b[j] = c[j]
        PROVE  Before(a, c)
    <3>1. CASE i <= Len(a)
      <4>1. i \in 1..Len(a) /\ a[i] < c[i] /\ \A j \in 1..(i - 1) : j \in 1..Len(a)
        BY <1>1, <1>4, <2>2, <3>1
      <4>2. \A j \in 1..(i - 1) : a[j] = c[j]
        BY <1>4, <2>2, <4>1
      <4> QED
        BY <1>1, <2>2, <4>1, <4>2 DEF Before
    <3>2. CASE ~(i <= Len(a))
      <4>1. Len(a) < Len(c) /\ Len(a) <= Len(c) /\ \A j \in 1..Len(a) : j \in 1..(i - 1)
        BY <1>1, <2>2, <3>2
      <4>2. \A j \in 1..Len(a) : c[j] = a[j]
        BY <1>4, <2>2, <4>1
      <4> QED
        BY <1>1, <4>1, <4>2 DEF Before, Under
    <3> QED
      BY <3>1, <3>2
  <2> QED
    BY <1>3, <2>1, <2>2
<1>5. ASSUME NEW i \in 1..Len(a), i \in 1..Len(b), a[i] < b[i], \A j \in 1..(i - 1) : a[j] = b[j]
      PROVE  Before(a, c)
  <2>1. CASE Len(b) < Len(c) /\ \A j \in 1..Len(b) : c[j] = b[j]
    <3>1. i \in 1..Len(c) /\ a[i] < c[i] /\ \A j \in 1..(i - 1) : j \in 1..Len(b)
      BY <1>1, <1>5, <2>1
    <3>2. \A j \in 1..(i - 1) : a[j] = c[j]
      BY <1>5, <2>1, <3>1
    <3> QED
      BY <1>1, <3>1, <3>2 DEF Before
  <2>2. ASSUME NEW k \in 1..Len(b), k \in 1..Len(c), b[k] < c[k], \A j \in 1..(k - 1) : b[j] = c[j]
        PROVE  Before(a, c)
    <3>1. CASE i < k
      <4>1. i \in 1..(k - 1) /\ i \in 1..Len(c) /\ \A j \in 1..(i - 1) : j \in 1..(k - 1)
        BY <1>1, <1>5, <2>2, <3>1
      <4>2. a[i] < c[i] /\ \A j \in 1..(i - 1) : a[j] = c[j]
        BY <1>5, <2>2, <4>1
      <4> QED
        BY <1>1, <4>1, <4>2 DEF Before
    <3>2. CASE i = k
      <4>1. a[i] < c[i]
        BY <1>1, <1>5, <2>2, <3>2
      <4>2. \A j \in 1..(i - 1) : a[j] = c[j]
        BY <1>5, <2>2, <3>2
      <4> QED
        BY <1>1, <2>2, <3>2, <4>1, <4>2 DEF Before
    <3>3. CASE k < i
      <4>1. k \in 1..(i - 1) /\ k \in 1..Len(a) /\ \A j \in 1..(k - 1) : j \in 1..(i - 1)
        BY <1>1, <1>5, <2>2, <3>3
      <4>2. a[k] < c[k] /\ \A j \in 1..(k - 1) : a[j] = c[j]
        BY <1>5, <2>2, <4>1
      <4> QED
        BY <1>1, <2>2, <4>1, <4>2 DEF Before
    <3> QED
      BY <1>1, <3>1, <3>2, <3>3
  <2> QED
    BY <1>3, <2>1, <2>2
<1> QED
  BY <1>2, <1>4, <1>5

(* Sorting directories.                                                    *)
LEMMA SortedPaths ==
    ASSUME NEW S \in SUBSET Paths, IsFiniteSet(S)
    PROVE  IsSeq(Sorted(S, Before)) /\ ToSet(Sorted(S, Before)) = S
<1> DEFINE R == {x \in S \X S : Before(x[1], x[2])}
<1>1. \A x, y \in S : <<x, y>> \in R <=> Before(x, y)
  OBVIOUS
<1> HIDE DEF R
<1>2. Orders(R, S)
  BY <1>1, Parting, BeforeIrreflexive, BeforeTransitive DEF Orders
<1>3. \A x \in S : {y \in S : Before(y, x)} = BeforeIn(S, R, x)
  BY <1>1 DEF BeforeIn
<1> DEFINE t == Sorted(S, Before)
<1>4. /\ DOMAIN t = 1..Cardinality(S) /\ t = [k \in DOMAIN t |-> t[k]]
      /\ \A k \in 1..Cardinality(S) : t[k] = CHOOSE x \in S : Cardinality({y \in S : Before(y, x)}) = k - 1
  BY DEF Sorted
<1>5. \A k \in 1..Cardinality(S) : \E x \in S : Cardinality({y \in S : Before(y, x)}) = k - 1
  <2> TAKE k \in 1..Cardinality(S)
  <2>1. PICK x \in S : Cardinality(BeforeIn(S, R, x)) = k - 1
    BY <1>2, Ranks
  <2> QED
    BY <1>3, <2>1
<1> HIDE DEF t
<1>6. \A k \in 1..Cardinality(S) : t[k] \in S /\ Cardinality({y \in S : Before(y, t[k])}) = k - 1
  BY <1>4, <1>5
<1>7. IsRanked(t, S, R)
  BY <1>3, <1>4, <1>6 DEF IsRanked
<1>8. IsSeq(t) /\ ToSet(t) = S
  BY <1>2, <1>7, RankedFacts
<1> QED
  BY <1>8 DEF t

LEMMA ResolvedFacts ==
    ASSUME NEW opts, OptionsOK(opts)
    PROVE  IsSeq(ResolveArgs(opts)) /\ \A a \in ToSet(ResolveArgs(opts)) : a.path \in Paths
<1> DEFINE whole == [path |-> <<>>, sel |-> <<>>, part |-> NoId]
<1>1. IsSeq(<<whole>>) /\ ToSet(<<whole>>) = {whole}
  BY OneFacts
<1>2. whole.path \in Paths
  BY EmptySeq DEF Paths
<1> HIDE DEF whole
<1>3. IsSeq(GivenArgs(opts)) /\ \A a \in ToSet(GivenArgs(opts)) : a.path \in Paths
  BY DEF OptionsOK, GivenArgs, Paths
<1>4. ResolveArgs(opts) = GivenArgs(opts) \/ ResolveArgs(opts) = <<whole>>
  BY DEF ResolveArgs, whole
<1> QED
  BY <1>1, <1>2, <1>3, <1>4

LEMMA ElementsAt ==
    ASSUME NEW s, IsSeq(s), NEW order, IsSeq(order), ToSet(order) \subseteq DOMAIN s,
           NEW t, t = [i \in DOMAIN order |-> s[order[i]]]
    PROVE  IsSeq(t) /\ Len(t) = Len(order) /\ ToSet(t) \subseteq ToSet(s)
<1>1. DOMAIN t = DOMAIN order /\ t = [i \in DOMAIN t |-> t[i]]
  OBVIOUS
<1>2. IsSeq(t) /\ Len(t) = Len(order)
  BY <1>1, MapFacts
<1>3. \A i \in DOMAIN order : order[i] \in DOMAIN s /\ t[i] = s[order[i]]
  BY DEF ToSet
<1>4. ToSet(t) \subseteq ToSet(s)
  BY <1>1, <1>3 DEF ToSet
<1> QED
  BY <1>2, <1>4

LEMMA SurvivorsFacts ==
    ASSUME NEW args, IsSeq(args)
    PROVE  IsSeq(Survivors(args)) /\ ToSet(Survivors(args)) \subseteq ToSet(args)
<1>1. PICK S : Survivors(args) = [i \in DOMAIN Kept(Indices(args), S) |-> args[Kept(Indices(args), S)[i]]]
  BY DEF Survivors
<1> DEFINE order == Kept(Indices(args), S)
<1>2. IsSeq(order) /\ ToSet(order) \subseteq DOMAIN args
  BY IndicesFacts, KeptFacts
<1> HIDE DEF order
<1>3. Survivors(args) = [i \in DOMAIN order |-> args[order[i]]]
  BY <1>1 DEF order
<1> QED
  BY <1>2, <1>3, ElementsAt

LEMMA FilesOfFacts ==
    ASSUME NEW p, ProjectOK(p), NEW opts, NEW args, IsSeq(args), \A a \in ToSet(args) : Exists(p, a.path)
    PROVE  IsSeq(FilesOf(p, opts, args)) /\ ToSet(FilesOf(p, opts, args)) \subseteq ToSet(p.files)
<1> DEFINE ss == [i \in DOMAIN args |-> IF IsDir(p, args[i].path) THEN CollectDir(p, opts, args[i].path)
                                        ELSE <<FileAt(p, args[i].path)>>]
<1>1. IsSeq(p.files)
  BY DEF ProjectOK
<1>2. ASSUME NEW dir PROVE IsSeq(CollectDir(p, opts, dir)) /\ ToSet(CollectDir(p, opts, dir)) \subseteq ToSet(p.files)
  <2>1. PICK S : CollectDir(p, opts, dir) = Kept(p.files, S)
    BY DEF CollectDir, Where
  <2> QED
    BY <1>1, <2>1, KeptFacts
<1>3. ASSUME NEW i \in DOMAIN args PROVE IsSeq(ss[i]) /\ ToSet(ss[i]) \subseteq ToSet(p.files)
  <2>1. CASE IsDir(p, args[i].path)
    BY <1>2, <2>1
  <2>2. CASE ~IsDir(p, args[i].path)
    <3>1. Exists(p, args[i].path)
      BY DEF ToSet
    <3>2. \E f \in ToSet(p.files) : f.path = args[i].path
      BY <2>2, <3>1 DEF Exists, IsDir
    <3>3. FileAt(p, args[i].path) \in ToSet(p.files)
      BY <3>2 DEF FileAt
    <3>4. ss[i] = <<FileAt(p, args[i].path)>>
      BY <2>2
    <3> HIDE DEF ss
    <3> QED
      BY <3>3, <3>4, OneFacts
  <2> QED
    BY <2>1, <2>2
<1>4. DOMAIN ss = DOMAIN args /\ ss = [i \in DOMAIN ss |-> ss[i]]
  OBVIOUS
<1>5. FilesOf(p, opts, args) = FlattenSeq(ss)
  BY DEF FilesOf
<1> HIDE DEF ss
<1> QED
  BY <1>3, <1>4, <1>5, FlattenMap

LEMMA FoundFacts ==
    ASSUME NEW p, NEW opts, NEW args, IsSeq(args)
    PROVE  /\ IsSeq(Found(p, opts, args)) /\ ToSet(Found(p, opts, args)) \subseteq ToSet(args)
           /\ \A a \in ToSet(Found(p, opts, args)) : Exists(p, a.path)
<1> DEFINE S == {a \in ToSet(args) : Exists(p, a.path) /\ ~Ignored(opts, a.path)}
<1>1. Found(p, opts, args) = Kept(args, S)
  BY DEF Found, Where
<1>2. IsSeq(Kept(args, S)) /\ ToSet(Kept(args, S)) = ToSet(args) \cap S
  BY KeptFacts
<1> QED
  BY <1>1, <1>2

LEMMA TestFilesFacts ==
    ASSUME NEW p, ProjectOK(p), NEW opts, NEW args, IsSeq(args)
    PROVE  /\ IsSeq(CollectTestFiles(p, opts, args))
           /\ ToSet(CollectTestFiles(p, opts, args)) \subseteq ToSet(p.files)
<1> DEFINE found == Found(p, opts, args)
<1>1. IsSeq(found) /\ \A a \in ToSet(found) : Exists(p, a.path)
  BY FoundFacts
<1> HIDE DEF found
<1>2. IsSeq(Survivors(found)) /\ \A a \in ToSet(Survivors(found)) : Exists(p, a.path)
  BY <1>1, SurvivorsFacts
<1> DEFINE all == FilesOf(p, opts, found)
           some == FilesOf(p, opts, Survivors(found))
<1>3. IsSeq(all) /\ ToSet(all) \subseteq ToSet(p.files)
  BY <1>1, FilesOfFacts
<1>4. IsSeq(some) /\ ToSet(some) \subseteq ToSet(p.files)
  BY <1>2, FilesOfFacts
<1>5. CollectTestFiles(p, opts, args) = IF opts.keepdup THEN all ELSE Dedup(some)
  BY DEF CollectTestFiles, found
<1> HIDE DEF all, some
<1> QED
  BY <1>3, <1>4, <1>5, DedupFacts

---------------------------------------------------------------------------
(* Reports.                                                                *)

Phases == {"setup", "call", "teardown"}
Results == {"passed", "failed", "skipped", "xfailed", "xpassed"}
ReportOK(r) ==
    r \in [node : {r.node}, phase : Phases, outcome : Results, rerun : BOOLEAN, sub : BOOLEAN, time : Nat]
ReportsOK(rs) == IsSeq(rs) /\ \A r \in ToSet(rs) : ReportOK(r)

LEMMA NewReport ==
    ASSUME NEW node, NEW phase \in Phases, NEW outcome \in Results
    PROVE  ReportOK(Report(node, phase, outcome)) /\ ReportsOK(<<Report(node, phase, outcome)>>)
<1>1. ReportOK(Report(node, phase, outcome))
  BY DEF ReportOK, Report
<1> QED
  BY <1>1, OneFacts DEF ReportsOK

LEMMA NoReports == ReportsOK(<<>>)
  BY EmptyFacts DEF ReportsOK

LEMMA MoreReports ==
    ASSUME NEW rs, ReportsOK(rs), NEW ss, ReportsOK(ss)
    PROVE  ReportsOK(rs \o ss)
  BY ConcatFacts DEF ReportsOK

LEMMA OneMoreReport ==
    ASSUME NEW rs, ReportsOK(rs), NEW r, ReportOK(r)
    PROVE  ReportsOK(Append(rs, r))
  BY AppendFacts DEF ReportsOK

LEMMA MappedReports ==
    ASSUME NEW s, IsSeq(s), NEW rs, DOMAIN rs = DOMAIN s, rs = [i \in DOMAIN rs |-> rs[i]],
           \A i \in DOMAIN s : ReportOK(rs[i])
    PROVE  ReportsOK(rs)
  BY MapFacts DEF ReportsOK, ToSet

(* The reports and the errors of collection are about files, which have no *)
(* test's name.                                                            *)
FileReport(r) == ReportOK(r) /\ r.node.name = ""
FileReports(rs) == IsSeq(rs) /\ \A r \in ToSet(rs) : FileReport(r)
FileNodes(ns) == IsSeq(ns) /\ \A n \in ToSet(ns) : n.name = ""

LEMMA NewFileReport ==
    ASSUME NEW f, NEW outcome \in Results
    PROVE  FileReport(Report(FileNode(f), "setup", outcome)) /\ FileNode(f).name = ""
<1>1. ReportOK(Report(FileNode(f), "setup", outcome))
  BY NewReport DEF Phases
<1>2. Report(FileNode(f), "setup", outcome).node = FileNode(f)
  BY DEF Report
<1>3. FileNode(f).name = ""
  BY DEF FileNode
<1> QED
  BY <1>1, <1>2, <1>3 DEF FileReport

LEMMA NoFileReports == FileReports(<<>>)
  BY EmptyFacts DEF FileReports

LEMMA MoreFileReports ==
    ASSUME NEW rs, FileReports(rs), NEW ss, FileReports(ss)
    PROVE  FileReports(rs \o ss)
  BY ConcatFacts DEF FileReports

LEMMA OneMoreFileReport ==
    ASSUME NEW rs, FileReports(rs), NEW r, FileReport(r)
    PROVE  FileReports(Append(rs, r))
  BY AppendFacts DEF FileReports

LEMMA OneMoreFileNode ==
    ASSUME NEW ns, FileNodes(ns), NEW f
    PROVE  FileNodes(Append(ns, FileNode(f)))
<1> DEFINE e == FileNode(f)
           t == Append(ns, e)
<1>1. e.name = ""
  BY DEF FileNode
<1> HIDE DEF e
<1>2. IsSeq(t) /\ ToSet(t) = ToSet(ns) \cup {e}
  BY AppendFacts DEF FileNodes
<1> HIDE DEF t
<1>3. FileNodes(t)
  BY <1>1, <1>2 DEF FileNodes
<1> QED
  BY <1>3 DEF t, e

LEMMA FileReportsOK ==
    ASSUME NEW rs, FileReports(rs)
    PROVE  ReportsOK(rs)
  BY DEF FileReports, FileReport, ReportsOK

LEMMA IgnoresFacts ==
    ASSUME NEW p, NEW opts, NEW files, IsSeq(files)
    PROVE  /\ IsSeq(CollectIgnores(p, opts, files).files)
           /\ ToSet(CollectIgnores(p, opts, files).files) \subseteq ToSet(files)
           /\ FileReports(CollectIgnores(p, opts, files).reports)
<1>1. PICK S : WithoutIgnored(p, files) = Kept(files, S)
  BY DEF WithoutIgnored, Where
<1> DEFINE fs == Kept(files, S)
<1>2. IsSeq(fs) /\ ToSet(fs) \subseteq ToSet(files)
  BY KeptFacts
<1> HIDE DEF fs
<1>3. WithoutIgnored(p, files) = fs
  BY <1>1 DEF fs
<1>4. PICK T : HookIgnores(p, fs).files = Kept(fs, T)
  BY DEF HookIgnores, Where
<1>5. PICK U : HookIgnores(p, fs).reports = SkipReports(Kept(fs, U))
  BY DEF HookIgnores, Where
<1>6. IsSeq(Kept(fs, T)) /\ ToSet(Kept(fs, T)) \subseteq ToSet(files)
  BY <1>2, KeptFacts
<1>7. ASSUME NEW s, IsSeq(s) PROVE FileReports(SkipReports(s))
  <2>1. PICK V : SkipReports(s) = [i \in DOMAIN Kept(s, V) |-> Report(FileNode(Kept(s, V)[i]), "setup", "skipped")]
    BY DEF SkipReports, Where
  <2> DEFINE t == Kept(s, V)
             rs == SkipReports(s)
  <2>2. IsSeq(t)
    BY <1>7, KeptFacts
  <2>3. /\ DOMAIN rs = DOMAIN t /\ rs = [i \in DOMAIN rs |-> rs[i]]
        /\ \A i \in DOMAIN t : rs[i] = Report(FileNode(t[i]), "setup", "skipped")
    BY <2>1
  <2> HIDE DEF t, rs
  <2>4. \A i \in DOMAIN t : FileReport(rs[i])
    BY <2>3, NewFileReport DEF Results
  <2>5. FileReports(rs)
    BY <2>2, <2>3, <2>4, MapFacts DEF FileReports, ToSet
  <2> QED
    BY <2>5 DEF rs
<1>8. FileReports(SkipReports(Kept(fs, U)))
  BY <1>2, <1>7, KeptFacts
<1>9. CollectIgnores(p, opts, files) = IF GivenArgs(opts) # <<>> THEN [files |-> fs, reports |-> <<>>]
                                       ELSE HookIgnores(p, fs)
  BY <1>3 DEF CollectIgnores
<1> QED
  BY <1>2, <1>4, <1>5, <1>6, <1>8, <1>9, NoFileReports

---------------------------------------------------------------------------
(* The directories collection starts in, and their conftest files.         *)

DirsOK(dirs) == IsSeq(dirs) /\ ToSet(dirs) \subseteq Paths

LEMMA MoreDirs ==
    ASSUME NEW a, DirsOK(a), NEW b, DirsOK(b)
    PROVE  DirsOK(a \o b)
  BY ConcatFacts DEF DirsOK

LEMMA GivenDirsFacts ==
    ASSUME NEW p, NEW opts, OptionsOK(opts)
    PROVE  DirsOK(GivenDirs(p, opts))
<1> DEFINE given == ResolveArgs(opts)
           t == GivenDirs(p, opts)
<1>1. IsSeq(given) /\ \A a \in ToSet(given) : a.path \in Paths
  BY ResolvedFacts
<1>2. /\ DOMAIN t = DOMAIN given /\ t = [i \in DOMAIN t |-> t[i]]
      /\ \A i \in DOMAIN given : t[i] = given[i].path \/ t[i] = Front(given[i].path)
  BY DEF GivenDirs
<1> HIDE DEF given, t
<1>3. IsSeq(t)
  BY <1>1, <1>2, MapFacts
<1>4. \A i \in DOMAIN given : given[i].path \in Paths
  BY <1>1 DEF ToSet
<1>5. \A i \in DOMAIN given : t[i] \in Paths
  BY <1>2, <1>4, FrontPath
<1>6. DirsOK(t)
  BY <1>2, <1>3, <1>5 DEF DirsOK, ToSet
<1> QED
  BY <1>6 DEF t

LEMMA TestDirsFacts ==
    ASSUME NEW p, ProjectOK(p), NEW dirs, IsSeq(dirs)
    PROVE  DirsOK(TestDirs(p, dirs))
<1> DEFINE Below(dir) == {d \in DOMAIN p.dirs : Len(d) = Len(dir) + 1 /\ Under(d, dir) /\ p.dirs[d].testnamed}
           ss == [i \in DOMAIN dirs |-> Sorted(Below(dirs[i]), Before)]
<1>1. ASSUME NEW dir PROVE DirsOK(Sorted(Below(dir), Before))
  <2>1. Below(dir) \in SUBSET Paths
    BY DEF ProjectOK, Paths
  <2>2. IsFiniteSet(Below(dir))
    BY FS_Subset DEF ProjectOK
  <2> HIDE DEF Below
  <2> QED
    BY <2>1, <2>2, SortedPaths DEF DirsOK
<1>2. TestDirs(p, dirs) = FlattenSeq(ss)
  BY DEF TestDirs
<1>3. DOMAIN ss = DOMAIN dirs /\ ss = [i \in DOMAIN ss |-> ss[i]] /\ \A i \in DOMAIN dirs : DirsOK(ss[i])
  BY <1>1
<1> HIDE DEF ss
<1>4. /\ IsSeq(FlattenSeq(ss))
      /\ \A x : x \in ToSet(FlattenSeq(ss)) <=> \E i \in DOMAIN dirs : x \in ToSet(ss[i])
  BY <1>3, FlattenMap DEF DirsOK
<1> QED
  BY <1>2, <1>3, <1>4 DEF DirsOK

LEMMA ParentsFacts ==
    ASSUME NEW p, ProjectOK(p), NEW dirs, DirsOK(dirs), NEW files, IsSeq(files),
           ToSet(files) \subseteq ToSet(p.files)
    PROVE  DirsOK(WithParents(dirs, files))
<1> DEFINE S == {f \in ToSet(files) : \E d \in ToSet(dirs) : Under(f.path, d)}
           inside == Kept(files, S)
           t == [i \in DOMAIN inside |-> Front(inside[i].path)]
<1>1. WithParents(dirs, files) = dirs \o t
  BY DEF WithParents, Where
<1>2. IsSeq(inside) /\ ToSet(inside) \subseteq ToSet(p.files)
  BY KeptFacts
<1> HIDE DEF inside
<1>3. DOMAIN t = DOMAIN inside /\ t = [i \in DOMAIN t |-> t[i]]
      /\ \A i \in DOMAIN inside : t[i] = Front(inside[i].path)
  OBVIOUS
<1> HIDE DEF t
<1>4. \A i \in DOMAIN inside : inside[i].path \in Paths
  BY <1>2 DEF ToSet, ProjectOK, FileOK, Paths
<1>5. \A i \in DOMAIN inside : t[i] \in Paths
  BY <1>3, <1>4, FrontPath
<1>6. DirsOK(t)
  BY <1>2, <1>3, <1>5, MapFacts DEF DirsOK, ToSet
<1> QED
  BY <1>1, <1>6, MoreDirs

LEMMA StartDirsFacts ==
    ASSUME NEW p, ProjectOK(p), NEW opts, OptionsOK(opts)
    PROVE  DirsOK(StartDirs(p, opts))
<1> DEFINE given == GivenDirs(p, opts)
           files == CollectTestFiles(p, opts, Found(p, opts, ResolveArgs(opts)))
<1>1. DirsOK(given)
  BY GivenDirsFacts
<1>2. IsSeq(Found(p, opts, ResolveArgs(opts)))
  BY ResolvedFacts, FoundFacts
<1>3. IsSeq(files) /\ ToSet(files) \subseteq ToSet(p.files)
  BY <1>2, TestFilesFacts
<1>4. StartDirs(p, opts) = IF opts.noconftest THEN given ELSE WithParents(given \o TestDirs(p, given), files)
  BY DEF StartDirs
<1> HIDE DEF given, files
<1>5. DirsOK(given \o TestDirs(p, given))
  BY <1>1, TestDirsFacts, MoreDirs DEF DirsOK
<1> QED
  BY <1>1, <1>3, <1>4, <1>5, ParentsFacts

LEMMA ChainFacts ==
    ASSUME NEW p, NEW opts, NEW dir \in Paths
    PROVE  IsSeq(Chain(p, opts, dir)) /\ ToSet(Chain(p, opts, dir)) \subseteq DOMAIN p.conftests
<1> DEFINE s == [k \in 1..(Len(dir) + 1) |-> SubSeq(dir, 1, k - 1)]
           InCut(d) == \A cut \in ToSet(opts.confcutdir) : d = cut \/ ~Under(cut, d)
           S == {d \in ToSet(s) : d \in DOMAIN p.conftests /\ InCut(d)}
<1>1. Len(dir) + 1 \in Nat
  BY PathFacts
<1>2. DOMAIN s = 1..(Len(dir) + 1) /\ s = [i \in DOMAIN s |-> s[i]]
  OBVIOUS
<1>3. Chain(p, opts, dir) = Kept(s, S)
  BY DEF Chain, Where
<1> HIDE DEF s
<1>4. IsSeq(s)
  BY <1>1, <1>2, SeqIntro
<1>5. IsSeq(Kept(s, S)) /\ ToSet(Kept(s, S)) = ToSet(s) \cap S
  BY <1>4, KeptFacts
<1> QED
  BY <1>3, <1>5

LEMMA ConftestsFacts ==
    ASSUME NEW p, ProjectOK(p), NEW opts, OptionsOK(opts)
    PROVE  IsSeq(DiscoverConftests(p, opts)) /\ ToSet(DiscoverConftests(p, opts)) \subseteq DOMAIN p.conftests
<1> DEFINE dirs == StartDirs(p, opts)
           ss == [i \in DOMAIN dirs |-> Chain(p, opts, dirs[i])]
<1>1. DirsOK(dirs)
  BY StartDirsFacts
<1>2. DiscoverConftests(p, opts) = IF opts.noconftest THEN <<>> ELSE Dedup(FlattenSeq(ss))
  BY DEF DiscoverConftests
<1> HIDE DEF dirs
<1>3. \A i \in DOMAIN dirs : dirs[i] \in Paths
  BY <1>1 DEF DirsOK, ToSet
<1>4. /\ DOMAIN ss = DOMAIN dirs /\ ss = [i \in DOMAIN ss |-> ss[i]]
      /\ \A i \in DOMAIN dirs : IsSeq(ss[i]) /\ ToSet(ss[i]) \subseteq DOMAIN p.conftests
  BY <1>3, ChainFacts
<1> HIDE DEF ss
<1>5. /\ IsSeq(FlattenSeq(ss))
      /\ \A x : x \in ToSet(FlattenSeq(ss)) <=> \E i \in DOMAIN dirs : x \in ToSet(ss[i])
  BY <1>1, <1>4, FlattenMap DEF DirsOK
<1>6. IsSeq(Dedup(FlattenSeq(ss))) /\ ToSet(Dedup(FlattenSeq(ss))) \subseteq DOMAIN p.conftests
  BY <1>4, <1>5, DedupFacts
<1> QED
  BY <1>2, <1>6, EmptyFacts

LEMMA NestedFacts ==
    ASSUME NEW p, ProjectOK(p), NEW opts, OptionsOK(opts), NEW found
    PROVE  FileNodes(NestedPlugins(p, opts, found))
<1> DEFINE exempt == IF GivenArgs(opts) = <<>> THEN {} ELSE ToSet(found)
           Nested(dir) == {d \in DOMAIN p.conftests \ ({<<>>} \cup exempt) :
                              Under(d, dir) /\ p.conftests[d].declares}
           At0(ds) == [i \in DOMAIN ds |-> FileNode(p.conftests[ds[i]])]
           dirs == StartDirs(p, opts)
           ss == [i \in DOMAIN dirs |-> At0(Sorted(Nested(dirs[i]), Before))]
<1>1. IsSeq(dirs)
  BY StartDirsFacts DEF DirsOK
<1>2. ASSUME NEW dir PROVE FileNodes(At0(Sorted(Nested(dir), Before)))
  <2>1. Nested(dir) \in SUBSET Paths
    BY DEF ProjectOK, Paths
  <2>2. IsFiniteSet(Nested(dir))
    BY FS_Subset DEF ProjectOK
  <2> DEFINE s == Sorted(Nested(dir), Before)
  <2>3. IsSeq(s)
    <3> HIDE DEF Nested
    <3> QED
      BY <2>1, <2>2, SortedPaths
  <2> HIDE DEF s
  <2> DEFINE t == At0(s)
  <2>4. DOMAIN t = DOMAIN s /\ t = [i \in DOMAIN t |-> t[i]] /\ \A i \in DOMAIN t : t[i].name = ""
    BY DEF FileNode
  <2> HIDE DEF t
  <2>5. FileNodes(t)
    BY <2>3, <2>4, MapFacts DEF FileNodes, ToSet
  <2> QED
    BY <2>5 DEF t, s
<1>3. NestedPlugins(p, opts, found) = FlattenSeq(ss)
  BY DEF NestedPlugins
<1> HIDE DEF dirs, Nested, At0
<1>4. DOMAIN ss = DOMAIN dirs /\ ss = [i \in DOMAIN ss |-> ss[i]] /\ \A i \in DOMAIN dirs : FileNodes(ss[i])
  BY <1>2
<1> HIDE DEF ss
<1>5. /\ IsSeq(FlattenSeq(ss))
      /\ \A x : x \in ToSet(FlattenSeq(ss)) <=> \E i \in DOMAIN dirs : x \in ToSet(ss[i])
  BY <1>1, <1>4, FlattenMap DEF FileNodes
<1> QED
  BY <1>3, <1>4, <1>5 DEF FileNodes

PrepState(st) ==
    /\ DOMAIN st = {"defs", "hooked", "conftestIgnores", "broken", "errors"}
    /\ HookedOnce(st) /\ FileNodes(st.errors)

LEMMA ConftestPrepares ==
    ASSUME NEW p, ProjectOK(p), NEW opts, NEW st, PrepState(st), NEW d \in DOMAIN p.conftests
    PROVE  PrepState(LoadConftest(p, opts, st, d))
<1> DEFINE c == p.conftests[d]
           t == LoadNamed(p, st, c.plugins)
           u == Conftest(p, st, c)
           v == [st EXCEPT !.broken = opts.mode # "help"]
<1>1. IsSeq(c.plugins)
  BY DEF ProjectOK
<1>2. Loads(st, t)
  BY <1>1, LoadNamedLoads DEF Loadable, PrepState
<1>3. PrepState(t)
  BY <1>2 DEF Loads, PrepState
<1>4. u = [t EXCEPT !.defs = @ \o c.fixtures, !.conftestIgnores = @ \cup c.ignores]
  BY DEF Conftest
<1> HIDE DEF t, u
<1>5. PrepState(u)
  BY <1>3, <1>4 DEF PrepState, HookedOnce
<1>6. PrepState(v)
  BY DEF PrepState, HookedOnce
<1>7. LoadConftest(p, opts, st, d) \in {st, u, v}
  BY DEF LoadConftest, u
<1> QED
  BY <1>5, <1>6, <1>7

\* c = <<p, o, dirs>>
PrepStep(c, st, d) == LoadConftest(c[1], c[2], st, d)
PrepHolds(c, i, st) == PrepState(st)
Preparing == INSTANCE Folding WITH Step <- PrepStep, Holds <- PrepHolds

PrepStart(p, opts, st, found) ==
    [defs |-> st.defs \o p.defs, hooked |-> st.hooked, conftestIgnores |-> {},
     broken |-> FALSE, errors |-> NestedPlugins(p, opts, found)]

LEMMA PreparedFold ==
    ASSUME NEW p, NEW opts, NEW st, NEW found, NEW c, c[1] = p, c[2] = opts
    PROVE  Prepared(p, opts, st, found) = Preparing!Fold(c, PrepStart(p, opts, st, found), found)
  BY DEF Prepared, PrepStart, Preparing!Fold, PrepStep, FoldLeft, MapThenFoldSet, Max, Preparing!Greatest

LEMMA PreparedFacts ==
    ASSUME NEW p, ProjectOK(p), NEW opts, OptionsOK(opts), NEW st, HookedOnce(st),
           NEW found, IsSeq(found), ToSet(found) \subseteq DOMAIN p.conftests
    PROVE  PrepState(Prepared(p, opts, st, found))
<1> DEFINE c == <<p, opts>>
           st0 == PrepStart(p, opts, st, found)
<1>1. c[1] = p /\ c[2] = opts
  OBVIOUS
<1> HIDE DEF c
<1>2. PrepState(st0)
  <2>1. FileNodes(NestedPlugins(p, opts, found))
    BY NestedFacts
  <2> QED
    BY <2>1 DEF PrepState, PrepStart, HookedOnce
<1> HIDE DEF st0
<1>3. Len(found) \in Nat /\ DOMAIN found = 1..Len(found)
  BY SeqFacts
<1>4. \A i \in 1..Len(found) : found[i] \in DOMAIN p.conftests
  BY <1>3 DEF ToSet
<1>5. \A i \in 1..Len(found) : \A s : PrepHolds(c, i - 1, s) => PrepHolds(c, i, PrepStep(c, s, found[i]))
  BY <1>1, <1>4, ConftestPrepares DEF PrepHolds, PrepStep
<1>6. PrepHolds(c, 0, st0)
  BY <1>2 DEF PrepHolds
<1>7. PrepHolds(c, Len(found), Preparing!Fold(c, st0, found))
  BY <1>3, <1>5, <1>6, NaturalInduction, Preparing!FoldHolds DEF Preparing!Induction
<1> QED
  BY <1>1, <1>7, PreparedFold DEF PrepHolds, st0

(* The project that collection starts with.                                *)
PreparedOK(p) == ProjectOK(p) /\ HookedOnce(p) /\ FileNodes(p.errors)

LEMMA PrepareFacts ==
    ASSUME NEW p, ProjectOK(p), NEW opts, OptionsOK(opts)
    PROVE  /\ PreparedOK(Prepare(p, opts))
           /\ Prepare(p, opts).files = p.files
<1> DEFINE st == LoadCmdline(p, opts)
           found == DiscoverConftests(p, opts)
           r == Prepared(p, opts, st, found)
           q == Prepare(p, opts)
<1>1. HookedOnce(st)
  BY CmdlineLoaded DEF ProjectOK, OptionsOK, CmdState
<1>2. IsSeq(found) /\ ToSet(found) \subseteq DOMAIN p.conftests
  BY ConftestsFacts
<1>3. PrepState(r)
  <2> HIDE DEF st, found
  <2> QED
    BY <1>1, <1>2, PreparedFacts
<1>4. q = Merge(r, p)
  BY DEF Prepare
<1> HIDE DEF r, q
<1>5. q = [x \in DOMAIN r \cup DOMAIN p |-> IF x \in DOMAIN r THEN r[x] ELSE p[x]]
  BY <1>4 DEF Merge
<1>6. DOMAIN q = DOMAIN r \cup DOMAIN p /\ q.hooked = r.hooked /\ q.errors = r.errors
  BY <1>3, <1>5 DEF PrepState
<1>7. \A x \in {"files", "dirs", "conftests", "modules", "entrypoints", "fileHook"} : q[x] = p[x]
  BY <1>3, <1>5 DEF PrepState, ProjectOK
<1>8. /\ q.files = p.files /\ q.dirs = p.dirs /\ q.conftests = p.conftests /\ q.modules = p.modules
      /\ q.entrypoints = p.entrypoints /\ q.fileHook = p.fileHook
  BY <1>7
<1>9. ProjectOK(q)
  BY <1>6, <1>8 DEF ProjectOK
<1>10. HookedOnce(q) /\ FileNodes(q.errors)
  BY <1>3, <1>6 DEF PrepState, HookedOnce
<1> QED
  BY <1>8, <1>9, <1>10 DEF PreparedOK, q

---------------------------------------------------------------------------
(* The collection of a module.                                             *)

LEMMA MethodsFacts ==
    ASSUME NEW bases, IsSeq(bases), \A b \in ToSet(bases) : IsSeq(b)
    PROVE  IsSeq(MethodsOf(bases))
<1> DEFINE Hides(i, f) == \E j \in 1..(i - 1) : \E g \in ToSet(bases[j]) : g.name = f.name
           own == [i \in DOMAIN bases |-> Where(bases[i], LAMBDA f : ~Hides(i, f))]
           ss == Reverse(own)
<1>1. MethodsOf(bases) = FlattenSeq(ss)
  BY DEF MethodsOf
<1>2. DOMAIN own = DOMAIN bases /\ own = [i \in DOMAIN own |-> own[i]]
  OBVIOUS
<1>3. ASSUME NEW i \in DOMAIN bases PROVE IsSeq(own[i])
  <2>1. IsSeq(bases[i])
    BY DEF ToSet
  <2>2. \E S : own[i] = Kept(bases[i], S)
    BY DEF Where
  <2> HIDE DEF own
  <2> QED
    BY <2>1, <2>2, KeptFacts
<1> HIDE DEF own
<1>4. IsSeq(own) /\ \A b \in ToSet(own) : IsSeq(b)
  BY <1>2, <1>3, MapFacts DEF ToSet
<1>5. IsSeq(ss) /\ ToSet(ss) = ToSet(own)
  BY <1>4, ReverseFacts
<1> HIDE DEF ss
<1>6. \A i \in 1..Len(ss) : IsSeq(ss[i])
  BY <1>4, <1>5, SeqFacts
<1> QED
  BY <1>1, <1>5, <1>6, FlattenFacts

LEMMA ClassFacts ==
    ASSUME NEW c, IsSeq(c.bases), \A b \in ToSet(c.bases) : IsSeq(b), NEW mod
    PROVE  IsSeq(CollectClass(c, mod)) /\ IsSeq(CollectTestcase(c, mod))
<1> DEFINE fs == MethodsOf(c.bases)
<1>1. IsSeq(fs)
  BY MethodsFacts
<1>2. IsFiniteSet(DOMAIN fs)
  <2>1. Len(fs) \in Nat /\ DOMAIN fs = 1..Len(fs)
    BY <1>1, SeqFacts
  <2> QED
    BY <2>1, FS_Interval
<1> HIDE DEF fs
<1>3. IsSeq(CollectClass(c, mod))
  <2> DEFINE owner == [tags |-> c.tags \cup mod.tags, marks |-> c.marks \o mod.marks]
             t == [i \in DOMAIN fs |-> Expand(Inherit(fs[i], owner))]
  <2>1. CollectClass(c, mod) = IF c.badInit THEN <<>> ELSE <<Register(c.fixtures)>> \o t
    BY DEF CollectClass, fs
  <2>2. DOMAIN t = DOMAIN fs /\ t = [i \in DOMAIN t |-> t[i]]
    OBVIOUS
  <2> HIDE DEF t
  <2>3. IsSeq(t)
    BY <1>1, <2>2, MapFacts
  <2> QED
    BY <2>1, <2>3, EmptyFacts, OneFacts, ConcatFacts
<1>4. IsSeq(CollectTestcase(c, mod))
  <2> DEFINE owner == [tags |-> c.tags \cup mod.tags, marks |-> <<>>]
             Method(f) == [Inherit(f, owner) EXCEPT !.testcase = TRUE, !.args = <<>>]
             order == Sorted(DOMAIN fs, LAMBDA i, j : fs[i].alpha < fs[j].alpha)
             t == [i \in DOMAIN order |-> Add(Method(fs[order[i]]))]
             fixtures == c.fixtures \o (IF "skip" \in c.tags THEN <<>> ELSE c.lifecycle)
             first == <<Register(fixtures)>>
  <2>1. CollectTestcase(c, mod) = first \o t
    BY DEF CollectTestcase, fs
  <2> DEFINE ranked(k) == CHOOSE i \in DOMAIN fs :
                             Cardinality({j \in DOMAIN fs : fs[j].alpha < fs[i].alpha}) = k - 1
  <2>2. order = [k \in 1..Cardinality(DOMAIN fs) |-> ranked(k)]
    BY Zenon DEF Sorted
  <2>3. Cardinality(DOMAIN fs) \in Nat
    BY <1>2, FS_CardinalityType
  <2>4. IsSeq(first)
    BY OneFacts
  <2> HIDE DEF order, ranked, first
  <2>5. DOMAIN order = 1..Cardinality(DOMAIN fs)
    BY <2>2
  <2>6. DOMAIN t = DOMAIN order /\ t = [i \in DOMAIN t |-> t[i]]
    OBVIOUS
  <2> HIDE DEF t
  <2>7. IsSeq(t)
    BY <2>3, <2>5, <2>6, SeqIntro
  <2> QED
    BY <2>1, <2>4, <2>7, ConcatFacts
<1> QED
  BY <1>3, <1>4

LEMMA MemberFacts ==
    ASSUME NEW e, MemberOK(e), NEW opts, NEW mod
    PROVE  IsSeq(CollectMember(e, opts, mod))
<1>1. \A x : IsSeq(<<x>>)
  BY OneFacts
<1>2. IsSeq(<<>>)
  BY EmptyFacts
<1>3. e.kind \in {"class", "testcase"} => IsSeq(CollectClass(e, mod)) /\ IsSeq(CollectTestcase(e, mod))
  BY ClassFacts DEF MemberOK
<1>4. e.kind \in {"function", "generator", "class", "testcase"}
  BY DEF MemberOK
<1> QED
  BY <1>1, <1>2, <1>3, <1>4 DEF CollectMember

---------------------------------------------------------------------------
(* What a module adds to the collection.                                   *)

Collected == {"items", "defs", "hooked", "error", "errors", "reports", "status", "other", "before",
              "ordered", "notfound"}
StOK(st) ==
    /\ DOMAIN st = Collected /\ HookedOnce(st) /\ FileNodes(st.errors) /\ FileReports(st.reports)
    /\ st.before = <<>> /\ st.ordered = <<>>

(* What the tests of a module leave alone.                                 *)
Same(st, t) == DOMAIN t = DOMAIN st /\ \A x \in DOMAIN st \ {"defs", "items", "error"} : t[x] = st[x]

LEMMA StepSame ==
    ASSUME NEW st, {"defs", "items", "error"} \subseteq DOMAIN st, NEW s, NEW opts
    PROVE  Same(st, CollectStep(st, s, opts))
<1> DEFINE pushed == PushTestItems(st.defs, s.f, opts.strictIds)
           a == [st EXCEPT !.defs = @ \o s.fixtures]
           b == [st EXCEPT !.items = @ \o pushed.items, !.error = pushed.error]
           c == [st EXCEPT !.items = Append(@, PlainItem(s.f))]
           d == [st EXCEPT !.error = TRUE]
<1>1. CollectStep(st, s, opts) \in {st, a, b, c, d}
  BY DEF CollectStep, CollectFunction
<1>2. Same(st, st) /\ Same(st, a) /\ Same(st, d)
  BY DEF Same
<1>3. Same(st, c)
  <2> DEFINE x == PlainItem(s.f)
  <2> HIDE DEF x
  <2> QED
    BY DEF Same
<1>4. Same(st, b)
  <2> HIDE DEF pushed
  <2> QED
    BY DEF Same
<1> QED
  BY <1>1, <1>2, <1>3, <1>4

\* c = <<o, st>>
ModuleStep(c, s, step) == CollectStep(s, step, c[1])
ModuleHolds(c, i, s) == Same(c[2], s)
Importing == INSTANCE Folding WITH Step <- ModuleStep, Holds <- ModuleHolds

LEMMA StepsFold ==
    ASSUME NEW st, NEW steps, NEW opts, NEW c, c[1] = opts
    PROVE  CollectSteps(st, steps, opts) = Importing!Fold(c, st, steps)
  BY DEF CollectSteps, Importing!Fold, ModuleStep, FoldLeft, MapThenFoldSet, Max, Importing!Greatest

LEMMA StepsSame ==
    ASSUME NEW st, {"defs", "items", "error"} \subseteq DOMAIN st, NEW steps, IsSeq(steps), NEW opts
    PROVE  Same(st, CollectSteps(st, steps, opts))
<1> DEFINE c == <<opts, st>>
<1>1. c[1] = opts /\ c[2] = st
  OBVIOUS
<1> HIDE DEF c
<1>2. Len(steps) \in Nat /\ DOMAIN steps = 1..Len(steps)
  BY SeqFacts
<1>3. ModuleHolds(c, 0, st)
  BY <1>1 DEF ModuleHolds, Same
<1>4. ASSUME NEW i \in 1..Len(steps), NEW s, ModuleHolds(c, i - 1, s)
      PROVE  ModuleHolds(c, i, ModuleStep(c, s, steps[i]))
  <2>1. Same(st, s) /\ {"defs", "items", "error"} \subseteq DOMAIN s
    BY <1>1, <1>4 DEF ModuleHolds, Same
  <2>2. Same(s, CollectStep(s, steps[i], opts))
    BY <2>1, StepSame
  <2>3. Same(st, CollectStep(s, steps[i], opts))
    BY <2>1, <2>2 DEF Same
  <2> QED
    BY <1>1, <2>3 DEF ModuleHolds, ModuleStep
<1>5. ModuleHolds(c, Len(steps), Importing!Fold(c, st, steps))
  BY <1>2, <1>3, <1>4, NaturalInduction, Importing!FoldHolds DEF Importing!Induction
<1> QED
  BY <1>1, <1>5, StepsFold DEF ModuleHolds

ModOK(mod) == IsSeq(mod.plugins) /\ IsSeq(mod.members) /\ \A e \in ToSet(mod.members) : MemberOK(e)

LEMMA ModuleSame ==
    ASSUME NEW st, {"defs", "items", "error"} \subseteq DOMAIN st, NEW mod, ModOK(mod), NEW opts
    PROVE  Same(st, CollectModule(st, mod, opts))
<1> DEFINE ss == [i \in DOMAIN mod.members |-> CollectMember(mod.members[i], opts, mod)]
           steps == IF mod.nocollect THEN <<>> ELSE FlattenSeq(ss)
           begin == [st EXCEPT !.defs = @ \o mod.fixtures]
<1>1. CollectModule(st, mod, opts) = CollectSteps(begin, steps, opts)
  BY DEF CollectModule
<1>2. \A i \in DOMAIN mod.members : MemberOK(mod.members[i])
  BY DEF ModOK, ToSet
<1>3. DOMAIN ss = DOMAIN mod.members /\ ss = [i \in DOMAIN ss |-> ss[i]]
      /\ \A i \in DOMAIN mod.members : IsSeq(ss[i])
  BY <1>2, MemberFacts
<1> HIDE DEF ss
<1>4. IsSeq(FlattenSeq(ss))
  BY <1>3, FlattenMap DEF ModOK
<1>5. IsSeq(steps)
  BY <1>4, EmptyFacts
<1>6. Same(st, begin) /\ DOMAIN begin = DOMAIN st
  BY DEF Same
<1> HIDE DEF steps, begin
<1>7. Same(begin, CollectSteps(begin, steps, opts))
  BY <1>5, <1>6, StepsSame
<1> QED
  BY <1>1, <1>6, <1>7 DEF Same

(* Importing a module.                                                     *)
Works(st, t) ==
    /\ DOMAIN t = DOMAIN st /\ HookedOnce(t)
    /\ \A x \in DOMAIN st \ {"defs", "hooked", "items", "error"} : t[x] = st[x]

LEMMA WorksStOK ==
    ASSUME NEW st, StOK(st), NEW t, Works(st, t)
    PROVE  StOK(t) /\ t.status = st.status
<1>1. DOMAIN t = Collected /\ HookedOnce(t)
  BY DEF StOK, Works
<1>2. \A x \in {"errors", "reports", "status", "before", "ordered"} : t[x] = st[x]
  BY DEF StOK, Works, Collected
<1>3. /\ t.errors = st.errors /\ t.reports = st.reports /\ t.status = st.status
      /\ t.before = st.before /\ t.ordered = st.ordered
  BY <1>2
<1> QED
  BY <1>1, <1>3 DEF StOK

LEMMA PythonWorks ==
    ASSUME NEW p, NEW st, StOK(st), NEW mod, ModOK(mod), NEW opts
    PROVE  Works(st, CollectPython(p, st, mod, opts))
<1> DEFINE t == LoadNamed(p, st, mod.plugins)
           u == [t EXCEPT !.error = FALSE]
<1>1. Loads(st, t)
  BY LoadNamedLoads DEF ModOK, StOK, Loadable, Collected
<1>2. CollectPython(p, st, mod, opts) = CollectModule(u, mod, opts)
  BY DEF CollectPython
<1> HIDE DEF t
<1>3. DOMAIN u = DOMAIN st /\ u.hooked = t.hooked
      /\ \A x \in DOMAIN st \ {"defs", "hooked", "items", "error"} : u[x] = st[x]
  BY <1>1 DEF Loads, StOK, Collected
<1> HIDE DEF u
<1>4. {"defs", "items", "error"} \subseteq DOMAIN u
  BY <1>3 DEF StOK, Collected
<1> DEFINE v == CollectModule(u, mod, opts)
<1>5. Same(u, v)
  BY <1>4, ModuleSame
<1> HIDE DEF v
<1>6. v.hooked = u.hooked
  BY <1>3, <1>5 DEF Same, StOK, Collected
<1>7. HookedOnce(v)
  BY <1>1, <1>3, <1>6 DEF HookedOnce, Loads
<1>8. Works(st, v)
  BY <1>3, <1>5, <1>7 DEF Works, Same
<1> QED
  BY <1>2, <1>8 DEF v

(* Changing the reports, the errors, the items or the rest.                *)
LEMMA ChangedOK ==
    ASSUME NEW st, StOK(st)
    PROVE  /\ \A x : StOK([st EXCEPT !.items = x]) /\ StOK([st EXCEPT !.error = x])
                     /\ StOK([st EXCEPT !.status = x]) /\ StOK([st EXCEPT !.other = x])
           /\ \A rs : FileReports(rs) => StOK([st EXCEPT !.reports = rs])
           /\ \A es : FileNodes(es) => StOK([st EXCEPT !.errors = es])
  BY DEF StOK, Collected, HookedOnce

LEMMA FailFileOK ==
    ASSUME NEW st, StOK(st), NEW f, NEW rs, FileReports(rs)
    PROVE  StOK(FailFile(st, f, rs))
<1> DEFINE es == Append(st.errors, FileNode(f))
           all == st.reports \o rs
           t == [st EXCEPT !.errors = es]
           u == [t EXCEPT !.reports = all]
<1>1. FileNodes(es) /\ FileReports(all)
  BY OneMoreFileNode, MoreFileReports DEF StOK
<1>2. FailFile(st, f, rs) = u
  BY DEF FailFile, StOK, Collected
<1> HIDE DEF es, all
<1>3. StOK(t)
  BY <1>1, ChangedOK
<1> HIDE DEF t
<1>4. StOK(u)
  BY <1>1, <1>3, ChangedOK
<1> QED
  BY <1>2, <1>4

LEMMA SkipReportOK ==
    ASSUME NEW f
    PROVE  FileReport(SkipReport(f)) /\ FileReports(<<SkipReport(f)>>)
<1> DEFINE r == SkipReport(f)
<1>1. FileReport(r)
  BY NewFileReport DEF SkipReport, Results
<1> HIDE DEF r
<1>2. FileReports(<<r>>)
  BY <1>1, OneFacts DEF FileReports
<1> QED
  BY <1>1, <1>2 DEF r

LEMMA FailedImportOK ==
    ASSUME NEW st, StOK(st), NEW f, NEW opts
    PROVE  StOK(FailedImport(st, f, opts))
<1> DEFINE rs == IF opts.doctests /\ opts.doctestIgnoreErrors THEN <<SkipReport(f)>> ELSE <<>>
           t == FailFile(st, f, rs)
<1>1. FileReports(rs)
  BY SkipReportOK, NoFileReports
<1> HIDE DEF rs
<1>2. StOK(t)
  BY <1>1, FailFileOK
<1>3. FailedImport(st, f, opts) = [t EXCEPT !.error = FALSE]
  BY DEF FailedImport, rs
<1> HIDE DEF t
<1> DEFINE u == [t EXCEPT !.error = FALSE]
<1>4. StOK(u)
  BY <1>2, ChangedOK
<1>5. FailedImport(st, f, opts) = u
  BY <1>3
<1> HIDE DEF u
<1> QED
  BY <1>4, <1>5

LEMMA ImportFileOK ==
    ASSUME NEW p, NEW st, StOK(st), NEW f, ModOK(f.mod), NEW opts
    PROVE  StOK(ImportFile(p, st, f, opts))
<1> DEFINE t == CollectPython(p, st, f.mod, opts)
           n == Len(st.items)
           items0 == SubSeq(t.items, 1, n) \o Doctests(f) \o SubSeq(t.items, n + 1, Len(t.items))
           u == [t EXCEPT !.items = items0]
           rs == Append(st.reports, SkipReport(f))
<1>1. StOK(t)
  BY PythonWorks, WorksStOK
<1>2. StOK(FailedImport(st, f, opts)) /\ StOK(FailedImport(t, f, opts))
  BY <1>1, FailedImportOK
<1>3. AfterImport(t, n, f, opts) \in {FailedImport(t, f, opts), t, u}
  BY DEF AfterImport
<1>4. FileReports(rs)
  BY SkipReportOK, OneMoreFileReport DEF StOK
<1>5. ImportFile(p, st, f, opts) \in {[st EXCEPT !.status = "interrupt"], [st EXCEPT !.status = "internal"],
          [st EXCEPT !.reports = rs], FailedImport(st, f, opts), AfterImport(t, n, f, opts)}
  BY DEF ImportFile
<1> HIDE DEF t, items0, rs
<1>6. StOK(u)
  BY <1>1, ChangedOK
<1> HIDE DEF u
<1>7. StOK(AfterImport(t, n, f, opts))
  BY <1>1, <1>2, <1>3, <1>6
<1>8. StOK([st EXCEPT !.status = "interrupt"]) /\ StOK([st EXCEPT !.status = "internal"])
      /\ StOK([st EXCEPT !.reports = rs])
  BY <1>4, ChangedOK
<1> HIDE DEF n
<1> QED
  BY <1>2, <1>5, <1>7, <1>8

LEMMA CollectFileOK ==
    ASSUME NEW p, NEW st, StOK(st), NEW f, FileOK(f), NEW opts
    PROVE  StOK(CollectFile(p, st, f, opts))
<1> DEFINE more == st.items \o Doctests(f)
           others == Append(st.other, f)
           a == [st EXCEPT !.items = more]
           b == [st EXCEPT !.other = others]
           i == ImportFile(p, st, f, opts)
<1>1. CollectFile(p, st, f, opts) \in {st, a, b, i}
  BY DEF CollectFile
<1>2. StOK(i)
  <2>1. ModOK(f.mod)
    BY DEF FileOK, ModOK
  <2> QED
    BY <2>1, ImportFileOK
<1> HIDE DEF i, more, others
<1>3. StOK(a) /\ StOK(b)
  BY ChangedOK
<1> HIDE DEF a, b
<1> QED
  BY <1>1, <1>2, <1>3

\* c = <<p, o, files>>
FileStep(c, st, f) == CollectFile(c[1], st, f, c[2])
DoctestStep(c, st, f) == ExtraDoctests(c[1], st, f, c[2])
CustomStep(c, st, f) == CustomFile(c[1], st, f, c[3], c[2])
FileHolds(c, i, st) == StOK(st)
Filing == INSTANCE Folding WITH Step <- FileStep, Holds <- FileHolds
Doctesting == INSTANCE Folding WITH Step <- DoctestStep, Holds <- FileHolds
Customizing == INSTANCE Folding WITH Step <- CustomStep, Holds <- FileHolds

DoctestFiles(p, st, fs, opts) == FoldLeft(LAMBDA s, f : ExtraDoctests(p, s, f, opts), st, fs)

LEMMA CollectFilesFold ==
    ASSUME NEW p, NEW st, NEW fs, NEW opts, NEW c, c[1] = p, c[2] = opts
    PROVE  CollectFiles(p, st, fs, opts) = Filing!Fold(c, st, fs)
  BY DEF CollectFiles, Filing!Fold, FileStep, FoldLeft, MapThenFoldSet, Max, Filing!Greatest

LEMMA DoctestFilesFold ==
    ASSUME NEW p, NEW st, NEW fs, NEW opts, NEW c, c[1] = p, c[2] = opts
    PROVE  DoctestFiles(p, st, fs, opts) = Doctesting!Fold(c, st, fs)
  BY DEF DoctestFiles, Doctesting!Fold, DoctestStep, FoldLeft, MapThenFoldSet, Max, Doctesting!Greatest

LEMMA CustomFilesFold ==
    ASSUME NEW p, NEW st, NEW fs, NEW files, NEW opts, NEW c, c[1] = p, c[2] = opts, c[3] = files
    PROVE  CustomFiles(p, st, fs, files, opts) = Customizing!Fold(c, st, fs)
  BY DEF CustomFiles, Customizing!Fold, CustomStep, FoldLeft, MapThenFoldSet, Max, Customizing!Greatest

LEMMA CollectFilesOK ==
    ASSUME NEW p, NEW st, StOK(st), NEW fs, IsSeq(fs), \A f \in ToSet(fs) : FileOK(f), NEW opts
    PROVE  StOK(CollectFiles(p, st, fs, opts))
<1> DEFINE c == <<p, opts>>
<1>1. c[1] = p /\ c[2] = opts
  OBVIOUS
<1> HIDE DEF c
<1>2. Len(fs) \in Nat /\ DOMAIN fs = 1..Len(fs) /\ \A i \in 1..Len(fs) : FileOK(fs[i])
  BY SeqFacts
<1>3. \A i \in 1..Len(fs) : \A s : FileHolds(c, i - 1, s) => FileHolds(c, i, FileStep(c, s, fs[i]))
  BY <1>1, <1>2, CollectFileOK DEF FileHolds, FileStep
<1>4. FileHolds(c, 0, st)
  BY DEF FileHolds
<1>5. FileHolds(c, Len(fs), Filing!Fold(c, st, fs))
  BY <1>2, <1>3, <1>4, NaturalInduction, Filing!FoldHolds DEF Filing!Induction
<1> QED
  BY <1>1, <1>5, CollectFilesFold DEF FileHolds

LEMMA ExtraDoctestsOK ==
    ASSUME NEW p, NEW st, StOK(st), NEW f, NEW opts
    PROVE  StOK(ExtraDoctests(p, st, f, opts))
<1> DEFINE more == st.items \o Doctests(f)
           rs == Append(st.reports, SkipReport(f))
           a == [st EXCEPT !.items = more]
           b == [st EXCEPT !.reports = rs]
<1>1. ExtraDoctests(p, st, f, opts) \in {a, b, FailFile(st, f, <<>>)}
  BY DEF ExtraDoctests
<1>2. FileReports(rs)
  BY SkipReportOK, OneMoreFileReport DEF StOK
<1> HIDE DEF more, rs
<1>3. StOK(a) /\ StOK(b)
  BY <1>2, ChangedOK
<1> HIDE DEF a, b
<1>4. StOK(FailFile(st, f, <<>>))
  BY FailFileOK, NoFileReports
<1> QED
  BY <1>1, <1>3, <1>4

LEMMA BareOK ==
    ASSUME NEW st, StOK(st), NEW f
    PROVE  StOK(Bare(st, f))
<1> DEFINE t == FailFile(st, f, <<>>)
           u == [t EXCEPT !.error = FALSE]
<1>1. StOK(t)
  BY FailFileOK, NoFileReports
<1>2. Bare(st, f) \in {st, u}
  BY DEF Bare
<1> HIDE DEF t
<1>3. StOK(u)
  BY <1>1, ChangedOK
<1> HIDE DEF u
<1> QED
  BY <1>2, <1>3

LEMMA CustomFileOK ==
    ASSUME NEW p, NEW st, StOK(st), NEW f, FileOK(f), NEW files, NEW opts
    PROVE  StOK(CustomFile(p, st, f, files, opts))
<1> DEFINE less == Where(st.items, LAMBDA it : it.mod # f.name)
           more == st.items \o PlainItems(Where(f.custom.items, LAMBDA t : NodeId(t, NoId) \notin Own(st, f)))
           rs == Append(st.reports, SkipReport(f))
           a == [st EXCEPT !.items = less]
           b == [a EXCEPT !.reports = rs]
           d == [st EXCEPT !.items = more]
           py == CollectPython(p, st, f.mod, opts)
<1>1. CustomFile(p, st, f, files, opts) \in {st, b, FailFile(st, f, <<>>), d, Bare(py, f)}
  <2>1. CASE f.custom.result = "skip"
    <3>1. CustomFile(p, st, f, files, opts) = [st EXCEPT !.items = less, !.reports = rs]
      BY <2>1 DEF CustomFile
    <3> HIDE DEF less, rs
    <3>2. CustomFile(p, st, f, files, opts) = b
      BY <3>1 DEF StOK, Collected
    <3> QED
      BY <3>2
  <2>2. CASE f.custom.result # "skip"
    BY <2>2 DEF CustomFile
  <2> QED
    BY <2>1, <2>2
<1>2. FileReports(rs)
  BY SkipReportOK, OneMoreFileReport DEF StOK
<1>3. StOK(py)
  BY PythonWorks, WorksStOK DEF FileOK, ModOK
<1> HIDE DEF less, more, rs, py
<1>4. StOK(Bare(py, f)) /\ StOK(FailFile(st, f, <<>>))
  BY <1>3, BareOK, FailFileOK, NoFileReports
<1>5. StOK(a) /\ StOK(d)
  BY ChangedOK
<1> HIDE DEF a, d
<1>6. StOK(b)
  BY <1>2, <1>5, ChangedOK
<1> HIDE DEF b
<1> QED
  BY <1>1, <1>4, <1>5, <1>6

LEMMA DoctestFilesOK ==
    ASSUME NEW p, NEW st, StOK(st), NEW fs, IsSeq(fs), NEW opts
    PROVE  StOK(DoctestFiles(p, st, fs, opts))
<1> DEFINE c == <<p, opts>>
<1>1. c[1] = p /\ c[2] = opts
  OBVIOUS
<1> HIDE DEF c
<1>2. Len(fs) \in Nat /\ DOMAIN fs = 1..Len(fs)
  BY SeqFacts
<1>3. \A i \in 1..Len(fs) : \A s : FileHolds(c, i - 1, s) => FileHolds(c, i, DoctestStep(c, s, fs[i]))
  BY ExtraDoctestsOK DEF FileHolds, DoctestStep
<1>4. FileHolds(c, 0, st)
  BY DEF FileHolds
<1>5. FileHolds(c, Len(fs), Doctesting!Fold(c, st, fs))
  BY <1>2, <1>3, <1>4, NaturalInduction, Doctesting!FoldHolds DEF Doctesting!Induction
<1> QED
  BY <1>1, <1>5, DoctestFilesFold DEF FileHolds

LEMMA CustomFilesOK ==
    ASSUME NEW p, NEW st, StOK(st), NEW fs, IsSeq(fs), \A f \in ToSet(fs) : FileOK(f), NEW files, NEW opts
    PROVE  StOK(CustomFiles(p, st, fs, files, opts))
<1> DEFINE c == <<p, opts, files>>
<1>1. c[1] = p /\ c[2] = opts /\ c[3] = files
  OBVIOUS
<1> HIDE DEF c
<1>2. Len(fs) \in Nat /\ DOMAIN fs = 1..Len(fs) /\ \A i \in 1..Len(fs) : FileOK(fs[i])
  BY SeqFacts
<1>3. \A i \in 1..Len(fs) : \A s : FileHolds(c, i - 1, s) => FileHolds(c, i, CustomStep(c, s, fs[i]))
  BY <1>1, <1>2, CustomFileOK DEF FileHolds, CustomStep
<1>4. FileHolds(c, 0, st)
  BY DEF FileHolds
<1>5. FileHolds(c, Len(fs), Customizing!Fold(c, st, fs))
  BY <1>2, <1>3, <1>4, NaturalInduction, Customizing!FoldHolds DEF Customizing!Induction
<1> QED
  BY <1>1, <1>5, CustomFilesFold DEF FileHolds

LEMMA WalkFacts ==
    ASSUME NEW p, IsSeq(p.files), NEW args, IsSeq(args), NEW venv
    PROVE  IsSeq(WalkAll(p, args, venv)) /\ ToSet(WalkAll(p, args, venv)) \subseteq ToSet(p.files)
<1> DEFINE ss == [i \in DOMAIN args |-> Where(p.files, LAMBDA f : Walked(p, args[i], f, venv))]
<1>1. ASSUME NEW i \in DOMAIN args PROVE IsSeq(ss[i]) /\ ToSet(ss[i]) \subseteq ToSet(p.files)
  <2>1. PICK S : ss[i] = Kept(p.files, S)
    BY DEF Where
  <2> HIDE DEF ss
  <2> QED
    BY <2>1, KeptFacts
<1>2. DOMAIN ss = DOMAIN args /\ ss = [i \in DOMAIN ss |-> ss[i]]
  OBVIOUS
<1>3. WalkAll(p, args, venv) = Dedup(FlattenSeq(ss))
  BY DEF WalkAll
<1> HIDE DEF ss
<1>4. IsSeq(FlattenSeq(ss)) /\ ToSet(FlattenSeq(ss)) \subseteq ToSet(p.files)
  BY <1>1, <1>2, FlattenMap
<1> QED
  BY <1>3, <1>4, DedupFacts

(* The files that were not found by their names.                           *)
LEMMA ExtraOK ==
    ASSUME NEW p, PreparedOK(p), NEW opts, OptionsOK(opts), NEW st, StOK(st), NEW files
    PROVE  StOK(ExtraAndCustom(p, st, files, opts))
<1> DEFINE args == ResolveArgs(opts)
           all == WalkAll(p, args, opts.venv)
           rest == Where(all, LAMBDA f : f.kind = "py" /\ ~Contains(files, f))
           other == OtherDoctests(p, st, files, opts)
<1>1. IsSeq(args) /\ IsSeq(p.files) /\ \A f \in ToSet(p.files) : FileOK(f)
  BY ResolvedFacts DEF PreparedOK, ProjectOK
<1>2. IsSeq(all) /\ \A f \in ToSet(all) : FileOK(f)
  <2> HIDE DEF args
  <2> QED
    BY <1>1, WalkFacts
<1>3. IsSeq(rest)
  <2>1. PICK S : rest = Kept(all, S)
    BY DEF Where
  <2> HIDE DEF all, rest
  <2> QED
    BY <1>2, <2>1, KeptFacts
<1>4. other \in {st, DoctestFiles(p, st, rest, opts)}
  BY DEF OtherDoctests, DoctestFiles
<1> HIDE DEF rest, other
<1>5. StOK(other)
  BY <1>3, <1>4, DoctestFilesOK
<1>6. PICK more : AllDoctests(other, Where(WalkAll(p, args, TRUE),
                      LAMBDA f : f.kind = "text" /\ f.test /\ ~Contains(files, f)))
                  = [other EXCEPT !.items = more]
  BY DEF AllDoctests
<1> DEFINE docs == [other EXCEPT !.items = more]
<1>7. StOK(docs)
  BY <1>5, ChangedOK
<1> DEFINE custom == CustomFiles(p, docs, all, files, opts)
<1>8. StOK(custom)
  <2> HIDE DEF docs, all
  <2> QED
    BY <1>2, <1>7, CustomFilesOK
<1>9. ExtraAndCustom(p, st, files, opts) = docs
      \/ ExtraAndCustom(p, st, files, opts) = [custom EXCEPT !.items = SortByPlace(p, custom.items)]
  BY <1>6 DEF ExtraAndCustom, other
<1> HIDE DEF docs, custom
<1> DEFINE placed == SortByPlace(p, custom.items)
           sorted == [custom EXCEPT !.items = placed]
<1> HIDE DEF placed
<1>10. StOK(sorted)
  BY <1>8, ChangedOK
<1> HIDE DEF sorted
<1> QED
  BY <1>7, <1>9, <1>10 DEF sorted, placed

---------------------------------------------------------------------------
(* What collection returns.                                                *)

(* The items of a collection that was not ended early: those the arguments *)
(* choose from all, in the order they are run in.                          *)
CollectedOK(p, opts, c) ==
    /\ HookedOnce(c) /\ FileNodes(c.errors) /\ FileReports(c.reports)
    /\ c.ordered = Reorder(c.before)
    /\ c.status = "ok" => c.items = ChosenByArgs(p, opts, c.ordered)

LEMMA NothingReordered == Reorder(<<>>) = <<>>
  BY EmptyFacts DEF Reorder

LEMMA TakenFacts ==
    ASSUME NEW p, NEW st, StOK(st), NEW opts
    PROVE  CollectedOK(p, opts, Taken(p, st, opts))
<1> DEFINE before == ExpandFixtureParams(st.defs, st.items)
           ordered == Reorder(before)
           its == ChosenByArgs(p, opts, ordered)
           nf == NotFound(p, opts, its)
           a == [st EXCEPT !.items = its, !.before = before, !.ordered = ordered, !.notfound = nf]
           b == [st EXCEPT !.status = "usage"]
<1>1. Taken(p, st, opts) \in {a, b}
  BY DEF Taken, Finalize, InRunOrder, Finalized
<1>2. ordered = Reorder(before) /\ its = ChosenByArgs(p, opts, ordered)
  OBVIOUS
<1> HIDE DEF before, ordered, its, nf
<1>3. CollectedOK(p, opts, a)
  BY <1>2 DEF CollectedOK, StOK, Collected, HookedOnce
<1>4. CollectedOK(p, opts, b)
  BY NothingReordered DEF CollectedOK, StOK, Collected, HookedOnce
<1> HIDE DEF a, b
<1> QED
  BY <1>1, <1>3, <1>4

LEMMA BeginOK ==
    ASSUME NEW p, PreparedOK(p), NEW rs, FileReports(rs)
    PROVE  StOK(Begin(p, rs))
  BY DEF Begin, StOK, Collected, PreparedOK, HookedOnce

LEMMA NarrowedFacts ==
    ASSUME NEW p, PreparedOK(p), NEW opts, OptionsOK(opts), NEW n, FileReports(n.reports),
           IsSeq(n.files), ToSet(n.files) \subseteq ToSet(p.files)
    PROVE  CollectedOK(p, opts, Narrowed(p, opts, n))
<1> DEFINE st == CollectFiles(p, Begin(p, n.reports), n.files, opts)
           t == ExtraAndCustom(p, st, n.files, opts)
<1>1. \A f \in ToSet(n.files) : FileOK(f)
  BY DEF PreparedOK, ProjectOK
<1>2. StOK(st)
  BY <1>1, BeginOK, CollectFilesOK
<1>3. Narrowed(p, opts, n) = IF st.status # "ok" THEN st ELSE Taken(p, t, opts)
  BY DEF Narrowed, Others
<1> HIDE DEF st
<1>4. StOK(t)
  BY <1>2, ExtraOK
<1> HIDE DEF t
<1>5. st.status # "ok" => CollectedOK(p, opts, st)
  BY <1>2, NothingReordered DEF CollectedOK, StOK
<1> QED
  BY <1>3, <1>4, <1>5, TakenFacts

LEMMA CollectFacts ==
    ASSUME NEW p, PreparedOK(p), NEW opts, OptionsOK(opts)
    PROVE  CollectedOK(p, opts, Collect(p, opts))
<1> DEFINE args == ResolveArgs(opts)
           files == CollectTestFiles(p, opts, args)
           n == CollectIgnores(p, opts, files)
<1>1. IsSeq(args) /\ ProjectOK(p)
  BY ResolvedFacts DEF PreparedOK
<1>2. IsSeq(files) /\ ToSet(files) \subseteq ToSet(p.files)
  <2> HIDE DEF args
  <2> QED
    BY <1>1, TestFilesFacts
<1>3. IsSeq(n.files) /\ ToSet(n.files) \subseteq ToSet(p.files) /\ FileReports(n.reports)
  <2> HIDE DEF files
  <2> QED
    BY <1>2, IgnoresFacts
<1> DEFINE a == [Begin(p, <<>>) EXCEPT !.status = "usage"]
<1>4. Collect(p, opts) \in {a, Narrowed(p, opts, n)}
  BY DEF Collect
<1> HIDE DEF n
<1>5. CollectedOK(p, opts, Narrowed(p, opts, n))
  BY <1>3, NarrowedFacts
<1>6. CollectedOK(p, opts, a)
  BY NoFileReports, NothingReordered DEF CollectedOK, Begin, PreparedOK, HookedOnce
<1> HIDE DEF a
<1> QED
  BY <1>4, <1>5, <1>6

---------------------------------------------------------------------------
(* Which run of which scenario, over which version of the project.         *)

RunsOK ==
    /\ ScenarioOK(scenario)
    /\ \A p \in ToSet(scenario.projects), opts \in ToSet(scenario.runs) : CollectedItemsOK(p, opts)
    /\ run \in 1..Len(scenario.runs) /\ version \in 1..Len(scenario.projects)

LEMMA RunFacts ==
    ASSUME RunsOK
    PROVE  ProjectOK(Project) /\ OptionsOK(o) /\ CollectedItemsOK(Project, o)
<1>1. Project \in ToSet(scenario.projects) /\ o \in ToSet(scenario.runs)
  BY SeqFacts DEF RunsOK, ScenarioOK, Project, o
<1> QED
  BY <1>1 DEF RunsOK, ScenarioOK

LEMMA RunsInit == Init => RunsOK
<1> SUFFICES ASSUME Init PROVE RunsOK
  OBVIOUS
<1>1. /\ ScenarioOK(scenario)
      /\ \A p \in ToSet(scenario.projects), opts \in ToSet(scenario.runs) : CollectedItemsOK(p, opts)
  BY ScenariosAssumption, ItemsAssumption DEF Init
<1>2. Len(scenario.runs) \in Nat /\ Len(scenario.projects) \in Nat
      /\ Len(scenario.runs) # 0 /\ Len(scenario.projects) # 0
  BY <1>1, SeqFacts DEF ScenarioOK
<1>3. run = 1 /\ version = 1
  BY DEF Init
<1> QED
  BY <1>1, <1>2, <1>3 DEF RunsOK

LEMMA RunsNext == RunsOK /\ [Next]_vars => RunsOK'
<1> SUFFICES ASSUME RunsOK, [Next]_vars PROVE RunsOK'
  OBVIOUS
<1>1. CASE NextRun
  <2> DEFINE n == Len(scenario.runs)
             m == Len(scenario.projects)
  <2>1. n \in Nat /\ m \in Nat
    BY SeqFacts DEF RunsOK, ScenarioOK
  <2>2. scenario' = scenario /\ run < n /\ run' = run + 1 /\ version' \in version..m
        /\ run \in 1..n /\ version \in 1..m
    BY <1>1 DEF NextRun, RunsOK
  <2> HIDE DEF n, m
  <2>3. run' \in 1..n /\ version' \in 1..m
    BY <2>1, <2>2
  <2> QED
    BY <2>2, <2>3 DEF RunsOK, n, m
<1>2. CASE UNCHANGED <<scenario, version, run>>
  BY <1>2 DEF RunsOK
<1> QED
  BY <1>1, <1>2 DEF Next, vars, Boot, ConfigurePlugins, Configure, SessionStart, CollectItems,
     HandleCollectionErrors, Select, ListOnly, BeginLoop, RunItem, EndLoop, InternalError, HandleNoTests,
     FinishSession, Over

---------------------------------------------------------------------------
(* What the run collected.                                                 *)

ColOK == HookedOnce(col) /\ FileNodes(col.errors)

LEMMA ColInit == Init => ColOK
<1>1. FileNodes(<<>>) /\ IsSeq(<<>>) /\ IsInjective(<<>>)
  BY EmptyFacts DEF IsInjective, FileNodes
<1> QED
  BY <1>1 DEF Init, ColOK, HookedOnce, NoItems

LEMMA ColCollected ==
    ASSUME RunsOK, CollectItems
    PROVE  ColOK'
<1> DEFINE p == Prepare(Project, o)
           c == Collect(p, o)
<1>1. CollectedOK(p, o, c)
  BY RunFacts, PrepareFacts, CollectFacts
<1>2. col' = [items |-> FilterCollected(o, loaded, Project.files, c.items), before |-> c.before,
              ordered |-> c.ordered, errors |-> c.errors, notfound |-> c.notfound, hooked |-> c.hooked]
  BY DEF CollectItems
<1> HIDE DEF c
<1>3. (col').hooked = c.hooked /\ (col').errors = c.errors
  BY <1>2
<1> QED
  BY <1>1, <1>3 DEF ColOK, CollectedOK, HookedOnce

LEMMA ColNext == RunsOK /\ ColOK /\ [Next]_vars => ColOK'
<1> SUFFICES ASSUME RunsOK, ColOK, [Next]_vars PROVE ColOK'
  OBVIOUS
<1>1. CASE CollectItems
  BY <1>1, ColCollected
<1>2. CASE NextRun
  <2>1. FileNodes(<<>>) /\ IsSeq(<<>>) /\ IsInjective(<<>>)
    BY EmptyFacts DEF IsInjective, FileNodes
  <2> QED
    BY <1>2, <2>1 DEF NextRun, ColOK, HookedOnce, NoItems
<1>3. CASE UNCHANGED col
  BY <1>3 DEF ColOK, HookedOnce
<1> QED
  BY <1>1, <1>2, <1>3 DEF Next, vars, Boot, ConfigurePlugins, Configure, SessionStart,
     HandleCollectionErrors, Select, ListOnly, BeginLoop, RunItem, EndLoop, InternalError, HandleNoTests,
     FinishSession, Over

(* Whatever names a plugin, and however often, its hooks are registered    *)
(* once under one name.                                                    *)
THEOREM PluginsOnceHolds == Spec => []PluginsOnce
<1>1. Init => RunsOK /\ ColOK
  BY RunsInit, ColInit
<1>2. RunsOK /\ ColOK /\ [Next]_vars => RunsOK' /\ ColOK'
  BY RunsNext, ColNext
<1>3. ColOK => PluginsOnce
  BY DEF ColOK, HookedOnce, PluginsOnce
<1> QED
  BY <1>1, <1>2, <1>3, PTL DEF Spec

---------------------------------------------------------------------------
(* What one item reports.                                                  *)

LEMMA LeastOf ==
    ASSUME NEW k \in Nat, NEW s \in SUBSET (1..k), s # {}
    PROVE  Min(s) \in s /\ \A y \in s : Min(s) <= y
<1> DEFINE m == {y \in 1..k : k + 1 - y \in s}
<1>1. m # {}
  <2>1. PICK x \in s : TRUE
    OBVIOUS
  <2>2. k + 1 - x \in 1..k /\ k + 1 - (k + 1 - x) = x
    OBVIOUS
  <2> QED
    BY <2>1, <2>2
<1>2. m \in SUBSET (1..k)
  OBVIOUS
<1> HIDE DEF m
<1>3. Keeping!Greatest(m) \in m /\ \A y \in m : y <= Keeping!Greatest(m)
  BY <1>1, <1>2, NaturalInduction, Keeping!GreatestOf DEF Keeping!Induction
<1> DEFINE n == k + 1 - Keeping!Greatest(m)
<1>4. n \in s /\ Keeping!Greatest(m) \in 1..k
  BY <1>3 DEF m
<1>5. \A y \in s : n <= y
  <2> TAKE y \in s
  <2>1. k + 1 - y \in m
    BY DEF m
  <2>2. k + 1 - y <= Keeping!Greatest(m)
    BY <1>3, <2>1
  <2> QED
    BY <1>4, <2>2
<1> HIDE DEF n
<1> QED
  BY <1>4, <1>5 DEF Min

(* The reports of one attempt of an item: all are its own, the last is not *)
(* about a subtest and, after others, about the tear-down; before the last *)
(* two only a set-up that passed and subtests were reported.               *)
OwnIn(node, r) == ReportOK(r) /\ r.node = node /\ ~r.rerun
PassedSetup(r) == r.phase = "setup" /\ r.outcome = "passed"
TornDown(r) == r.phase = "teardown" /\ r.outcome \in {"passed", "failed", "xfailed"}
Reported(node, rs) ==
    /\ IsSeq(rs) /\ Len(rs) # 0 /\ \A i \in 1..Len(rs) : OwnIn(node, rs[i])
    /\ ~rs[Len(rs)].sub /\ (Len(rs) # 1 => TornDown(rs[Len(rs)]))
    /\ \A i \in 1..Len(rs) : rs[i].sub \/ i >= Len(rs) - 1 \/ PassedSetup(rs[i])

LEMMA OwnReport ==
    ASSUME NEW node, NEW phase \in Phases, NEW outcome \in Results
    PROVE  /\ OwnIn(node, Report(node, phase, outcome)) /\ ~Report(node, phase, outcome).sub
           /\ Report(node, phase, outcome).phase = phase
           /\ Report(node, phase, outcome).outcome = outcome
<1>1. /\ Report(node, phase, outcome).node = node /\ ~Report(node, phase, outcome).rerun
      /\ ~Report(node, phase, outcome).sub /\ Report(node, phase, outcome).phase = phase
      /\ Report(node, phase, outcome).outcome = outcome
  BY DEF Report
<1> QED
  BY <1>1, NewReport DEF OwnIn

(* One report, or one before the tear-down.                                *)
LEMMA OneReported ==
    ASSUME NEW node, NEW r, OwnIn(node, r), ~r.sub
    PROVE  Reported(node, <<r>>)
<1>1. \A i \in 1..1 : i = 1
  OBVIOUS
<1> QED
  BY <1>1, OneFacts DEF Reported

LEMMA TwoReported ==
    ASSUME NEW node, NEW r, NEW s, OwnIn(node, r), OwnIn(node, s), ~s.sub, TornDown(s)
    PROVE  Reported(node, <<r, s>>)
<1>1. IsSeq(<<r, s>>) /\ Len(<<r, s>>) = 2 /\ <<r, s>>[1] = r /\ <<r, s>>[2] = s
  BY TwoFacts
<1>2. \A i \in 1..2 : i = 1 \/ i = 2
  OBVIOUS
<1> DEFINE t == <<r, s>>
<1> HIDE DEF t
<1>3. Reported(node, t)
  <2>1. IsSeq(t) /\ Len(t) = 2 /\ t[1] = r /\ t[2] = s
    BY <1>1 DEF t
  <2> QED
    BY <1>2, <2>1 DEF Reported
<1> QED
  BY <1>3 DEF t

LEMMA FromErrFacts ==
    ASSUME NEW node, NEW phase \in Phases, NEW err
    PROVE  /\ FromErr(node, phase, err).outcome \in {"skipped", "xfailed", "failed"}
           /\ OwnIn(node, FromErr(node, phase, err)) /\ ~FromErr(node, phase, err).sub
           /\ FromErr(node, phase, err).phase = phase
           /\ Reported(node, <<FromErr(node, phase, err)>>)
<1> DEFINE outcome == CASE err = "skip"  -> "skipped" [] err = "xfail" -> "xfailed" [] OTHER -> "failed"
<1>1. outcome \in {"skipped", "xfailed", "failed"}
  OBVIOUS
<1>2. FromErr(node, phase, err) = Report(node, phase, outcome)
  BY DEF FromErr
<1> HIDE DEF outcome
<1>3. outcome \in Results
  BY <1>1 DEF Results
<1>4. /\ OwnIn(node, Report(node, phase, outcome)) /\ ~Report(node, phase, outcome).sub
      /\ Report(node, phase, outcome).phase = phase /\ Report(node, phase, outcome).outcome = outcome
  BY <1>3, OwnReport
<1> QED
  BY <1>1, <1>2, <1>4, OneReported

LEMMA CustomItemFacts ==
    ASSUME NEW it, NEW b, BehaviourOK(b)
    PROVE  Reported(it.id, RunCustomItem(it, b))
<1>1. CASE b.custom = <<>>
  BY <1>1, FromErrFacts DEF RunCustomItem, Phases
<1>2. CASE b.custom # <<>>
  <2> DEFINE rs == [i \in DOMAIN b.custom |-> Report(it.id, b.custom[i].phase, b.custom[i].outcome)]
  <2>1. RunCustomItem(it, b) = rs
    BY <1>2 DEF RunCustomItem
  <2>2. PICK made \in Results, torn \in {"passed", "failed"}, phase \in {"setup", "call"} :
            b.custom = <<[phase |-> phase, outcome |-> made], [phase |-> "teardown", outcome |-> torn]>>
    BY <1>2 DEF BehaviourOK, Results
  <2> DEFINE r == Report(it.id, phase, made)
             s == Report(it.id, "teardown", torn)
  <2>3. rs = <<r, s>>
    BY <2>2
  <2>4. OwnIn(it.id, r)
    BY OwnReport DEF Phases
  <2>5. OwnIn(it.id, s) /\ ~s.sub /\ TornDown(s)
    BY OwnReport DEF Phases, Results, TornDown
  <2> HIDE DEF rs, r, s
  <2>6. Reported(it.id, <<r, s>>)
    BY <2>4, <2>5, TwoReported
  <2> QED
    BY <2>1, <2>3, <2>6
<1> QED
  BY <1>1, <1>2

LEMMA PreludeFacts ==
    ASSUME NEW opts, NEW it, NEW b, BehaviourOK(b)
    PROVE  Prelude(opts, it, b) = <<>> \/ Reported(it.id, Prelude(opts, it, b))
<1>1. \A outcome \in {"skipped", "failed", "xfailed"} : Reported(it.id, <<Report(it.id, "setup", outcome)>>)
  <2> TAKE outcome \in {"skipped", "failed", "xfailed"}
  <2>1. OwnIn(it.id, Report(it.id, "setup", outcome)) /\ ~Report(it.id, "setup", outcome).sub
    BY OwnReport DEF Phases, Results
  <2> QED
    BY <2>1, OneReported
<1>2. Reported(it.id, RunCustomItem(it, b))
  BY CustomItemFacts
<1>3. \/ Prelude(opts, it, b) \in {RunCustomItem(it, b), <<>>}
      \/ \E outcome \in {"skipped", "failed", "xfailed"} :
            Prelude(opts, it, b) = <<Report(it.id, "setup", outcome)>>
  <2>1. CASE b.kind = "custom"
    BY <2>1 DEF Prelude
  <2>2. CASE b.kind = "test" /\ (b.marks = "skip" \/ "skip" \in it.tags)
    BY <2>2 DEF Prelude
  <2>3. CASE b.kind = "test" /\ b.marks = "error" /\ "skip" \notin it.tags
    BY <2>3 DEF Prelude
  <2>4. CASE b.kind = "test" /\ b.marks = "none" /\ "skip" \notin it.tags
    BY <2>4 DEF Prelude
  <2> QED
    BY <2>1, <2>2, <2>3, <2>4 DEF BehaviourOK
<1> QED
  BY <1>1, <1>2, <1>3

LEMMA SetupFacts ==
    ASSUME NEW opts, NEW it, NEW b, BehaviourOK(b)
    PROVE  /\ OwnIn(it.id, Setup(opts, it, b)) /\ ~Setup(opts, it, b).sub
           /\ Setup(opts, it, b).phase = "setup"
<1> DEFINE err == IF it.unsupported THEN "fail" ELSE b.setup
           failure == FromErr(it.id, "setup", err)
           excused == [failure EXCEPT !.outcome = "xfailed"]
           s == Setup(opts, it, b)
<1>1. \/ s \in {Report(it.id, "setup", "failed"), Report(it.id, "setup", "passed")}
      \/ s = failure \/ s = excused
  BY DEF Setup
<1>2. OwnIn(it.id, failure) /\ ~failure.sub /\ failure.phase = "setup"
  <2>1. "setup" \in Phases
    BY DEF Phases
  <2> HIDE DEF err
  <2>2. OwnIn(it.id, failure) /\ ~failure.sub
    BY <2>1, FromErrFacts
  <2>3. failure.phase = "setup"
    BY DEF FromErr, Report
  <2> QED
    BY <2>2, <2>3
<1> HIDE DEF failure
<1>3. OwnIn(it.id, excused) /\ ~excused.sub /\ excused.phase = "setup"
  BY <1>2 DEF OwnIn, ReportOK, Results
<1> HIDE DEF excused
<1>4. \A outcome \in Results :
         /\ OwnIn(it.id, Report(it.id, "setup", outcome)) /\ ~Report(it.id, "setup", outcome).sub
         /\ Report(it.id, "setup", outcome).phase = "setup"
  <2> TAKE outcome \in Results
  <2>1. "setup" \in Phases
    BY DEF Phases
  <2> QED
    BY <2>1, OwnReport
<1>5. OwnIn(it.id, s) /\ ~s.sub /\ s.phase = "setup"
  BY <1>1, <1>2, <1>3, <1>4 DEF Results
<1> QED
  BY <1>5

LEMMA InvertFacts ==
    ASSUME NEW xfail, NEW err, NEW outcome \in Results
    PROVE  Invert(xfail, err, outcome) \in Results
  BY DEF Invert, Results

LEMMA SubReportsFacts ==
    ASSUME NEW it, NEW b, BehaviourOK(b)
    PROVE  /\ IsSeq(SubReports(it, b))
           /\ \A i \in 1..Len(SubReports(it, b)) :
                 OwnIn(it.id, SubReports(it, b)[i]) /\ SubReports(it, b)[i].sub
<1> DEFINE rs == SubReports(it, b)
<1>1. IsSeq(b.subs) /\ \A i \in DOMAIN b.subs : b.subs[i].outcome \in Results
  BY DEF BehaviourOK, ToSet, Results
<1>2. DOMAIN rs = DOMAIN b.subs /\ rs = [i \in DOMAIN rs |-> rs[i]]
      /\ \A i \in DOMAIN b.subs : rs[i] = [Report(it.id, "call", b.subs[i].outcome) EXCEPT !.sub = TRUE]
  BY DEF SubReports
<1> HIDE DEF rs
<1>3. ASSUME NEW i \in DOMAIN b.subs PROVE OwnIn(it.id, rs[i]) /\ rs[i].sub
  <2> DEFINE r == Report(it.id, "call", b.subs[i].outcome)
  <2>1. OwnIn(it.id, r)
    BY <1>1, OwnReport DEF Phases
  <2>2. rs[i] = [r EXCEPT !.sub = TRUE]
    BY <1>2
  <2> HIDE DEF r
  <2> QED
    BY <2>1, <2>2 DEF OwnIn, ReportOK
<1>4. IsSeq(rs) /\ DOMAIN rs = 1..Len(rs)
  BY <1>1, <1>2, MapFacts
<1>5. \A i \in 1..Len(rs) : OwnIn(it.id, rs[i]) /\ rs[i].sub
  BY <1>2, <1>3, <1>4
<1> QED
  BY <1>4, <1>5 DEF rs

LEMMA CallReportFacts ==
    ASSUME NEW opts, NEW it, NEW b, BehaviourOK(b), NEW marked
    PROVE  OwnIn(it.id, CallReport(opts, it, b, marked)) /\ ~CallReport(opts, it, b, marked).sub
<1> DEFINE xfail == IF marked = <<>> THEN b.addedInCall ELSE marked
           raised == [FromErr(it.id, "call", b.call) EXCEPT !.time = b.time]
           plain == CASE b.call = "ok" -> "passed" [] b.call = "async" -> "failed" [] OTHER -> raised.outcome
           err == IF b.call = "async" THEN "fail" ELSE b.call
           judged == IF xfail = <<>> \/ opts.runxfail THEN plain
                     ELSE IF b.call = "async" THEN Invert([xfail EXCEPT ![1].raises = {"fail"}], err, plain)
                     ELSE Invert(xfail, err, plain)
           broken == \/ "call" \in b.leaks
                     \/ \E s \in ToSet(b.subs) : s.outcome = "failed" /\ ~s.unittest
           final == IF judged = "passed" /\ broken THEN "failed" ELSE judged
<1>1. CallReport(opts, it, b, marked) = [raised EXCEPT !.outcome = final]
  BY DEF CallReport
<1>2. OwnIn(it.id, raised) /\ ~raised.sub /\ raised.outcome \in Results
  <2> DEFINE f == FromErr(it.id, "call", b.call)
  <2>1. OwnIn(it.id, f) /\ ~f.sub
    BY FromErrFacts DEF Phases
  <2> HIDE DEF f
  <2>2. raised = [f EXCEPT !.time = b.time] /\ b.time \in Nat
    BY DEF f, BehaviourOK
  <2> HIDE DEF raised
  <2> QED
    BY <2>1, <2>2 DEF OwnIn, ReportOK
<1> HIDE DEF raised
<1>3. plain \in Results
  BY <1>2 DEF Results
<1> HIDE DEF plain
<1>4. judged \in Results
  BY <1>3, InvertFacts
<1> HIDE DEF judged, broken
<1>5. final \in Results
  BY <1>4 DEF Results
<1> HIDE DEF final
<1> DEFINE judgedOn == [raised EXCEPT !.outcome = final]
<1>6. OwnIn(it.id, judgedOn) /\ ~judgedOn.sub
  BY <1>2, <1>5 DEF OwnIn, ReportOK
<1> QED
  BY <1>1, <1>6

LEMMA TeardownFacts ==
    ASSUME NEW it, NEW b, NEW xfail
    PROVE  /\ OwnIn(it.id, TeardownOne(it, b, xfail)) /\ ~TeardownOne(it, b, xfail).sub
           /\ TornDown(TeardownOne(it, b, xfail))
<1>1. PICK outcome \in {"passed", "failed", "xfailed"} :
          TeardownOne(it, b, xfail) = Report(it.id, "teardown", outcome)
  BY DEF TeardownOne
<1> QED
  BY <1>1, OwnReport DEF Phases, Results, TornDown

(* The reports of an attempt before its tear-down.                         *)
Bodied(node, rs) ==
    /\ IsSeq(rs) /\ Len(rs) # 0 /\ \A i \in 1..Len(rs) : OwnIn(node, rs[i])
    /\ \A i \in 1..Len(rs) : rs[i].sub \/ i = Len(rs) \/ PassedSetup(rs[i])

LEMMA OneThen ==
    ASSUME NEW e, NEW t, IsSeq(t)
    PROVE  /\ IsSeq(<<e>> \o t) /\ Len(<<e>> \o t) = 1 + Len(t) /\ (<<e>> \o t)[1] = e
           /\ \A i \in 1..Len(t) : (<<e>> \o t)[1 + i] = t[i]
<1> DEFINE one == <<e>>
           u == one \o t
<1>1. IsSeq(one) /\ Len(one) = 1 /\ one[1] = e /\ 1 \in 1..1
  BY OneFacts
<1>0. IsSeq(one)
  BY <1>1
<1> HIDE DEF one
<1>2. /\ IsSeq(u) /\ Len(u) = Len(one) + Len(t) /\ \A i \in 1..Len(one) : u[i] = one[i]
      /\ \A i \in 1..Len(t) : u[Len(one) + i] = t[i]
  BY <1>0, ConcatFacts
<1> HIDE DEF u
<1>3. IsSeq(u) /\ Len(u) = 1 + Len(t) /\ u[1] = e /\ \A i \in 1..Len(t) : u[1 + i] = t[i]
  BY <1>1, <1>2
<1> QED
  BY <1>3 DEF u, one

LEMMA SetupThen ==
    ASSUME NEW node, NEW s, OwnIn(node, s), NEW mid, IsSeq(mid), \A i \in 1..Len(mid) : OwnIn(node, mid[i]),
           \A i \in 1..Len(mid) : mid[i].sub \/ i = Len(mid), Len(mid) = 0 \/ PassedSetup(s)
    PROVE  Bodied(node, <<s>> \o mid)
<1> DEFINE rs == <<s>> \o mid
<1>1. IsSeq(<<s>>) /\ Len(<<s>>) = 1 /\ <<s>>[1] = s
  BY OneFacts
<1>2. Len(mid) \in Nat
  BY SeqFacts
<1>3. IsSeq(rs) /\ Len(rs) = 1 + Len(mid) /\ rs[1] = s /\ \A i \in 1..Len(mid) : rs[1 + i] = mid[i]
  BY OneThen
<1> HIDE DEF rs
<1>4. ASSUME NEW i \in 1..Len(rs) PROVE OwnIn(node, rs[i]) /\ (rs[i].sub \/ i = Len(rs) \/ PassedSetup(rs[i]))
  <2>1. CASE i = 1
    BY <1>2, <1>3, <2>1
  <2>2. CASE i # 1
    <3>1. i - 1 \in 1..Len(mid) /\ 1 + (i - 1) = i /\ Len(rs) = 1 + Len(mid)
      BY <1>2, <1>3, <2>2
    <3>2. rs[i] = mid[i - 1]
      BY <1>3, <3>1
    <3>3. i - 1 = Len(mid) => i = Len(rs)
      BY <1>2, <3>1
    <3> QED
      BY <3>1, <3>2, <3>3
  <2> QED
    BY <2>1, <2>2
<1>5. Bodied(node, rs)
  BY <1>2, <1>3, <1>4 DEF Bodied
<1> QED
  BY <1>5 DEF rs

LEMMA BodyFacts ==
    ASSUME NEW opts, NEW it, NEW b, BehaviourOK(b)
    PROVE  Bodied(it.id, RunItemBody(opts, it, b).reports)
<1> DEFINE setup == Setup(opts, it, b)
           marked == IF b.xfail = <<>> THEN b.addedInSetup ELSE b.xfail
           subs == SubReports(it, b)
           call == CallReport(opts, it, b, marked)
           body == RunItemBody(opts, it, b).reports
           xf == Report(it.id, "call", "xfailed")
<1>1. \/ body = <<setup>> \o <<>>
      \/ setup.outcome = "passed" /\ body \in {<<setup>> \o <<xf>>, <<setup>> \o subs, <<setup>> \o Append(subs, call)}
  BY DEF RunItemBody
<1>2. OwnIn(it.id, setup) /\ (setup.outcome = "passed" => PassedSetup(setup))
  BY SetupFacts DEF PassedSetup
<1>3. IsSeq(subs) /\ (\A i \in 1..Len(subs) : OwnIn(it.id, subs[i]) /\ subs[i].sub) /\ OwnIn(it.id, call)
  BY SubReportsFacts, CallReportFacts
<1>4. OwnIn(it.id, xf)
  BY OwnReport DEF Phases, Results
<1> HIDE DEF setup, subs, call, xf, body
<1>5. Bodied(it.id, <<setup>> \o <<>>)
  <2>1. IsSeq(<<>>) /\ Len(<<>>) = 0 /\ \A i \in 1..0 : FALSE
    BY EmptyFacts
  <2> QED
    BY <1>2, <2>1, SetupThen
<1>6. setup.outcome = "passed" => Bodied(it.id, <<setup>> \o <<xf>>)
  <2> DEFINE one == <<xf>>
  <2>1. IsSeq(one) /\ Len(one) = 1 /\ one[1] = xf
    BY OneFacts
  <2> HIDE DEF one
  <2>2. \A i \in 1..Len(one) : OwnIn(it.id, one[i]) /\ i = Len(one)
    BY <1>4, <2>1
  <2>3. setup.outcome = "passed" => Bodied(it.id, <<setup>> \o one)
    BY <1>2, <2>1, <2>2, SetupThen
  <2> QED
    BY <2>3 DEF one
<1>7. setup.outcome = "passed" => Bodied(it.id, <<setup>> \o subs)
  BY <1>2, <1>3, SetupThen
<1>8. setup.outcome = "passed" => Bodied(it.id, <<setup>> \o Append(subs, call))
  <2> DEFINE mid == Append(subs, call)
  <2>1. /\ IsSeq(mid) /\ Len(mid) = Len(subs) + 1 /\ mid[Len(subs) + 1] = call
        /\ \A i \in 1..Len(subs) : mid[i] = subs[i]
    BY <1>3, AppendFacts
  <2>2. Len(subs) \in Nat
    BY <1>3, SeqFacts
  <2> HIDE DEF mid
  <2>3. \A i \in 1..Len(mid) : i \in 1..Len(subs) \/ i = Len(subs) + 1
    BY <2>1, <2>2
  <2>4. \A i \in 1..Len(mid) : OwnIn(it.id, mid[i]) /\ (mid[i].sub \/ i = Len(mid))
    BY <1>3, <2>1, <2>3
  <2>5. setup.outcome = "passed" => Bodied(it.id, <<setup>> \o mid)
    BY <1>2, <2>1, <2>4, SetupThen
  <2> QED
    BY <2>5 DEF mid
<1>9. Bodied(it.id, body)
  BY <1>1, <1>5, <1>6, <1>7, <1>8
<1> QED
  BY <1>9 DEF body

LEMMA OneBodyFacts ==
    ASSUME NEW opts, NEW it, NEW b, BehaviourOK(b)
    PROVE  Reported(it.id, RunOneBody(opts, it, b).reports)
<1> DEFINE decided == Prelude(opts, it, b)
           body == RunItemBody(opts, it, b)
           last == TeardownOne(it, b, body.xfail)
           rs == body.reports
           t == Append(rs, last)
<1>1. RunOneBody(opts, it, b).reports = IF decided # <<>> THEN decided ELSE t
  BY DEF RunOneBody
<1>2. Bodied(it.id, rs)
  BY BodyFacts
<1>3. OwnIn(it.id, last) /\ ~last.sub /\ TornDown(last)
  BY TeardownFacts
<1>4. decided = <<>> \/ Reported(it.id, decided)
  BY PreludeFacts
<1> HIDE DEF decided, body, last, rs
<1>5. /\ IsSeq(t) /\ Len(t) = Len(rs) + 1 /\ t[Len(rs) + 1] = last
      /\ \A i \in 1..Len(rs) : t[i] = rs[i]
  BY <1>2, AppendFacts DEF Bodied
<1>6. Len(rs) \in Nat
  BY <1>2, SeqFacts DEF Bodied
<1> HIDE DEF t
<1>7. \A i \in 1..Len(t) : i \in 1..Len(rs) \/ i = Len(rs) + 1
  BY <1>5, <1>6
<1>8. Len(t) # 0 /\ t[Len(t)] = last /\ \A i \in 1..Len(t) : OwnIn(it.id, t[i])
  BY <1>2, <1>3, <1>5, <1>6, <1>7 DEF Bodied
<1>9. ASSUME NEW i \in 1..Len(t) PROVE t[i].sub \/ i >= Len(t) - 1 \/ PassedSetup(t[i])
  <2>1. CASE i = Len(rs) + 1
    BY <1>5, <1>6, <2>1
  <2>2. CASE i \in 1..Len(rs)
    <3>1. t[i] = rs[i] /\ (rs[i].sub \/ i = Len(rs) \/ PassedSetup(rs[i]))
      BY <1>2, <1>5, <2>2 DEF Bodied
    <3>2. i = Len(rs) => i >= Len(t) - 1
      BY <1>5, <1>6
    <3> QED
      BY <3>1, <3>2
  <2> QED
    BY <1>7, <2>1, <2>2
<1>10. Reported(it.id, t)
  BY <1>3, <1>5, <1>8, <1>9 DEF Reported
<1> QED
  BY <1>1, <1>4, <1>10

---------------------------------------------------------------------------
(* Reruns.                                                                 *)

LEMMA FailedAtFacts ==
    ASSUME NEW rs, IsSeq(rs)
    PROVE  FailedAt(rs) \in SUBSET (1..Len(rs)) /\ Len(rs) \in Nat
  BY SeqFacts DEF FailedAt

(* Reports that are all about one node.                                    *)
About(node, rs) == ReportsOK(rs) /\ \A r \in ToSet(rs) : r.node = node

LEMMA ReportedAbout ==
    ASSUME NEW node, NEW rs, Reported(node, rs)
    PROVE  About(node, rs)
  BY SeqFacts DEF Reported, OwnIn, About, ReportsOK

(* An attempt that is repeated ends with the report of its rerun.          *)
EndsInRerun(rs) == Len(rs) # 0 /\ rs[Len(rs)].rerun

LEMMA AttemptFacts ==
    ASSUME NEW node, NEW rs, About(node, rs), NEW last
    PROVE  /\ About(node, Attempt(rs, last))
           /\ last \/ FailedAt(rs) = {} => Attempt(rs, last) = rs
           /\ last \/ FailedAt(rs) = {} \/ EndsInRerun(Attempt(rs, last))
<1> DEFINE bad == FailedAt(rs)
           n == Min(bad)
           cut == SubSeq(rs, 1, n)
           t == [cut EXCEPT ![n].rerun = TRUE]
<1>1. CASE last \/ bad = {}
  BY <1>1 DEF Attempt
<1>2. CASE ~(last \/ bad = {})
  <2>1. Attempt(rs, last) = t
    BY <1>2 DEF Attempt
  <2>2. n \in bad /\ n \in 1..Len(rs) /\ Len(rs) \in Nat
    BY <1>2, FailedAtFacts, LeastOf DEF About, ReportsOK
  <2> HIDE DEF n
  <2>3. IsSeq(cut) /\ ToSet(cut) \subseteq ToSet(rs) /\ Len(cut) = n
    BY <2>2, SubSeqFacts DEF About, ReportsOK
  <2> HIDE DEF cut
  <2>4. DOMAIN cut = 1..n /\ \A i \in 1..n : cut[i] \in ToSet(rs)
    BY <2>3, SeqFacts
  <2>5. \A i \in 1..n : ReportOK(cut[i]) /\ cut[i].node = node
    BY <2>4 DEF About, ReportsOK
  <2>6. DOMAIN t = DOMAIN cut /\ t = [i \in DOMAIN t |-> t[i]]
        /\ \A i \in 1..n : t[i] = IF i = n THEN [cut[n] EXCEPT !.rerun = TRUE] ELSE cut[i]
    BY <2>2, <2>4
  <2> HIDE DEF t
  <2>7. ReportOK(cut[n]) /\ cut[n].node = node
    BY <2>2, <2>5
  <2> DEFINE r == cut[n]
             u == [r EXCEPT !.rerun = TRUE]
  <2> HIDE DEF r
  <2>8. ReportOK(u) /\ u.rerun /\ u.node = node
    BY <2>7 DEF ReportOK, r
  <2>9. \A i \in DOMAIN cut : ReportOK(t[i]) /\ t[i].node = node
    BY <2>4, <2>5, <2>6, <2>8 DEF r
  <2>10. ReportsOK(t)
    BY <2>3, <2>6, <2>9, MappedReports
  <2>11. \A x \in ToSet(t) : x.node = node
    BY <2>6, <2>9 DEF ToSet
  <2>12. Len(t) = n /\ t[n].rerun /\ n # 0
    <3>1. Len(t) = n /\ n \in 1..n
      BY <2>2, <2>3, <2>6, MapFacts
    <3>2. t[n] = u
      BY <2>2, <2>6, <3>1 DEF r
    <3> HIDE DEF u
    <3> QED
      BY <2>2, <2>8, <3>1, <3>2
  <2> QED
    BY <1>2, <2>1, <2>10, <2>11, <2>12 DEF About, EndsInRerun
<1> QED
  BY <1>1, <1>2

LEMMA FinalFacts ==
    ASSUME NEW attempts, IsSeq(attempts), attempts # <<>>
    PROVE  /\ Final(attempts) \in 1..Len(attempts)
           /\ Final(attempts) = Len(attempts) \/ FailedAt(attempts[Final(attempts)].reports) = {}
           /\ \A k \in 1..Final(attempts) - 1 : k # Len(attempts) /\ FailedAt(attempts[k].reports) # {}
<1> DEFINE S == {k \in DOMAIN attempts : k = Len(attempts) \/ FailedAt(attempts[k].reports) = {}}
           n == Len(attempts)
<1>1. n \in Nat /\ DOMAIN attempts = 1..n /\ n # 0
  BY SeqFacts
<1>2. S \in SUBSET (1..n) /\ n \in S
  BY <1>1
<1> HIDE DEF S, n
<1>3. Min(S) \in S /\ \A y \in S : Min(S) <= y
  BY <1>1, <1>2, LeastOf
<1>4. Final(attempts) = Min(S)
  BY DEF Final, S
<1> DEFINE m == Min(S)
<1>5. m \in 1..n
  BY <1>2, <1>3
<1>6. \A k \in 1..m - 1 : k \in 1..n /\ k \notin S
  BY <1>1, <1>3, <1>5
<1>7. \A k \in 1..m - 1 : k # n /\ FailedAt(attempts[k].reports) # {}
  BY <1>1, <1>6 DEF S, n
<1> QED
  BY <1>1, <1>2, <1>3, <1>4, <1>7 DEF S, n

(* A list of lists joined is the last of them after what the others are;   *)
(* that is nothing, or ends as the last but one does.                      *)
JoinedLast(ss, pre) ==
    /\ IsSeq(pre) /\ FlattenSeq(ss) = pre \o ss[Len(ss)]
    /\ \/ pre = <<>>
       \/ /\ Len(ss) > 1
          /\ Len(ss[Len(ss) - 1]) # 0 => Len(pre) # 0 /\ pre[Len(pre)] = ss[Len(ss) - 1][Len(ss[Len(ss) - 1])]

LEMMA ConcatLast ==
    ASSUME NEW s, IsSeq(s), NEW t, IsSeq(t), Len(t) # 0
    PROVE  Len(s \o t) # 0 /\ (s \o t)[Len(s \o t)] = t[Len(t)]
<1>1. Len(s) \in Nat /\ Len(t) \in Nat
  BY SeqFacts
<1>2. Len(t) \in 1..Len(t)
  BY <1>1
<1>3. Len(s \o t) = Len(s) + Len(t) /\ (s \o t)[Len(s) + Len(t)] = t[Len(t)]
  BY <1>2, ConcatFacts
<1> DEFINE u == s \o t
<1> HIDE DEF u
<1>4. Len(u) = Len(s) + Len(t) /\ u[Len(s) + Len(t)] = t[Len(t)]
  BY <1>3 DEF u
<1>5. Len(u) # 0 /\ u[Len(u)] = t[Len(t)]
  BY <1>1, <1>4
<1> QED
  BY <1>5 DEF u

LEMMA FlattenLast ==
    ASSUME NEW ss, IsSeq(ss), Len(ss) # 0, \A i \in 1..Len(ss) : IsSeq(ss[i])
    PROVE  \E pre : JoinedLast(ss, pre)
<1> DEFINE n == Len(ss)
           h == CHOOSE h : Joins(ss, n, h)
<1>1. n \in Nat /\ n # 0
  BY SeqFacts
<1>2. Joins(ss, n, h)
  BY <1>1, JoinsSolved
<1>3. FlattenSeq(ss) = h[n]
  BY <1>1, SeqFacts DEF FlattenSeq, Joins, JoinBody
<1>4. \A i \in 1..n : h[i] = JoinBody(ss, h, i)
  BY <1>2 DEF Joins
<1> HIDE DEF h
<1> DEFINE S == {k \in Nat : k + 1 <= n => IsSeq(h[k + 1])}
<1>5. 0 \in S
  <2>1. 0 + 1 = 1 /\ 1 \in 1..n
    BY <1>1
  <2>2. h[1] = ss[1]
    BY <1>4, <2>1 DEF JoinBody
  <2> QED
    BY <2>1, <2>2
<1>6. ASSUME NEW k \in Nat, k \in S PROVE k + 1 \in S
  <2> DEFINE i == (k + 1) + 1
  <2> SUFFICES ASSUME i <= n PROVE IsSeq(h[i])
    OBVIOUS
  <2>1. i \in 1..n /\ i # 1 /\ i - 1 = k + 1 /\ k + 1 <= n
    BY <1>1
  <2>2. IsSeq(h[k + 1])
    BY <1>6, <2>1
  <2> HIDE DEF i
  <2>3. h[i] = h[k + 1] \o ss[i]
    BY <1>4, <2>1 DEF JoinBody
  <2> QED
    BY <2>1, <2>2, <2>3, ConcatFacts
<1> HIDE DEF S
<1>7. \A k \in Nat : k \in S
  BY <1>5, <1>6, NaturalInduction
<1>8. \A i \in 1..n : IsSeq(h[i])
  <2> TAKE i \in 1..n
  <2>1. i - 1 \in Nat /\ (i - 1) + 1 = i /\ i <= n
    BY <1>1
  <2>2. i - 1 \in S
    BY <1>7, <2>1
  <2> QED
    BY <2>1, <2>2 DEF S
<1>9. CASE n = 1
  <2>1. h[1] = ss[1] /\ IsSeq(ss[1])
    BY <1>4, <1>9 DEF JoinBody
  <2>2. <<>> \o ss[1] = ss[1]
    <3> DEFINE t == <<>> \o ss[1]
    <3>1. IsSeq(t) /\ Len(t) = Len(ss[1]) /\ \A i \in 1..Len(ss[1]) : t[0 + i] = ss[1][i]
      <4>1. IsSeq(<<>>) /\ Len(<<>>) = 0 /\ Len(ss[1]) \in Nat
        BY <2>1, EmptyFacts, SeqFacts
      <4>2. IsSeq(t) /\ Len(t) = Len(<<>>) + Len(ss[1]) /\ \A i \in 1..Len(ss[1]) : t[Len(<<>>) + i] = ss[1][i]
        BY <2>1, <4>1, ConcatFacts
      <4> HIDE DEF t
      <4> QED
        BY <4>1, <4>2
    <3> HIDE DEF t
    <3>2. \A i \in 1..Len(t) : t[i] = ss[1][i]
      BY <3>1
    <3>3. t = ss[1]
      BY <2>1, <3>1, <3>2, EqualSeqs
    <3> QED
      BY <3>3 DEF t
  <2>3. JoinedLast(ss, <<>>)
    BY <1>3, <1>9, <2>1, <2>2, EmptyFacts DEF JoinedLast
  <2> QED
    BY <2>3
<1>10. CASE n # 1
  <2>1. n \in 1..n /\ n - 1 \in 1..n /\ n > 1
    <3> HIDE DEF n
    <3> QED
      BY <1>1, <1>10
  <2> DEFINE pre == h[n - 1]
             t == ss[n - 1]
  <2>2. h[n] = pre \o ss[n]
    BY <1>4, <1>10, <2>1 DEF JoinBody
  <2>3. IsSeq(pre) /\ IsSeq(t)
    BY <1>8, <2>1
  <2>4. Len(t) # 0 => Len(pre) # 0 /\ pre[Len(pre)] = t[Len(t)]
    <3>1. CASE n - 1 = 1
      <4>1. pre = t
        BY <1>4, <2>1, <3>1 DEF JoinBody
      <4> QED
        BY <4>1
    <3>2. CASE n - 1 # 1
      <4>1. pre = h[n - 1 - 1] \o t
        BY <1>4, <2>1, <3>2 DEF JoinBody
      <4>2. n - 1 - 1 \in 1..n
        <5> HIDE DEF n
        <5> QED
          BY <1>1, <2>1, <3>2
      <4>3. IsSeq(h[n - 1 - 1])
        BY <1>8, <4>2
      <4> DEFINE g == h[n - 1 - 1]
      <4> HIDE DEF g, t, pre
      <4>4. IsSeq(g) /\ pre = g \o t /\ IsSeq(t)
        BY <2>3, <4>1, <4>3 DEF g
      <4> QED
        BY <4>4, ConcatLast
    <3> QED
      BY <3>1, <3>2
  <2> HIDE DEF pre
  <2>5. JoinedLast(ss, pre)
    BY <1>3, <2>1, <2>2, <2>3, <2>4 DEF JoinedLast
  <2> QED
    BY <2>5
<1> QED
  BY <1>9, <1>10

---------------------------------------------------------------------------
(* Verdicts.                                                               *)

(* What a list of reports does to what is remembered of a node: a report   *)
(* adds it, or removes it.                                                 *)
Adds(node, r) == r.node = node /\ r.outcome = "failed"
Removes(node, r) ==
    r.node = node /\ ((r.phase = "call" /\ r.outcome = "passed") \/ r.outcome \in {"skipped", "xfailed"})
Fatal(node, rs) ==
    \E i \in 1..Len(rs) : Adds(node, rs[i]) /\ \A j \in 1..Len(rs) : j > i => ~Removes(node, rs[j])
Clears(node, rs) ==
    \E i \in 1..Len(rs) : Removes(node, rs[i]) /\ \A j \in 1..Len(rs) : j > i => ~Adds(node, rs[j])
Excuses(node, rs) ==
    \E i, j \in 1..Len(rs) : /\ i < j /\ rs[i].node = node /\ rs[j].node = node
                             /\ rs[i].outcome = "failed" /\ rs[j].outcome = "xfailed"

(* A verdict on a node is true of a list of reports.                       *)
Honest(v, node, rs) ==
    /\ v = "failed" => Fatal(node, rs) \/ Excuses(node, rs)
    /\ v = "passed" => Clears(node, rs)

(* What comes before does not matter.                                      *)
LEMMA HonestAfter ==
    ASSUME NEW node, NEW pre, IsSeq(pre), NEW rs, IsSeq(rs), NEW v, Honest(v, node, rs)
    PROVE  Honest(v, node, pre \o rs)
<1> DEFINE t == pre \o rs
           m == Len(pre)
           n == Len(rs)
<1>1. m \in Nat /\ n \in Nat
  BY SeqFacts
<1>2. Len(t) = m + n /\ \A i \in 1..n : t[m + i] = rs[i]
  BY ConcatFacts
<1> HIDE DEF t, m, n
<1>3. \A j \in 1..m + n : j > m => j - m \in 1..n /\ t[j] = rs[j - m]
  <2> TAKE j \in 1..m + n
  <2>1. j > m => j - m \in 1..n /\ m + (j - m) = j
    BY <1>1
  <2> QED
    BY <1>2, <2>1
<1>4. \A i \in 1..n : m + i \in 1..m + n
  BY <1>1
<1>5. ASSUME Fatal(node, rs) PROVE Fatal(node, t)
  <2>1. PICK i \in 1..n : Adds(node, rs[i]) /\ \A j \in 1..n : j > i => ~Removes(node, rs[j])
    BY <1>5 DEF Fatal, n
  <2>2. \A j \in 1..m + n : j > m + i => j > m /\ j - m > i
    BY <1>1
  <2>3. Adds(node, t[m + i]) /\ \A j \in 1..m + n : j > m + i => ~Removes(node, t[j])
    BY <1>2, <1>3, <2>1, <2>2
  <2> QED
    BY <1>2, <1>4, <2>3 DEF Fatal
<1>6. ASSUME Clears(node, rs) PROVE Clears(node, t)
  <2>1. PICK i \in 1..n : Removes(node, rs[i]) /\ \A j \in 1..n : j > i => ~Adds(node, rs[j])
    BY <1>6 DEF Clears, n
  <2>2. \A j \in 1..m + n : j > m + i => j > m /\ j - m > i
    BY <1>1
  <2>3. Removes(node, t[m + i]) /\ \A j \in 1..m + n : j > m + i => ~Adds(node, t[j])
    BY <1>2, <1>3, <2>1, <2>2
  <2> QED
    BY <1>2, <1>4, <2>3 DEF Clears
<1>7. ASSUME Excuses(node, rs) PROVE Excuses(node, t)
  <2>1. PICK i \in 1..n, j \in 1..n :
            /\ i < j /\ rs[i].node = node /\ rs[j].node = node
            /\ rs[i].outcome = "failed" /\ rs[j].outcome = "xfailed"
    BY <1>7 DEF Excuses, n
  <2>2. m + i < m + j
    BY <1>1, <2>1
  <2> QED
    BY <1>2, <1>4, <2>1, <2>2 DEF Excuses
<1>8. Honest(v, node, t)
  BY <1>5, <1>6, <1>7 DEF Honest
<1> QED
  BY <1>8 DEF t

(* Nor what comes after, when it is not about the node.                    *)
LEMMA HonestBefore ==
    ASSUME NEW node, NEW rs, IsSeq(rs), NEW ss, IsSeq(ss), \A r \in ToSet(ss) : r.node # node,
           NEW v, Honest(v, node, rs)
    PROVE  Honest(v, node, rs \o ss)
<1> DEFINE t == rs \o ss
           m == Len(rs)
           n == Len(ss)
<1>1. m \in Nat /\ n \in Nat /\ \A i \in 1..n : ss[i].node # node
  BY SeqFacts
<1>2. Len(t) = m + n /\ (\A i \in 1..m : t[i] = rs[i]) /\ \A i \in 1..n : t[m + i] = ss[i]
  BY ConcatFacts
<1> HIDE DEF t, m, n
<1>3. \A j \in 1..m + n : j \notin 1..m => t[j].node # node
  <2> TAKE j \in 1..m + n
  <2>1. j \notin 1..m => j - m \in 1..n /\ m + (j - m) = j
    BY <1>1
  <2> QED
    BY <1>1, <1>2, <2>1
<1>4. \A i \in 1..m : i \in 1..m + n
  BY <1>1
<1>5. ASSUME Fatal(node, rs) PROVE Fatal(node, t)
  <2>1. PICK i \in 1..m : Adds(node, rs[i]) /\ \A j \in 1..m : j > i => ~Removes(node, rs[j])
    BY <1>5 DEF Fatal, m
  <2>2. Adds(node, t[i]) /\ \A j \in 1..m + n : j > i => ~Removes(node, t[j])
    BY <1>2, <1>3, <2>1 DEF Removes
  <2> QED
    BY <1>2, <1>4, <2>2 DEF Fatal
<1>6. ASSUME Clears(node, rs) PROVE Clears(node, t)
  <2>1. PICK i \in 1..m : Removes(node, rs[i]) /\ \A j \in 1..m : j > i => ~Adds(node, rs[j])
    BY <1>6 DEF Clears, m
  <2>2. Removes(node, t[i]) /\ \A j \in 1..m + n : j > i => ~Adds(node, t[j])
    BY <1>2, <1>3, <2>1 DEF Adds
  <2> QED
    BY <1>2, <1>4, <2>2 DEF Clears
<1>7. ASSUME Excuses(node, rs) PROVE Excuses(node, t)
  <2>1. PICK i \in 1..m, j \in 1..m :
            /\ i < j /\ rs[i].node = node /\ rs[j].node = node
            /\ rs[i].outcome = "failed" /\ rs[j].outcome = "xfailed"
    BY <1>7 DEF Excuses, m
  <2> QED
    BY <1>2, <1>4, <2>1 DEF Excuses
<1>8. Honest(v, node, t)
  BY <1>5, <1>6, <1>7 DEF Honest
<1> QED
  BY <1>8 DEF t

(* The verdict on an attempt that reported.                                *)
LEMMA ReportedHonest ==
    ASSUME NEW node, NEW rs, Reported(node, rs)
    PROVE  OwnReports(node, rs) # {} /\ Honest(Verdict(node, rs), node, rs)
<1> DEFINE n == Len(rs)
           own == OwnReports(node, rs)
<1>1. n \in Nat /\ n # 0 /\ DOMAIN rs = 1..n /\ n \in 1..n
  BY SeqFacts DEF Reported
<1>2. \A i \in 1..n : rs[i].node = node /\ ~rs[i].rerun
  BY DEF Reported, OwnIn
<1>3. own = {rs[i] : i \in {i \in 1..n : ~rs[i].sub}}
  <2> DEFINE Mine == {i \in DOMAIN rs : /\ rs[i].node = node /\ ~rs[i].sub
                                       /\ \A j \in DOMAIN rs : j >= i => ~rs[j].rerun}
  <2>1. Mine = {i \in 1..n : ~rs[i].sub}
    BY <1>1, <1>2
  <2> QED
    BY <2>1 DEF OwnReports
<1>4. ~rs[n].sub /\ rs[n] \in own
  BY <1>1, <1>3 DEF Reported
<1>5. \A i \in 1..n : ~rs[i].sub => i = n \/ (i = n - 1 /\ TornDown(rs[n])) \/ PassedSetup(rs[i])
  <2> TAKE i \in 1..n
  <2> SUFFICES ASSUME ~rs[i].sub PROVE i = n \/ (i = n - 1 /\ TornDown(rs[n])) \/ PassedSetup(rs[i])
    OBVIOUS
  <2>1. i >= n - 1 \/ PassedSetup(rs[i])
    BY DEF Reported
  <2>2. n # 1 => TornDown(rs[n])
    BY DEF Reported
  <2>3. i >= n - 1 => i = n \/ (i = n - 1 /\ n # 1)
    <3> HIDE DEF n
    <3>1. i \in Int /\ i >= 1 /\ i <= n
      BY <1>1
    <3> QED
      BY <1>1, <3>1
  <2> QED
    BY <2>1, <2>2, <2>3
<1>6. /\ Verdict(node, rs) = "failed" => \E r \in own : r.outcome = "failed"
      /\ Verdict(node, rs) = "passed" =>
            /\ \A r \in own : r.outcome # "failed"
            /\ \E r \in own : r.outcome \in {"skipped", "xfailed"} \/ (r.phase = "call" /\ r.outcome = "passed")
  BY DEF Verdict
<1> HIDE DEF own, n
<1>7. ASSUME Verdict(node, rs) = "failed" PROVE Fatal(node, rs) \/ Excuses(node, rs)
  <2>1. PICK i \in 1..n : ~rs[i].sub /\ rs[i].outcome = "failed"
    BY <1>3, <1>6, <1>7
  <2>2. Adds(node, rs[i])
    BY <1>2, <2>1 DEF Adds
  <2>3. ~PassedSetup(rs[i])
    BY <2>1 DEF PassedSetup
  <2>4. CASE i = n
    <3>1. \A j \in 1..n : ~(j > n)
      BY <1>1
    <3> QED
      BY <2>2, <2>4, <3>1 DEF Fatal, n
  <2>5. CASE i = n - 1 /\ TornDown(rs[n])
    <3>1. i < n /\ \A j \in 1..n : j > i => j = n
      BY <1>1, <2>5
    <3>2. CASE rs[n].outcome = "xfailed"
      BY <1>1, <1>2, <2>1, <3>1, <3>2 DEF Excuses, n
    <3>3. CASE rs[n].outcome # "xfailed"
      <4>1. ~Removes(node, rs[n])
        BY <2>5, <3>3 DEF TornDown, Removes
      <4> QED
        BY <2>2, <3>1, <4>1 DEF Fatal, n
    <3> QED
      BY <3>2, <3>3
  <2> QED
    BY <1>5, <2>1, <2>3, <2>4, <2>5
<1>8. ASSUME Verdict(node, rs) = "passed" PROVE Clears(node, rs)
  <2>1. \A r \in own : r.outcome # "failed"
    BY <1>6, <1>8
  <2>2. PICK i \in 1..n : /\ ~rs[i].sub
                          /\ \/ rs[i].outcome \in {"skipped", "xfailed"}
                             \/ rs[i].phase = "call" /\ rs[i].outcome = "passed"
    BY <1>3, <1>6, <1>8
  <2>3. Removes(node, rs[i])
    BY <1>2, <2>2 DEF Removes
  <2>4. ~PassedSetup(rs[i])
    BY <2>2 DEF PassedSetup
  <2>5. \A j \in 1..n : j > i => j = n
    BY <1>1, <1>5, <2>2, <2>4
  <2>6. ~Adds(node, rs[n])
    BY <1>4, <2>1 DEF Adds
  <2> QED
    BY <2>3, <2>5, <2>6 DEF Clears, n
<1>9. Honest(Verdict(node, rs), node, rs)
  BY <1>7, <1>8 DEF Honest
<1> QED
  BY <1>4, <1>9 DEF own

(* The attempts before the last rerun do not count.                        *)
LEMMA OwnAfter ==
    ASSUME NEW node, NEW pre, IsSeq(pre), NEW rs, IsSeq(rs), \A i \in 1..Len(rs) : ~rs[i].rerun,
           pre = <<>> \/ EndsInRerun(pre)
    PROVE  OwnReports(node, pre \o rs) = OwnReports(node, rs)
<1> DEFINE t == pre \o rs
           m == Len(pre)
           n == Len(rs)
           Mine(s, i) == s[i].node = node /\ ~s[i].sub /\ \A j \in DOMAIN s : j >= i => ~s[j].rerun
<1>1. m \in Nat /\ n \in Nat /\ DOMAIN rs = 1..n /\ (pre = <<>> <=> m = 0)
  BY SeqFacts
<1>2. IsSeq(t) /\ Len(t) = m + n /\ (\A i \in 1..m : t[i] = pre[i]) /\ \A i \in 1..n : t[m + i] = rs[i]
  BY ConcatFacts
<1>3. DOMAIN t = 1..m + n
  <2> HIDE DEF t
  <2> QED
    BY <1>2, SeqFacts
<1>4. m # 0 => pre[m].rerun
  BY <1>1 DEF EndsInRerun
<1>5. \A i \in 1..n : ~rs[i].rerun
  OBVIOUS
<1>6. /\ OwnReports(node, rs) = {rs[i] : i \in {i \in DOMAIN rs : Mine(rs, i)}}
      /\ OwnReports(node, t) = {t[i] : i \in {i \in DOMAIN t : Mine(t, i)}}
  BY DEF OwnReports
<1> HIDE DEF t, m, n
<1>7. ASSUME NEW i \in 1..m + n, Mine(t, i) PROVE i - m \in 1..n /\ t[i] = rs[i - m] /\ Mine(rs, i - m)
  <2>1. i > m
    <3> SUFFICES ASSUME i <= m PROVE FALSE
      BY <1>1
    <3>1. m \in DOMAIN t /\ m \in 1..m /\ m >= i /\ m # 0
      BY <1>1, <1>3
    <3>2. t[m].rerun
      BY <1>2, <1>4, <3>1
    <3> QED
      BY <1>7, <3>1, <3>2
  <2>2. i - m \in 1..n /\ m + (i - m) = i
    BY <1>1, <2>1
  <2>3. t[i] = rs[i - m]
    BY <1>2, <2>2
  <2> QED
    BY <1>1, <1>5, <1>7, <2>2, <2>3
<1>8. ASSUME NEW i \in 1..n, Mine(rs, i) PROVE m + i \in 1..m + n /\ t[m + i] = rs[i] /\ Mine(t, m + i)
  <2>1. m + i \in 1..m + n /\ t[m + i] = rs[i]
    BY <1>1, <1>2
  <2>2. ASSUME NEW j \in DOMAIN t, j >= m + i PROVE ~t[j].rerun
    <3>1. j - m \in 1..n /\ m + (j - m) = j
      BY <1>1, <1>3, <2>2
    <3>2. t[j] = rs[j - m]
      BY <1>2, <3>1
    <3> QED
      BY <1>5, <3>1, <3>2
  <2> QED
    BY <1>8, <2>1, <2>2
<1>9. OwnReports(node, t) = OwnReports(node, rs)
  <2> HIDE DEF Mine
  <2>1. \A x \in OwnReports(node, t) : x \in OwnReports(node, rs)
    BY <1>1, <1>3, <1>6, <1>7
  <2>2. \A x \in OwnReports(node, rs) : x \in OwnReports(node, t)
    BY <1>1, <1>3, <1>6, <1>8
  <2> QED
    BY <2>1, <2>2
<1> QED
  BY <1>9 DEF t

(* Reporting everything twice says nothing new.                            *)
LEMMA OwnTwice ==
    ASSUME NEW node, NEW rs, Reported(node, rs)
    PROVE  OwnReports(node, rs \o rs) = OwnReports(node, rs)
<1> DEFINE t == rs \o rs
           n == Len(rs)
           Mine(s, i) == s[i].node = node /\ ~s[i].sub /\ \A j \in DOMAIN s : j >= i => ~s[j].rerun
<1>1. n \in Nat /\ DOMAIN rs = 1..n /\ IsSeq(rs)
  BY SeqFacts DEF Reported
<1>2. IsSeq(t) /\ Len(t) = n + n /\ (\A i \in 1..n : t[i] = rs[i]) /\ \A i \in 1..n : t[n + i] = rs[i]
  BY <1>1, ConcatFacts
<1>3. DOMAIN t = 1..n + n
  <2> HIDE DEF t
  <2> QED
    BY <1>2, SeqFacts
<1>4. \A i \in 1..n : ~rs[i].rerun
  BY DEF Reported, OwnIn
<1>5. /\ OwnReports(node, rs) = {rs[i] : i \in {i \in DOMAIN rs : Mine(rs, i)}}
      /\ OwnReports(node, t) = {t[i] : i \in {i \in DOMAIN t : Mine(t, i)}}
  BY DEF OwnReports
<1> HIDE DEF t, n
<1>6. \A i \in 1..n + n : i \in 1..n \/ (i - n \in 1..n /\ n + (i - n) = i)
  BY <1>1
<1>7. \A i \in 1..n + n : \E k \in 1..n : t[i] = rs[k]
  BY <1>2, <1>6
<1>8. \A i \in 1..n + n : ~t[i].rerun
  BY <1>4, <1>7
<1>9. \A i \in 1..n : i \in 1..n + n
  BY <1>1
<1>10. ASSUME NEW x \in OwnReports(node, t) PROVE x \in OwnReports(node, rs)
  <2>1. PICK i \in 1..n + n : Mine(t, i) /\ x = t[i]
    BY <1>3, <1>5
  <2>2. PICK k \in 1..n : t[i] = rs[k]
    BY <1>7
  <2>3. Mine(rs, k)
    BY <1>1, <1>4, <2>1, <2>2
  <2> HIDE DEF Mine
  <2> QED
    BY <1>1, <1>5, <2>1, <2>2, <2>3
<1>11. ASSUME NEW x \in OwnReports(node, rs) PROVE x \in OwnReports(node, t)
  <2>1. PICK i \in 1..n : Mine(rs, i) /\ x = rs[i]
    BY <1>1, <1>5
  <2>2. Mine(t, i) /\ x = t[i]
    BY <1>2, <1>3, <1>8, <2>1
  <2> HIDE DEF Mine
  <2> QED
    BY <1>3, <1>5, <1>9, <2>2
<1>12. OwnReports(node, t) = OwnReports(node, rs)
  BY <1>10, <1>11
<1> QED
  BY <1>12 DEF t

LEMMA SameVerdict ==
    ASSUME NEW node, NEW rs, NEW ss, OwnReports(node, rs) = OwnReports(node, ss)
    PROVE  Verdict(node, rs) = Verdict(node, ss)
  BY DEF Verdict

(* All that an item reports: about itself, at least once after the last    *)
(* rerun, and to the same effect as the verdict on it.                     *)
Told(node, rs) ==
    About(node, rs) /\ OwnReports(node, rs) # {} /\ Honest(Verdict(node, rs), node, rs)

LEMMA AboutMore ==
    ASSUME NEW node, NEW rs, About(node, rs), NEW ss, About(node, ss)
    PROVE  About(node, rs \o ss)
  BY MoreReports, ConcatFacts DEF About, ReportsOK

LEMMA ReportedTold ==
    ASSUME NEW node, NEW rs, Reported(node, rs)
    PROVE  Told(node, rs) /\ Told(node, rs \o rs)
<1>1. About(node, rs) /\ IsSeq(rs)
  BY ReportedAbout DEF Reported
<1>2. OwnReports(node, rs) # {} /\ Honest(Verdict(node, rs), node, rs)
  BY ReportedHonest
<1> DEFINE t == rs \o rs
<1>3. About(node, t)
  BY <1>1, AboutMore
<1>4. OwnReports(node, t) = OwnReports(node, rs)
  BY OwnTwice
<1>5. Honest(Verdict(node, rs), node, t)
  BY <1>1, <1>2, HonestAfter
<1> HIDE DEF t
<1>6. Told(node, t)
  BY <1>2, <1>3, <1>4, <1>5, SameVerdict DEF Told
<1> QED
  BY <1>1, <1>2, <1>6 DEF Told, t

LEMMA ToldAfter ==
    ASSUME NEW node, NEW pre, About(node, pre), NEW rs, Reported(node, rs), pre = <<>> \/ EndsInRerun(pre)
    PROVE  Told(node, pre \o rs)
<1>1. About(node, rs) /\ IsSeq(rs) /\ IsSeq(pre) /\ \A i \in 1..Len(rs) : ~rs[i].rerun
  BY ReportedAbout DEF Reported, OwnIn, About, ReportsOK
<1>2. OwnReports(node, rs) # {} /\ Honest(Verdict(node, rs), node, rs)
  BY ReportedHonest
<1> DEFINE t == pre \o rs
<1>3. About(node, t)
  BY <1>1, AboutMore
<1>4. OwnReports(node, t) = OwnReports(node, rs)
  BY <1>1, OwnAfter
<1>5. Honest(Verdict(node, rs), node, t)
  BY <1>1, <1>2, HonestAfter
<1> HIDE DEF t
<1>6. Told(node, t)
  BY <1>2, <1>3, <1>4, <1>5, SameVerdict DEF Told
<1> QED
  BY <1>6 DEF t

---------------------------------------------------------------------------
(* What all attempts log; the last one that was made logs everything.      *)
LEMMA RerunFacts ==
    ASSUME NEW opts, NEW it, NEW bs, IsSeq(bs), bs # <<>>, \A b \in ToSet(bs) : BehaviourOK(b)
    PROVE  Told(it.id, Rerun(opts, it, bs).reports)
<1> DEFINE attempts == Attempts(opts, it, bs)
           n == Final(attempts)
           tried == SubSeq(attempts, 1, n)
           ss == [k \in DOMAIN tried |-> Attempt(tried[k].reports, k = Len(attempts))]
<1>1. DOMAIN attempts = DOMAIN bs /\ attempts = [k \in DOMAIN attempts |-> attempts[k]]
      /\ \A k \in DOMAIN bs : attempts[k] = RunOneBody(opts, it, bs[k])
  BY DEF Attempts
<1>2. Rerun(opts, it, bs).reports = FlattenSeq(ss)
  BY DEF Rerun, Logged
<1> HIDE DEF attempts
<1>3. IsSeq(attempts) /\ attempts # <<>> /\ Len(attempts) \in Nat
  <2>1. IsSeq(attempts) /\ Len(attempts) = Len(bs)
    BY <1>1, MapFacts
  <2> QED
    BY <2>1, SeqFacts
<1>4. \A k \in DOMAIN attempts : Reported(it.id, attempts[k].reports)
  BY <1>1, OneBodyFacts DEF ToSet
<1>5. /\ n \in 1..Len(attempts) /\ (n = Len(attempts) \/ FailedAt(attempts[n].reports) = {})
      /\ \A k \in 1..n - 1 : k # Len(attempts) /\ FailedAt(attempts[k].reports) # {}
  BY <1>3, FinalFacts
<1> HIDE DEF n
<1>6. IsSeq(tried) /\ Len(tried) = n /\ \A k \in 1..n : tried[k] = attempts[k]
  BY <1>3, <1>5, SubSeqFacts
<1> HIDE DEF tried
<1>7. DOMAIN tried = 1..n /\ DOMAIN attempts = 1..Len(attempts) /\ n \in 1..n
      /\ \A k \in 1..n : k \in DOMAIN attempts
  BY <1>3, <1>5, <1>6, SeqFacts
<1>8. DOMAIN ss = DOMAIN tried /\ ss = [k \in DOMAIN ss |-> ss[k]]
      /\ \A k \in DOMAIN tried : ss[k] = Attempt(tried[k].reports, k = Len(attempts))
  OBVIOUS
<1> HIDE DEF ss
<1>9. ASSUME NEW k \in 1..n
      PROVE  /\ About(it.id, ss[k]) /\ (k = n => ss[k] = attempts[n].reports)
             /\ k < n => EndsInRerun(ss[k])
  <2> DEFINE rs == attempts[k].reports
             last == k = Len(attempts)
  <2>1. ss[k] = Attempt(rs, last)
    BY <1>6, <1>7, <1>8
  <2>2. About(it.id, rs)
    BY <1>4, <1>7, ReportedAbout
  <2>3. k = n => last \/ FailedAt(rs) = {}
    BY <1>5
  <2>4. k < n => ~last /\ FailedAt(rs) # {}
    <3>1. k < n => k \in 1..n - 1
      BY <1>3, <1>5
    <3> QED
      BY <1>5, <3>1
  <2>5. rs = attempts[k].reports
    OBVIOUS
  <2> HIDE DEF rs, last
  <2>6. /\ About(it.id, Attempt(rs, last)) /\ (last \/ FailedAt(rs) = {} => Attempt(rs, last) = rs)
        /\ last \/ FailedAt(rs) = {} \/ EndsInRerun(Attempt(rs, last))
    BY <2>2, AttemptFacts
  <2> QED
    BY <2>1, <2>3, <2>4, <2>5, <2>6
<1>10. IsSeq(ss) /\ Len(ss) = n /\ n # 0 /\ \A k \in 1..n : IsSeq(ss[k])
  <2>1. IsSeq(ss) /\ Len(ss) = n
    BY <1>6, <1>7, <1>8, MapFacts
  <2> QED
    BY <1>5, <1>9, <2>1 DEF About, ReportsOK
<1>11. PICK pre : JoinedLast(ss, pre)
  BY <1>10, FlattenLast
<1>12. FlattenSeq(ss) = pre \o attempts[n].reports /\ IsSeq(pre)
  BY <1>7, <1>9, <1>10, <1>11 DEF JoinedLast
<1>13. pre = <<>> \/ EndsInRerun(pre)
  <2> SUFFICES ASSUME pre # <<>> PROVE EndsInRerun(pre)
    OBVIOUS
  <2>1. n > 1 /\ (Len(ss[n - 1]) # 0 => Len(pre) # 0 /\ pre[Len(pre)] = ss[n - 1][Len(ss[n - 1])])
    BY <1>10, <1>11 DEF JoinedLast
  <2>2. n - 1 \in 1..n /\ n - 1 < n
    BY <1>3, <1>5, <2>1
  <2>3. EndsInRerun(ss[n - 1])
    BY <1>9, <2>2
  <2> QED
    BY <2>1, <2>3 DEF EndsInRerun
<1>14. About(it.id, pre)
  <2>1. \A x \in ToSet(FlattenSeq(ss)) : ReportOK(x) /\ x.node = it.id
    <3>1. \A x : x \in ToSet(FlattenSeq(ss)) <=> \E k \in 1..Len(ss) : x \in ToSet(ss[k])
      BY <1>10, FlattenFacts
    <3> QED
      BY <1>9, <1>10, <3>1 DEF About, ReportsOK
  <2>2. IsSeq(attempts[n].reports)
    BY <1>4, <1>7 DEF Reported
  <2>3. ToSet(pre) \subseteq ToSet(FlattenSeq(ss))
    BY <1>12, <2>2, ConcatFacts
  <2> QED
    BY <1>12, <2>1, <2>3 DEF About, ReportsOK
<1>15. Reported(it.id, attempts[n].reports)
  BY <1>4, <1>7
<1> QED
  BY <1>2, <1>12, <1>13, <1>14, <1>15, ToldAfter

LEMMA NothingTold ==
    ASSUME NEW node
    PROVE  About(node, <<>>) /\ OwnReports(node, <<>>) = {} /\ Verdict(node, <<>>) = "unreported"
           /\ Honest(Verdict(node, <<>>), node, <<>>)
<1>1. About(node, <<>>)
  BY NoReports, EmptyFacts DEF About
<1>2. OwnReports(node, <<>>) = {}
  BY EmptyFacts DEF OwnReports
<1>3. Verdict(node, <<>>) = "unreported"
  BY <1>2 DEF Verdict
<1> QED
  BY <1>1, <1>2, <1>3 DEF Honest

LEMMA RunOneFacts ==
    ASSUME NEW opts, NEW it, NEW bs, IsSeq(bs), bs # <<>>, \A b \in ToSet(bs) : BehaviourOK(b)
    PROVE  /\ About(it.id, RunOne(opts, it, bs).reports)
           /\ RunOne(opts, it, bs).end \in {"ok", "usage", "error"}
           /\ RunOne(opts, it, bs).end = "ok" => OwnReports(it.id, RunOne(opts, it, bs).reports) # {}
           /\ Honest(Verdict(it.id, RunOne(opts, it, bs).reports), it.id, RunOne(opts, it, bs).reports)
<1> DEFINE b == Head(bs)
           r == RunOne(opts, it, bs)
           once == RunOneBody(opts, it, b).reports
           again == Rerun(opts, it, bs).reports
           wrapped == <<FromErr(it.id, "setup", "fail")>>
<1>1. b \in ToSet(bs)
  BY SeqFacts
<1>2. BehaviourOK(b)
  BY <1>1
<1> HIDE DEF b
<1>3. Told(it.id, once) /\ Told(it.id, once \o once) /\ Told(it.id, again) /\ Told(it.id, wrapped)
  <2>1. Reported(it.id, once) /\ Reported(it.id, wrapped)
    BY <1>2, OneBodyFacts, FromErrFacts DEF Phases
  <2>2. Told(it.id, again)
    BY RerunFacts
  <2> HIDE DEF once, again, wrapped
  <2> QED
    BY <2>1, <2>2, ReportedTold
<1>4. \/ r.end = "ok" /\ r.reports \in {once, again, wrapped, once \o once}
      \/ r.end \in {"usage", "error"} /\ r.reports = <<>>
  <2>1. CASE b.wrapper = "fail"
    BY <2>1 DEF RunOne, As, Only, b
  <2>2. CASE b.wrapper = "ok" /\ b.protocol = "native"
    BY <2>2 DEF RunOne, As, Only, b
  <2>3. CASE b.wrapper = "ok" /\ b.protocol = "rerun"
    BY <2>3 DEF RunOne, As, Only, b
  <2>4. CASE b.wrapper = "ok" /\ b.protocol = "twice"
    <3> DEFINE body == RunOneBody(opts, it, b)
    <3>1. r = As(Twice(body), "ok")
      BY <2>4 DEF RunOne, b
    <3>2. "reports" \in DOMAIN body
      BY DEF RunOneBody
    <3>3. once = body.reports
      OBVIOUS
    <3> HIDE DEF body, once, r
    <3>4. Twice(body).reports = once \o once
      BY <3>2, <3>3 DEF Twice
    <3>5. r.end = "ok" /\ r.reports = once \o once
      BY <3>1, <3>4 DEF As
    <3> QED
      BY <3>5
  <2>5. CASE b.wrapper = "ok" /\ b.protocol = "usage"
    BY <2>5 DEF RunOne, As, Only, b
  <2>6. CASE b.wrapper = "ok" /\ b.protocol = "error"
    BY <2>6 DEF RunOne, As, Only, b
  <2> QED
    BY <1>2, <2>1, <2>2, <2>3, <2>4, <2>5, <2>6 DEF BehaviourOK
<1> HIDE DEF r, once, again, wrapped
<1>5. /\ About(it.id, r.reports) /\ r.end \in {"ok", "usage", "error"}
      /\ r.end = "ok" => OwnReports(it.id, r.reports) # {}
      /\ Honest(Verdict(it.id, r.reports), it.id, r.reports)
  BY <1>3, <1>4, NothingTold DEF Told
<1> QED
  BY <1>5 DEF r

(* What a verdict says.                                                    *)
LEMMA VerdictFacts ==
    ASSUME NEW node, NEW rs
    PROVE  /\ Verdict(node, rs) = "failed" => \E r \in ToSet(rs) : r.outcome = "failed"
           /\ Verdict(node, rs) = "unreported" => OwnReports(node, rs) = {}
<1>1. OwnReports(node, rs) \subseteq ToSet(rs)
  BY DEF OwnReports, ToSet
<1> QED
  BY <1>1 DEF Verdict

---------------------------------------------------------------------------
(* Selection: what it leaves is a list.                                    *)

LEMMA ConcatSeq ==
    ASSUME NEW s, IsSeq(s), NEW t, IsSeq(t)
    PROVE  IsSeq(s \o t)
  BY ConcatFacts

LEMMA HookOrderFacts ==
    ASSUME NEW hooks, IsSeq(hooks)
    PROVE  IsSeq(HookOrder(hooks)) /\ IsSeq(Deferred(hooks))
<1>1. PICK A1, B1, C1, D1 : HookOrder(hooks) = Kept(hooks, A1) \o Kept(hooks, B1) \o Kept(hooks, C1) \o Kept(hooks, D1)
  BY DEF HookOrder, Where
<1>2. PICK E1 : Deferred(hooks) = Kept(hooks, E1)
  BY DEF Deferred, Where
<1>3. \A S : IsSeq(Kept(hooks, S))
  BY KeptFacts
<1> DEFINE a == Kept(hooks, A1)
           b == Kept(hooks, B1)
           c == Kept(hooks, C1)
           d == Kept(hooks, D1)
<1>4. IsSeq(a) /\ IsSeq(b) /\ IsSeq(c) /\ IsSeq(d)
  BY <1>3
<1>5. HookOrder(hooks) = a \o b \o c \o d
  BY <1>1
<1> HIDE DEF a, b, c, d
<1>6. IsSeq(a \o b)
  BY <1>4, ConcatSeq
<1>7. IsSeq(a \o b \o c)
  BY <1>4, <1>6, ConcatSeq
<1>8. IsSeq(a \o b \o c \o d)
  BY <1>4, <1>7, ConcatSeq
<1> QED
  BY <1>2, <1>3, <1>5, <1>8

LEMMA CallHookFacts ==
    ASSUME NEW h, NEW nodes, IsSeq(nodes)
    PROVE  IsSeq(CallHook(h, nodes))
<1>1. CASE h.does = "reverse"
  BY <1>1, ReverseFacts DEF CallHook
<1>2. CASE h.does = "drop"
  <2>1. PICK S : CallHook(h, nodes) = Kept(nodes, S)
    BY <1>2 DEF CallHook, Where
  <2> QED
    BY <2>1, KeptFacts
<1>3. CASE h.does = "mark"
  <2> DEFINE t == [i \in DOMAIN nodes |-> [nodes[i] EXCEPT !.tags = @ \cup {h.tag}]]
  <2>1. CallHook(h, nodes) = t
    BY <1>3 DEF CallHook
  <2>2. DOMAIN t = DOMAIN nodes /\ t = [i \in DOMAIN t |-> t[i]]
    OBVIOUS
  <2> HIDE DEF t
  <2> QED
    BY <2>1, <2>2, MapFacts
<1>4. CASE h.does = "substitute" /\ nodes # <<>>
  <2> DEFINE n == Len(nodes) - 1
             f == <<Foreign(nodes)>>
  <2>1. CallHook(h, nodes) = SubSeq(nodes, 1, n) \o f
    BY <1>4 DEF CallHook, Front
  <2>2. n \in Int /\ n <= Len(nodes)
    BY SeqFacts
  <2>3. IsSeq(f)
    BY OneFacts
  <2> HIDE DEF n, f
  <2>4. IsSeq(SubSeq(nodes, 1, n))
    <3>1. 1 \in Int /\ 1 >= 1 /\ n \in Int /\ n <= Len(nodes)
      BY <2>2
    <3> QED
      BY ONLY <3>1, IsSeq(nodes), SubSeqFacts
  <2> QED
    BY <2>1, <2>3, <2>4, ConcatSeq
<1>5. CASE h.does = "substitute" /\ nodes = <<>>
  BY <1>5 DEF CallHook
<1>6. CASE h.does \notin {"reverse", "drop", "mark", "substitute"}
  BY <1>6 DEF CallHook
<1> QED
  BY <1>1, <1>2, <1>3, <1>4, <1>5, <1>6

LEMMA CallNothing ==
    ASSUME NEW h
    PROVE  CallHook(h, <<>>) = <<>>
<1> DEFINE e == <<>>
<1>1. IsSeq(e) /\ Len(e) = 0 /\ ToSet(e) = {} /\ DOMAIN e = {}
  BY EmptyFacts
<1>2. CASE h.does = "reverse"
  <2>1. IsSeq(Reverse(e)) /\ Len(Reverse(e)) = 0
    BY <1>1, ReverseFacts
  <2>2. Reverse(e) = <<>>
    BY <2>1, SeqFacts
  <2> QED
    BY <1>2, <2>2 DEF CallHook
<1>3. CASE h.does = "drop"
  <2>1. PICK S : CallHook(h, e) = Kept(e, S)
    BY <1>3 DEF CallHook, Where
  <2>2. Kept(e, S) = e
    BY <1>1, KeptFacts
  <2> QED
    BY <2>1, <2>2
<1>4. CASE h.does = "mark"
  <2> DEFINE t == [i \in DOMAIN e |-> [e[i] EXCEPT !.tags = @ \cup {h.tag}]]
  <2>1. CallHook(h, e) = t
    BY <1>4 DEF CallHook
  <2>2. DOMAIN t = DOMAIN e /\ t = [i \in DOMAIN t |-> t[i]]
    OBVIOUS
  <2> HIDE DEF t
  <2>3. IsSeq(t) /\ Len(t) = 0
    BY <1>1, <2>2, MapFacts
  <2>4. t = <<>>
    BY <2>3, SeqFacts
  <2> QED
    BY <2>1, <2>4
<1>5. CASE h.does \notin {"reverse", "drop", "mark"}
  BY <1>5 DEF CallHook
<1> QED
  BY <1>2, <1>3, <1>4, <1>5

CalledHooks(hooks, nodes) == FoldLeft(LAMBDA ns, h : CallHook(h, ns), nodes, hooks)

HookStep(c, ns, h) == CallHook(h, ns)
HookHolds(c, i, ns) == IsSeq(ns) /\ (c = <<>> => ns = <<>>)
Hooking == INSTANCE Folding WITH Step <- HookStep, Holds <- HookHolds

LEMMA CalledFold ==
    ASSUME NEW hooks, NEW nodes, NEW c
    PROVE  CalledHooks(hooks, nodes) = Hooking!Fold(c, nodes, hooks)
  BY DEF CalledHooks, Hooking!Fold, HookStep, FoldLeft, MapThenFoldSet, Max, Hooking!Greatest

LEMMA CalledFacts ==
    ASSUME NEW hooks, IsSeq(hooks), NEW nodes, IsSeq(nodes)
    PROVE  IsSeq(CalledHooks(hooks, nodes)) /\ (nodes = <<>> => CalledHooks(hooks, nodes) = <<>>)
<1>1. Len(hooks) \in Nat /\ DOMAIN hooks = 1..Len(hooks)
  BY SeqFacts
<1>2. \A i \in 1..Len(hooks) : \A s : HookHolds(nodes, i - 1, s) => HookHolds(nodes, i, HookStep(nodes, s, hooks[i]))
  BY CallHookFacts, CallNothing DEF HookHolds, HookStep
<1>3. HookHolds(nodes, 0, nodes)
  BY DEF HookHolds
<1>4. HookHolds(nodes, Len(hooks), Hooking!Fold(nodes, nodes, hooks))
  BY <1>1, <1>2, <1>3, NaturalInduction, Hooking!FoldHolds DEF Hooking!Induction
<1> QED
  BY <1>4, CalledFold DEF HookHolds

LEMMA ReadBackFacts ==
    ASSUME NEW its, NEW nodes, IsSeq(nodes)
    PROVE  IsSeq(ReadBack(its, nodes))
<1> DEFINE ss == [k \in DOMAIN nodes |->
                     NodeItems(its, nodes[k], SameId(its, nodes[k].id), Nth(nodes, k))]
<1>1. ASSUME NEW k \in DOMAIN nodes PROVE IsSeq(ss[k])
  <2>1. ss[k] = <<>> \/ \E x : ss[k] = <<x>>
    BY DEF NodeItems
  <2> HIDE DEF ss
  <2> QED
    BY <2>1, OneFacts, EmptyFacts
<1>2. DOMAIN ss = DOMAIN nodes /\ ss = [k \in DOMAIN ss |-> ss[k]]
  OBVIOUS
<1>3. ReadBack(its, nodes) = FlattenSeq(ss)
  BY DEF ReadBack
<1> HIDE DEF ss
<1> QED
  BY <1>1, <1>2, <1>3, FlattenMap

LEMMA RunHooksFacts ==
    ASSUME NEW hooks, IsSeq(hooks), NEW its, IsSeq(its)
    PROVE  IsSeq(RunHooks(hooks, its).items)
<1> DEFINE nodes == NodesOf(its)
           called == CalledHooks(hooks, nodes)
<1>1. DOMAIN nodes = DOMAIN its /\ nodes = [i \in DOMAIN nodes |-> nodes[i]]
  BY DEF NodesOf
<1>2. RunHooks(hooks, its).items \in {its, ReadBack(its, called)}
  BY DEF RunHooks, CalledHooks
<1> HIDE DEF nodes
<1>3. IsSeq(called)
  BY <1>1, MapFacts, CalledFacts
<1> HIDE DEF called
<1> QED
  BY <1>2, <1>3, ReadBackFacts

LEMMA ApplySelectionFacts ==
    ASSUME NEW opts, NEW its, IsSeq(its)
    PROVE  /\ IsSeq(ApplySelection(opts, its).kept)
           /\ ApplySelection(opts, its).error \in {"ok", "usage", "error"}
<1> DEFINE k == Keyword(opts, its)
<1>1. PICK S : k.kept = Kept(its, S)
  BY DEF Keyword, Partition, Where
<1>2. IsSeq(k.kept)
  BY <1>1, KeptFacts
<1> DEFINE a == AfterKeyword(opts, k)
<1>3. ApplySelection(opts, its) \in {Stopped(its, <<>>, "usage"), Stopped(its, <<>>, "error"), a}
  BY DEF ApplySelection
<1> HIDE DEF k
<1>4. /\ a.kept = k.kept \/ \E T : a.kept = Kept(k.kept, T)
      /\ a.error \in {"ok", "usage", "error"}
  BY DEF AfterKeyword, Stopped, Where
<1> HIDE DEF a
<1>5. IsSeq(a.kept)
  BY <1>2, <1>4, KeptFacts
<1> QED
  BY <1>3, <1>4, <1>5 DEF Stopped

LEMMA SplitFacts ==
    ASSUME NEW opts, NEW c, NEW its, IsSeq(its), NEW group
    PROVE  IsSeq(SplitGroup(opts, c, its, group)) /\ IsSeq(ApplySplit(opts, c, its))
<1>1. ASSUME NEW g PROVE IsSeq(SplitGroup(opts, c, its, g))
  <2>1. PICK S : SplitGroup(opts, c, its, g) = At(its, Kept(Indices(its), S))
    BY DEF SplitGroup, InGroup, Where
  <2> DEFINE order == Kept(Indices(its), S)
  <2>2. IsSeq(order) /\ ToSet(order) \subseteq DOMAIN its
    BY IndicesFacts, KeptFacts
  <2> HIDE DEF order
  <2>3. At(its, order) = [i \in DOMAIN order |-> its[order[i]]]
    BY DEF At
  <2>4. IsSeq(At(its, order))
    BY <2>2, <2>3, ElementsAt
  <2> QED
    BY <2>1, <2>4 DEF order
<1> QED
  BY <1>1 DEF ApplySplit

(* Positions in an order.                                                  *)
LEMMA LastFailedFacts ==
    ASSUME NEW opts, NEW c, NEW its, IsSeq(its)
    PROVE  IsSeq(LastFailed(opts, c, its).kept)
<1>1. PICK S, T : /\ Partition(its, LAMBDA it : Fails(c, it)).kept = Kept(its, S)
                  /\ Partition(its, LAMBDA it : Fails(c, it)).removed = Kept(its, T)
  BY DEF Partition, Where
<1> DEFINE p == Partition(its, LAMBDA it : Fails(c, it))
<1>2. LastFailed(opts, c, its).kept \in {its, <<>>, p.kept, p.kept \o p.removed}
  BY DEF LastFailed
<1>3. IsSeq(p.kept) /\ IsSeq(p.removed)
  BY <1>1, KeptFacts
<1> HIDE DEF p
<1>4. IsSeq(p.kept \o p.removed)
  BY <1>3, ConcatSeq
<1> QED
  BY <1>2, <1>3, <1>4, EmptyFacts

LEMMA StepwiseFacts ==
    ASSUME NEW opts, NEW c, NEW its, IsSeq(its)
    PROVE  IsSeq(Stepwise(opts, c, its))
<1> DEFINE at == {i \in DOMAIN its : c.resume # <<>> /\ its[i].id = c.resume[1].node}
           n == Len(its)
<1>1. Stepwise(opts, c, its) = its \/ (at # {} /\ Stepwise(opts, c, its) = SubSeq(its, Min(at), n))
  BY DEF Stepwise
<1>2. n \in Nat /\ DOMAIN its = 1..n
  BY SeqFacts
<1>3. at \in SUBSET (1..n)
  BY <1>2
<1> HIDE DEF at
<1>4. ASSUME at # {} PROVE IsSeq(SubSeq(its, Min(at), n))
  <2>1. Min(at) \in 1..n
    BY <1>2, <1>3, <1>4, LeastOf
  <2>2. Min(at) \in Int /\ Min(at) >= 1 /\ n \in Int /\ n <= Len(its)
    BY <1>2, <2>1
  <2> QED
    BY ONLY <2>2, IsSeq(its), SubSeqFacts
<1> QED
  BY <1>1, <1>4

LEMMA ByTimeFacts ==
    ASSUME NEW mtime, NEW s, IsSeq(s)
    PROVE  IsSeq(ByTime(mtime, s))
<1> DEFINE Before1(i, j) == \/ mtime[s[i].mod] > mtime[s[j].mod]
                            \/ mtime[s[i].mod] = mtime[s[j].mod] /\ i < j
           order == Sorted(DOMAIN s, LAMBDA i, j :
                               \/ mtime[s[i].mod] > mtime[s[j].mod]
                               \/ mtime[s[i].mod] = mtime[s[j].mod] /\ i < j)
           ranked(k) == CHOOSE i \in DOMAIN s : Cardinality({j \in DOMAIN s : Before1(j, i)}) = k - 1
<1>1. ByTime(mtime, s) = At(s, order)
  BY DEF ByTime
<1>2. order = [k \in 1..Cardinality(DOMAIN s) |-> ranked(k)]
  BY Zenon DEF Sorted
<1> HIDE DEF order, ranked
<1>3. DOMAIN order = 1..Cardinality(DOMAIN s)
  BY <1>2
<1>4. Cardinality(DOMAIN s) \in Nat
  <2>1. Len(s) \in Nat /\ DOMAIN s = 1..Len(s)
    BY SeqFacts
  <2> QED
    BY <2>1, FS_Interval, FS_CardinalityType
<1> DEFINE t == At(s, order)
<1>5. DOMAIN t = 1..Cardinality(DOMAIN s) /\ t = [i \in DOMAIN t |-> t[i]]
  BY <1>3 DEF At
<1> HIDE DEF t
<1>6. IsSeq(t)
  BY <1>4, <1>5, SeqIntro
<1> QED
  BY <1>1, <1>6 DEF t

LEMMA NewFirstFacts ==
    ASSUME NEW opts, NEW c, NEW mtime, NEW its, IsSeq(its)
    PROVE  IsSeq(NewFirst(opts, c, mtime, its))
<1>1. PICK S, T : NewFirst(opts, c, mtime, its) \in {its, ByTime(mtime, Kept(its, S)) \o ByTime(mtime, Kept(its, T))}
  BY DEF NewFirst, Where
<1>2. IsSeq(Kept(its, S)) /\ IsSeq(Kept(its, T))
  BY KeptFacts
<1>3. IsSeq(ByTime(mtime, Kept(its, S))) /\ IsSeq(ByTime(mtime, Kept(its, T)))
  BY <1>2, ByTimeFacts
<1> QED
  BY <1>1, <1>3, ConcatSeq

LEMMA ModifyFacts ==
    ASSUME NEW opts, NEW c, NEW mtime, NEW its, IsSeq(its)
    PROVE  /\ IsSeq(ModifyItems(opts, c, mtime, its).items)
           /\ ModifyItems(opts, c, mtime, its).total \in Nat
<1> DEFINE f == LastFailed(opts, c, its)
           s == Stepwise(opts, c, f.kept)
<1>1. IsSeq(f.kept)
  BY LastFailedFacts
<1>2. ModifyItems(opts, c, mtime, its) = CacheChoice(opts, c, mtime, f, s)
  BY DEF ModifyItems, AfterLastFailed
<1> HIDE DEF f
<1>3. IsSeq(s)
  BY <1>1, StepwiseFacts
<1> HIDE DEF s
<1>4. IsSeq(NewFirst(opts, c, mtime, s)) /\ Len(f.kept) \in Nat
  BY <1>1, <1>3, NewFirstFacts, SeqFacts
<1> QED
  BY <1>2, <1>4 DEF CacheChoice

---------------------------------------------------------------------------
(* The selection of a run.                                                 *)

SelectionOK(s) == IsSeq(s.items) /\ (s.error = NoCode => s.total \in Nat) /\ s.error \in Nat \cup {NoCode}

LEMMA FilteredFacts ==
    ASSUME RunsOK, IsSeq(items)
    PROVE  SelectionOK(Filtered)
<1> DEFINE listed == Where(items, LAMBDA it : ~Deselected(o, it))
           h == RunHooks(HookOrder(o.hooks), listed)
           p == ApplySelection(o, h.items)
           n == Len(items) - Len(listed)
           picked == Picked(p, n)
<1>1. PICK S : listed = Kept(items, S)
  BY DEF Where
<1>2. IsSeq(listed) /\ IsSeq(HookOrder(o.hooks))
  BY <1>1, KeptFacts, RunFacts, HookOrderFacts DEF OptionsOK
<1> HIDE DEF listed
<1>3. IsSeq(h.items)
  BY <1>2, RunHooksFacts
<1> HIDE DEF h
<1>4. IsSeq(p.kept) /\ p.error \in {"ok", "usage", "error"}
  BY <1>3, ApplySelectionFacts
<1> HIDE DEF p, n
<1>5. \A code \in {USAGE_ERROR, INTERNAL_ERROR} : SelectionOK(Failed(code))
  BY EmptyFacts DEF SelectionOK, Failed, USAGE_ERROR, INTERNAL_ERROR, NoCode
<1>6. SelectionOK(picked)
  <2>1. CASE p.error = "usage"
    BY <1>5, <2>1 DEF Picked
  <2>2. CASE p.error = "error"
    BY <1>5, <2>2 DEF Picked
  <2>3. CASE p.error = "ok"
    <3>1. picked.items = p.kept /\ picked.error = NoCode /\ picked.total = 0
      BY <2>3 DEF Picked, Failed
    <3> QED
      BY <1>4, <3>1 DEF SelectionOK, NoCode
  <2> QED
    BY <1>4, <2>1, <2>2, <2>3
<1>7. Filtered \in {Failed(USAGE_ERROR), Failed(INTERNAL_ERROR), picked}
  BY DEF Filtered, AfterDeselect, AfterHooks, listed, h, p, n
<1> HIDE DEF picked
<1> QED
  BY <1>5, <1>6, <1>7

LEMMA SelectedFacts ==
    ASSUME RunsOK, IsSeq(items), total \in Nat
    PROVE  SelectionOK(Selected)
<1> DEFINE f == Filtered
           its == ApplySplit(o, loaded, f.items)
           m == ModifyItems(o, loaded, Project.mtime, its)
           last == RunHooks(Deferred(o.hooks), m.items)
           after == AfterDeferred(m, last, f.removed)
<1>1. SelectionOK(f)
  BY FilteredFacts
<1>2. IsSeq(its)
  BY <1>1, SplitFacts DEF SelectionOK
<1>3. IsSeq(Deferred(o.hooks))
  BY RunFacts, HookOrderFacts DEF OptionsOK
<1>4. Selected = IF f.error # NoCode THEN f ELSE after
  BY DEF Selected, AfterFilters, AfterCache
<1> HIDE DEF f, its
<1>5. IsSeq(m.items) /\ m.total \in Nat
  BY <1>2, ModifyFacts
<1> HIDE DEF m
<1>6. IsSeq(last.items)
  BY <1>3, <1>5, RunHooksFacts
<1> HIDE DEF last
<1>7. SelectionOK(after)
  BY <1>5, <1>6, EmptyFacts DEF AfterDeferred, SelectionOK, Failed, INTERNAL_ERROR, NoCode
<1> HIDE DEF after
<1> QED
  BY <1>1, <1>4, <1>7

---------------------------------------------------------------------------
(* The reports and the items of a run.                                     *)

ListsOK == ReportsOK(reports) /\ IsSeq(items) /\ total \in Nat

LEMMA ChosenFacts ==
    ASSUME NEW p, NEW opts, NEW its, IsSeq(its)
    PROVE  IsSeq(ChosenByArgs(p, opts, its))
<1>1. PICK S : ChosenByArgs(p, opts, its) \in {its, Kept(its, S)}
  BY DEF ChosenByArgs, Where
<1> QED
  BY <1>1, KeptFacts

LEMMA FilterFacts ==
    ASSUME NEW opts, NEW c, NEW files, NEW its, IsSeq(its)
    PROVE  IsSeq(FilterCollected(opts, c, files, its))
<1>1. PICK S : FilterCollected(opts, c, files, its) \in {its, Kept(its, S)}
  BY DEF FilterCollected, Where
<1> QED
  BY <1>1, KeptFacts

(* Reordering keeps a list a list, of the same length.                     *)
LEMMA ReorderFacts ==
    ASSUME NEW its, IsSeq(its)
    PROVE  IsSeq(Reorder(its)) /\ Len(Reorder(its)) = Len(its)
<1>1. PICK order : Reorder(its) \in {its, [i \in DOMAIN its |-> its[order[i]]]}
  BY DEF Reorder, Ordered, Applied
<1> DEFINE t == [i \in DOMAIN its |-> its[order[i]]]
<1>2. DOMAIN t = DOMAIN its /\ t = [i \in DOMAIN t |-> t[i]]
  OBVIOUS
<1> HIDE DEF t
<1>3. IsSeq(t) /\ Len(t) = Len(its)
  BY <1>2, MapFacts
<1> QED
  BY <1>1, <1>3 DEF t

LEMMA CollectedLists ==
    ASSUME RunsOK, ListsOK, CollectItems
    PROVE  ListsOK'
<1> DEFINE p == Prepare(Project, o)
           c == Collect(p, o)
           kept == FilterCollected(o, loaded, Project.files, c.items)
<1>1. CollectedOK(p, o, c)
  BY RunFacts, PrepareFacts, CollectFacts
<1>2. c.status = "ok" => IsSeq(c.before)
  BY RunFacts DEF CollectedItemsOK
<1>3. /\ reports' = IF c.status = "ok" THEN c.reports ELSE <<>>
      /\ items' = IF c.status = "ok" THEN kept ELSE <<>>
      /\ total' = total
  BY DEF CollectItems
<1> HIDE DEF p, c
<1>4. c.status = "ok" => IsSeq(c.items)
  <2> SUFFICES ASSUME c.status = "ok" PROVE IsSeq(c.items)
    OBVIOUS
  <2>1. IsSeq(c.ordered)
    BY <1>1, <1>2, ReorderFacts DEF CollectedOK
  <2> QED
    BY <1>1, <2>1, ChosenFacts DEF CollectedOK
<1>5. c.status = "ok" => IsSeq(kept)
  BY <1>4, FilterFacts
<1> HIDE DEF kept
<1>6. ReportsOK(reports')
  BY <1>1, <1>3, NoReports, FileReportsOK DEF CollectedOK
<1>7. IsSeq(items')
  BY <1>3, <1>5, EmptyFacts
<1> QED
  BY <1>3, <1>6, <1>7 DEF ListsOK

(* The reports of the files that could not be collected.                   *)
ErrorReports == [i \in 1..Len(col.errors) |-> Report(col.errors[i], "setup", "failed")]

LEMMA ErrorReportsFacts ==
    ASSUME ColOK
    PROVE  /\ ReportsOK(ErrorReports)
           /\ col.errors # <<>> => \E r \in ToSet(ErrorReports) : r.outcome = "failed"
<1> DEFINE rs == ErrorReports
<1>1. IsSeq(col.errors) /\ DOMAIN col.errors = 1..Len(col.errors)
  BY SeqFacts DEF ColOK, FileNodes
<1>2. DOMAIN rs = DOMAIN col.errors /\ rs = [i \in DOMAIN rs |-> rs[i]]
      /\ \A i \in DOMAIN col.errors : rs[i] = Report(col.errors[i], "setup", "failed")
  BY <1>1 DEF ErrorReports
<1> HIDE DEF rs
<1>3. \A i \in DOMAIN col.errors : ReportOK(rs[i]) /\ rs[i].outcome = "failed"
  <2> TAKE i \in DOMAIN col.errors
  <2>1. ReportOK(Report(col.errors[i], "setup", "failed"))
    BY NewReport DEF Phases, Results
  <2>2. Report(col.errors[i], "setup", "failed").outcome = "failed"
    BY DEF Report
  <2> QED
    BY <1>2, <2>1, <2>2
<1>4. ReportsOK(rs)
  BY <1>1, <1>2, <1>3, MappedReports
<1>5. col.errors # <<>> => 1 \in DOMAIN col.errors
  BY <1>1, SeqFacts
<1>6. col.errors # <<>> => rs[1] \in ToSet(rs) /\ rs[1].outcome = "failed"
  BY <1>2, <1>3, <1>5 DEF ToSet
<1> QED
  BY <1>4, <1>6 DEF rs

LEMMA ErrorsLists ==
    ASSUME ColOK, ListsOK, HandleCollectionErrors
    PROVE  ListsOK'
<1>1. reports' = reports \o ErrorReports /\ items' = items /\ total' = total
  BY DEF HandleCollectionErrors, ErrorReports, chosen
<1>2. ReportsOK(reports \o ErrorReports)
  BY ErrorReportsFacts, MoreReports DEF ListsOK
<1> QED
  BY <1>1, <1>2 DEF ListsOK

LEMMA SelectLists ==
    ASSUME RunsOK, ListsOK, Select
    PROVE  ListsOK'
<1> DEFINE s == Selected
<1>1. SelectionOK(s)
  BY SelectedFacts DEF ListsOK
<1>2. reports' = reports
  BY DEF Select
<1>3. \/ items' = items /\ total' = total
      \/ s.error = NoCode /\ items' = s.items /\ total' = s.total
  BY Zenon DEF Select
<1> HIDE DEF s
<1> QED
  BY <1>1, <1>2, <1>3 DEF ListsOK, SelectionOK

(* What running an item does: bs are its attempts.                         *)
LEMMA ItemRun ==
    ASSUME RunsOK, ListsOK, RunItem
    PROVE  \E bs :
             LET it == items[pos + 1]
                 r == RunOne(o, it, bs)
             IN  /\ bs \in Behaviours(it.name) /\ IsSeq(bs) /\ bs # <<>>
                 /\ BehaviourOK(Head(bs))
                 /\ ReportsOK(r.reports) /\ r.end \in {"ok", "usage", "error"}
                 /\ r.end = "ok" => OwnReports(it.id, r.reports) # {}
                 /\ About(it.id, r.reports)
                 /\ Honest(Verdict(it.id, r.reports), it.id, r.reports)
                 /\ AfterItem(it, Head(bs), r) /\ pos' = pos + 1
<1>1. PICK bs \in Behaviours(items[pos + 1].name) :
          AfterItem(items[pos + 1], Head(bs), RunOne(o, items[pos + 1], bs)) /\ pos' = pos + 1
  BY DEF RunItem
<1>2. PICK n \in DOMAIN scenario.behaves : bs \in scenario.behaves[n]
  BY DEF Behaviours
<1>3. IsSeq(bs) /\ bs # <<>> /\ \A b \in ToSet(bs) : BehaviourOK(b)
  BY <1>2 DEF RunsOK, ScenarioOK
<1>4. BehaviourOK(Head(bs))
  BY <1>3, SeqFacts
<1> DEFINE it == items[pos + 1]
           rs == RunOne(o, it, bs).reports
<1>5. /\ About(it.id, rs) /\ Honest(Verdict(it.id, rs), it.id, rs)
      /\ RunOne(o, items[pos + 1], bs).end \in {"ok", "usage", "error"}
      /\ RunOne(o, items[pos + 1], bs).end = "ok" =>
            OwnReports(it.id, rs) # {}
  BY <1>3, RunOneFacts
<1>6. ReportsOK(rs)
  BY <1>5 DEF About
<1> QED
  BY <1>1, <1>3, <1>4, <1>5, <1>6

LEMMA RunLists ==
    ASSUME RunsOK, ListsOK, RunItem
    PROVE  ListsOK'
<1>1. PICK rs : ReportsOK(rs) /\ reports' = reports \o rs
  BY ItemRun DEF AfterItem
<1>2. items' = items /\ total' = total
  BY DEF RunItem
<1> QED
  BY <1>1, <1>2, MoreReports DEF ListsOK

LEMMA ListsInit == Init => ListsOK
  BY NoReports, EmptyFacts DEF Init, ListsOK

LEMMA ListsNext == RunsOK /\ ColOK /\ ListsOK /\ [Next]_vars => ListsOK'
<1> SUFFICES ASSUME RunsOK, ColOK, ListsOK, [Next]_vars PROVE ListsOK'
  OBVIOUS
<1>1. CASE CollectItems
  BY <1>1, CollectedLists
<1>2. CASE HandleCollectionErrors
  BY <1>2, ErrorsLists
<1>3. CASE Select
  BY <1>3, SelectLists
<1>4. CASE RunItem
  BY <1>4, RunLists
<1>5. CASE NextRun
  BY <1>5, NoReports, EmptyFacts DEF NextRun, ListsOK
<1>6. CASE UNCHANGED <<reports, items, total>>
  BY <1>6 DEF ListsOK
<1> QED
  BY <1>1, <1>2, <1>3, <1>4, <1>5, <1>6 DEF Next, vars, chosen, Boot, ConfigurePlugins, Configure, SessionStart,
     ListOnly, BeginLoop, EndLoop, InternalError, HandleNoTests, FinishSession, Over

---------------------------------------------------------------------------
(* The loop: how far it got, and what it knows of the items behind it.     *)

HasFailed == \E r \in ToSet(reports) : r.outcome = "failed"
Selecting == {"select", "selected", "run", "empty", "finish", "internal"}

(* Why a loop that is over is over.                                        *)
LoopDone == pos = Len(items) \/ ctl.override # NoCode \/ ctl.fail \/ o.loopReplaced \/ HasFailed

LoopOK ==
    /\ pos \in 0..Len(items)
    /\ stage = "finish" => LoopDone
    /\ stage \in Selecting /\ col.errors # <<>> => HasFailed
    /\ \A i \in 1..pos :
          /\ items[i].id \in DOMAIN verdict
          /\ verdict[items[i].id] = "failed" => HasFailed
          /\ verdict[items[i].id] = "unreported" => ctl.stop \/ stage \in {"internal", "ended"}

LEMMA FailuresFacts ==
    ASSUME NEW rs, Failures(rs) # 0
    PROVE  \E r \in ToSet(rs) : r.outcome = "failed"
<1> SUFFICES ASSUME ~\E r \in ToSet(rs) : r.outcome = "failed" PROVE FALSE
  OBVIOUS
<1> DEFINE S == {i \in DOMAIN rs : rs[i].outcome = "failed" /\ ~rs[i].rerun}
<1>1. S = {}
  BY DEF ToSet
<1>2. Failures(rs) = Cardinality(S)
  BY DEF Failures
<1> HIDE DEF S
<1>3. Failures(rs) = 0
  BY <1>1, <1>2, FS_EmptySet
<1> QED
  BY <1>3

(* Before the loop nothing was run.                                        *)
LEMMA EarlyLoop ==
    ASSUME ListsOK', pos' = 0, stage' \notin Selecting
    PROVE  LoopOK'
<1>1. Len(items') \in Nat
  BY SeqFacts DEF ListsOK
<1>2. stage' # "finish"
  BY DEF Selecting
<1> QED
  BY <1>1, <1>2 DEF LoopOK

(* At the end nothing changes any more.                                    *)
LEMMA LastLoop ==
    ASSUME LoopOK, UNCHANGED <<chosen, reports, verdict>>, stage' = "ended"
    PROVE  LoopOK'
  BY DEF LoopOK, chosen, Selecting, HasFailed

LEMMA LoopInit == Init => LoopOK
  BY EmptyFacts DEF Init, LoopOK, Selecting

LEMMA FirstLoops ==
    ASSUME HooksOK, ListsOK', Boot \/ ConfigurePlugins \/ Configure \/ SessionStart \/ CollectItems \/ NextRun
    PROVE  LoopOK'
<1>1. ~NextRun => stage \in {"boot", "plugins", "configure", "start", "collect"} /\ pos' = pos
  BY DEF Boot, ConfigurePlugins, Configure, SessionStart, CollectItems, chosen
<1>2. pos' = 0
  BY <1>1 DEF NextRun, HooksOK
<1>3. stage' \in {"plugins", "configure", "start", "collect", "errors", "ended", "boot"}
  BY DEF Boot, ConfigurePlugins, Configure, SessionStart, CollectItems, End, NextRun
<1> QED
  BY <1>2, <1>3, EarlyLoop DEF Selecting

LEMMA ErrorsLoop ==
    ASSUME HooksOK, ColOK, ListsOK, LoopOK, ListsOK', HandleCollectionErrors
    PROVE  LoopOK'
<1>1. stage = "errors" /\ pos' = pos /\ items' = items /\ col' = col
      /\ reports' = reports \o ErrorReports /\ stage' \in {"select", "ended"}
  BY DEF HandleCollectionErrors, ErrorReports, chosen, End
<1>2. pos' = 0
  BY <1>1 DEF HooksOK
<1>3. col.errors # <<>> => HasFailed'
  <2> SUFFICES ASSUME col.errors # <<>> PROVE HasFailed'
    OBVIOUS
  <2>1. PICK r \in ToSet(ErrorReports) : r.outcome = "failed"
    BY ErrorReportsFacts
  <2>2. IsSeq(ErrorReports)
    BY ErrorReportsFacts DEF ReportsOK
  <2>3. IsSeq(reports)
    BY DEF ListsOK, ReportsOK
  <2>4. r \in ToSet(reports \o ErrorReports)
    BY <2>1, <2>2, <2>3, ConcatFacts
  <2> QED
    BY <1>1, <2>1, <2>4 DEF HasFailed
<1> QED
  BY <1>1, <1>2, <1>3, EarlyLoop DEF LoopOK

LEMMA MiddleLoops ==
    ASSUME HooksOK, ListsOK, LoopOK, ListsOK', Select \/ BeginLoop
    PROVE  LoopOK'
<1>1. stage \in {"select", "selected"} /\ pos' = pos /\ col' = col /\ reports' = reports
  BY DEF Select, BeginLoop, chosen
<1>2. pos' = 0
  BY <1>1 DEF HooksOK
<1>3. stage' \in {"selected", "ended", "empty", "run"} \/ (stage' = "finish" /\ o.loopReplaced /\ UNCHANGED o)
  BY DEF Select, BeginLoop, End, o
<1>4. col.errors # <<>> => HasFailed
  BY <1>1 DEF LoopOK, Selecting
<1>5. Len(items') \in Nat
  BY SeqFacts DEF ListsOK
<1>6. HasFailed' <=> HasFailed
  BY <1>1 DEF HasFailed
<1>7. stage' = "finish" => LoopDone'
  BY <1>3 DEF LoopDone
<1> QED
  BY <1>1, <1>2, <1>4, <1>5, <1>6, <1>7 DEF LoopOK

LEMMA EndLoopLoop ==
    ASSUME ListsOK, LoopOK, RunsOK, EndLoop
    PROVE  LoopOK'
<1>1. /\ UNCHANGED <<scenario, run, col, items, pos, ctl, reports, verdict>>
      /\ stage = "run" /\ stage' = "finish" /\ LoopOver
  BY DEF EndLoop, chosen
<1>2. LoopDone
  <2>1. CASE o.maxfail # 0 /\ Failures(reports) >= o.maxfail
    <3>1. o.maxfail \in Nat
      BY RunFacts DEF OptionsOK
    <3>2. Failures(reports) # 0
      BY <2>1, <3>1
    <3> QED
      BY <3>2, FailuresFacts DEF LoopDone, HasFailed
  <2>2. CASE ~(o.maxfail # 0 /\ Failures(reports) >= o.maxfail)
    BY <1>1, <2>2 DEF LoopOver, LoopDone
  <2> QED
    BY <2>1, <2>2
<1>3. LoopDone' /\ (HasFailed' <=> HasFailed)
  BY <1>1, <1>2 DEF LoopDone, HasFailed, o
<1> QED
  BY <1>1, <1>3 DEF LoopOK, Selecting

(* Running an item: what is known of the others stays known.               *)
LEMMA RunLoop ==
    ASSUME HooksOK, RunsOK, ListsOK, LoopOK, RunItem
    PROVE  LoopOK'
<1> DEFINE it == items[pos + 1]
           n == Len(items)
<1>1. PICK bs, r : /\ r = RunOne(o, it, bs) /\ ReportsOK(r.reports) /\ r.end \in {"ok", "usage", "error"}
                   /\ r.end = "ok" => OwnReports(it.id, r.reports) # {}
                   /\ AfterItem(it, Head(bs), r) /\ pos' = pos + 1
  BY ItemRun
<1>2. stage = "run" /\ ~LoopOver /\ UNCHANGED <<scenario, run, items, col>>
  BY DEF RunItem
<1>3. n \in Nat /\ pos \in 0..n /\ pos # n
  BY <1>2, SeqFacts DEF ListsOK, LoopOK, LoopOver
<1>4. pos' \in 0..n /\ 1..pos' = 1..pos \cup {pos + 1} /\ n = Len(items')
  BY <1>1, <1>2, <1>3
<1> DEFINE rs == r.reports
           v == Verdict(it.id, rs)
<1>5. /\ reports' = reports \o rs
      /\ verdict' = [m \in DOMAIN verdict \cup {it.id} |-> IF m = it.id THEN Verdict(m, rs) ELSE verdict[m]]
      /\ (ctl').stop = (ctl.stop \/ r.end = "usage" \/ StepwiseStops(Failures(rs) > 0))
      /\ stage' = IF r.end = "error" THEN "internal"
                  ELSE IF StepwiseStops(Failures(rs) > 0) THEN "finish" ELSE stage
  BY <1>1 DEF AfterItem, HooksOK, CtlOK
<1>6. IsSeq(reports) /\ IsSeq(rs)
  BY <1>1 DEF ListsOK, ReportsOK
<1>7. /\ HasFailed => HasFailed'
      /\ (\E x \in ToSet(rs) : x.outcome = "failed") => HasFailed'
  <2> HIDE DEF rs
  <2>1. ToSet(reports') = ToSet(reports) \cup ToSet(rs)
    BY <1>5, <1>6, ConcatFacts
  <2> QED
    BY <2>1 DEF HasFailed
<1>8. stage' = "finish" => HasFailed'
  <2> SUFFICES ASSUME stage' = "finish" PROVE HasFailed'
    OBVIOUS
  <2>1. Failures(rs) > 0
    BY <1>2, <1>5 DEF StepwiseStops
  <2>2. Failures(rs) # 0
    BY <2>1
  <2> QED
    BY <1>7, <2>2, FailuresFacts
<1>9. v = "failed" => HasFailed'
  BY <1>7, VerdictFacts
<1>10. v = "unreported" => (ctl').stop \/ stage' \in {"internal", "ended"}
  <2>1. v = "unreported" => OwnReports(it.id, rs) = {}
    BY VerdictFacts
  <2>2. v = "unreported" => r.end \in {"usage", "error"}
    BY <1>1, <2>1
  <2> HIDE DEF v
  <2> QED
    BY <1>5, <2>2
<1>11. DOMAIN verdict' = DOMAIN verdict \cup {it.id} /\ verdict'[it.id] = v
       /\ \A m \in DOMAIN verdict : m # it.id => verdict'[m] = verdict[m]
  BY <1>5
<1> HIDE DEF v, rs
<1>12. ASSUME NEW i \in 1..pos'
       PROVE  /\ items[i].id \in DOMAIN verdict'
              /\ verdict'[items[i].id] = "failed" => HasFailed'
              /\ verdict'[items[i].id] = "unreported" => (ctl').stop \/ stage' \in {"internal", "ended"}
  <2>1. CASE items[i].id = it.id
    BY <1>9, <1>10, <1>11, <2>1
  <2>2. CASE items[i].id # it.id
    <3>1. i \in 1..pos
      BY <1>4, <2>2
    <3>2. /\ items[i].id \in DOMAIN verdict
          /\ verdict[items[i].id] = "failed" => HasFailed
          /\ verdict[items[i].id] = "unreported" => ctl.stop
      BY <1>2, <3>1 DEF LoopOK
    <3> QED
      BY <1>5, <1>7, <1>11, <2>2, <3>2
  <2> QED
    BY <2>1, <2>2
<1>13. pos' \in 0..Len(items')
  BY <1>4
<1>14. stage' = "finish" => LoopDone'
  BY <1>8 DEF LoopDone
<1>15. col'.errors # <<>> => HasFailed'
  BY <1>2, <1>7 DEF LoopOK, Selecting
<1>16. items' = items
  BY <1>2
<1> HIDE DEF n, it
<1> QED
  BY <1>12, <1>13, <1>14, <1>15, <1>16 DEF LoopOK

LEMMA LoopNext == HooksOK /\ RunsOK /\ ColOK /\ ListsOK /\ ListsOK' /\ LoopOK /\ [Next]_vars => LoopOK'
<1> SUFFICES ASSUME HooksOK, RunsOK, ColOK, ListsOK, ListsOK', LoopOK, [Next]_vars PROVE LoopOK'
  OBVIOUS
<1>1. CASE Boot \/ ConfigurePlugins \/ Configure \/ SessionStart \/ CollectItems \/ NextRun
  BY <1>1, FirstLoops
<1>2. CASE HandleCollectionErrors
  BY <1>2, ErrorsLoop
<1>3. CASE Select \/ BeginLoop
  BY <1>3, MiddleLoops
<1>4. CASE RunItem
  BY <1>4, RunLoop
<1>5. CASE EndLoop
  BY <1>5, EndLoopLoop
<1>6. CASE ListOnly \/ InternalError \/ HandleNoTests \/ FinishSession
  BY <1>6, LastLoop DEF ListOnly, InternalError, HandleNoTests, FinishSession, End
<1>7. CASE UNCHANGED vars
  BY <1>7 DEF vars, LoopOK, LoopDone, HasFailed, o
<1> QED
  BY <1>1, <1>2, <1>3, <1>4, <1>5, <1>6, <1>7 DEF Next, Over

---------------------------------------------------------------------------
(* Exit code 0.                                                            *)

Codes == {OK, TESTS_FAILED, INTERRUPTED, INTERNAL_ERROR, USAGE_ERROR, NO_TESTS_COLLECTED}
CodesDiffer ==
    /\ OK = 0 /\ TESTS_FAILED = 1 /\ INTERRUPTED = 2 /\ INTERNAL_ERROR = 3 /\ USAGE_ERROR = 4
    /\ NO_TESTS_COLLECTED = 5

LEMMA CodeValues == CodesDiffer
  BY DEF CodesDiffer, OK, TESTS_FAILED, INTERRUPTED, INTERNAL_ERROR, USAGE_ERROR, NO_TESTS_COLLECTED

(* Another code, another mode, or an end without pytest_sessionfinish.     *)
LEMMA NotHonest ==
    ASSUME stage' = "ended" => (ctl').code # OK \/ o'.mode # "run" \/ "sessionfinish" \notin ToSet(events'),
           IsSeq(events')
    PROVE  ExitCodeHonest'
<1>1. Happened("sessionfinish")' <=> "sessionfinish" \in ToSet(events')
  BY ContainsIn DEF Happened
<1> QED
  BY <1>1 DEF ExitCodeHonest, Ended

LEMMA EarlyHonest ==
    ASSUME HooksOK, HooksOK', Boot \/ ConfigurePlugins \/ Configure \/ SessionStart
    PROVE  ExitCodeHonest'
<1>1. CtlOK /\ IsSeq(events')
  BY DEF HooksOK
<1>2. o' = o
  BY DEF Boot, ConfigurePlugins, Configure, SessionStart, o
<1>3. CASE Boot
  <2>1. \A step \in DOMAIN BootCode : BootCode[step] # OK
    BY DEF BootCode, OK, USAGE_ERROR, INTERNAL_ERROR
  <2>2. stage' = "ended" => (ctl').code # OK
    BY <1>1, <1>3, <2>1 DEF Boot, End, CtlOK
  <2> QED
    BY <1>1, <2>2, NotHonest
<1>4. CASE ConfigurePlugins
  <2>1. \A step \in DOMAIN PluginCode : PluginCode[step] # OK
    BY DEF PluginCode, OK, USAGE_ERROR, INTERNAL_ERROR
  <2>2. USAGE_ERROR # OK
    BY CodeValues DEF CodesDiffer
  <2>3. stage' = "ended" => (ctl').code # OK \/ o.mode # "run"
    BY <1>1, <1>4, <2>1, <2>2 DEF ConfigurePlugins, End, CtlOK
  <2> QED
    BY <1>1, <1>2, <2>3, NotHonest
<1>5. CASE Configure
  <2>1. /\ \A step \in DOMAIN LoadEnd : LoadEnd[step][1] # OK
        /\ \A step \in DOMAIN ConfigureEnd : ConfigureEnd[step][1] # OK
    BY DEF LoadEnd, ConfigureEnd, OK, USAGE_ERROR, INTERNAL_ERROR, INTERRUPTED
  <2>2. USAGE_ERROR # OK
    BY CodeValues DEF CodesDiffer
  <2>3. stage' = "ended" => (ctl').code # OK \/ o.mode # "run"
    BY <1>1, <1>5, <2>1, <2>2 DEF Configure, End, CtlOK
  <2> QED
    BY <1>1, <1>2, <2>3, NotHonest
<1>6. CASE SessionStart
  <2>1. \A step \in DOMAIN StartEnd : StartEnd[step][1] # OK
    BY DEF StartEnd, OK, USAGE_ERROR, INTERNAL_ERROR, INTERRUPTED
  <2>2. stage' = "ended" => (ctl').code # OK \/ o.mode # "run"
    BY <1>1, <1>6, <2>1 DEF SessionStart, End, CtlOK
  <2> QED
    BY <1>1, <1>2, <2>2, NotHonest
<1> QED
  BY <1>3, <1>4, <1>5, <1>6

LEMMA CollectHonest ==
    ASSUME HooksOK, HooksOK', CollectItems \/ Select
    PROVE  ExitCodeHonest'
<1>1. IsSeq(events) /\ IsSeq(events') /\ "sessionfinish" \notin ToSet(events)
  BY DEF HooksOK, Begun, CollectItems, Select
<1>2. stage' = "ended" => events' = events \o <<>> \/ events' = events \o <<"unconfigure">>
  BY DEF CollectItems, Select, End, Call
<1>3. "sessionfinish" \notin ToSet(events \o <<>>) /\ "sessionfinish" \notin ToSet(events \o <<"unconfigure">>)
  BY <1>1, ConcatFacts, OneFacts, EmptyFacts
<1>4. stage' = "ended" => "sessionfinish" \notin ToSet(events')
  BY <1>2, <1>3
<1> QED
  BY <1>1, <1>4, NotHonest

LEMMA OtherHonest ==
    ASSUME HooksOK, HooksOK', HandleCollectionErrors \/ ListOnly \/ InternalError
    PROVE  ExitCodeHonest'
<1>1. CtlOK /\ IsSeq(events')
  BY DEF HooksOK
<1>2. o' = o
  BY DEF HandleCollectionErrors, ListOnly, InternalError, o
<1>3. CASE HandleCollectionErrors
  <2>1. stage' = "ended" => (ctl').code \in {USAGE_ERROR, TESTS_FAILED, INTERRUPTED}
    BY <1>1, <1>3 DEF HandleCollectionErrors, End, CtlOK
  <2> QED
    BY <1>1, <2>1, NotHonest, CodeValues DEF CodesDiffer
<1>4. CASE ListOnly
  BY <1>1, <1>2, <1>4, NotHonest DEF ListOnly
<1>5. CASE InternalError
  <2>1. (ctl').code = INTERNAL_ERROR
    BY <1>1, <1>5 DEF InternalError, End, CtlOK
  <2> QED
    BY <1>1, <2>1, NotHonest, CodeValues DEF CodesDiffer
<1> QED
  BY <1>3, <1>4, <1>5

LEMMA NoTestsHonest ==
    ASSUME HooksOK, HandleNoTests
    PROVE  ExitCodeHonest'
<1>1. CtlOK /\ o' = o
  BY DEF HooksOK, HandleNoTests, o
<1>2. (ctl').code \in {o.exitCode, NO_TESTS_COLLECTED}
  BY <1>1 DEF HandleNoTests, End, CtlOK
<1> QED
  BY <1>1, <1>2, CodeValues DEF CodesDiffer, ExitCodeHonest

(* The codes finish_session goes through: after the hooks, a test's own,   *)
(* the stop, and what surfaces when everything is over.                    *)
HookedCode(end) ==
    CASE end = "finishexitcode" -> o.exitCode [] end = "finishinterrupt" -> INTERRUPTED
      [] OTHER -> IF HasFailed THEN TESTS_FAILED ELSE OK
ForcedCode(end) == IF ctl.override # NoCode THEN ctl.override ELSE HookedCode(end)
StoppedCode(end) == IF ctl.override = NoCode /\ ctl.stop THEN INTERRUPTED ELSE ForcedCode(end)
DoneCode(end, late) ==
    CASE late = "thread" -> INTERNAL_ERROR
      [] late = "unraisable" /\ StoppedCode(end) = OK -> TESTS_FAILED
      [] OTHER -> StoppedCode(end)

FinishedBy(end, late) ==
    \/ Exited(end) /\ End(HookedCode(end), <<"sessionfinish", "save">>)
    \/ ~Exited(end) /\ o.noTerminal /\ End(ForcedCode(end), <<"sessionfinish", "save">>)
    \/ ~Exited(end) /\ ~o.noTerminal /\ End(DoneCode(end, late), <<"sessionfinish", "save", "unconfigure">>)

LEMMA FinishFacts ==
    ASSUME FinishSession
    PROVE  \E end, late : FinishedBy(end, late)
<1> DEFINE failed == \E r \in ToSet(reports) : r.outcome = "failed"
           judged == IF failed THEN TESTS_FAILED ELSE OK
           hooked(e) == CASE e = "finishexitcode" -> o.exitCode
                          [] e = "finishinterrupt" -> INTERRUPTED [] OTHER -> judged
           forced(e) == IF ctl.override # NoCode THEN ctl.override ELSE hooked(e)
           stopped(e) == IF ctl.override = NoCode /\ ctl.stop THEN INTERRUPTED ELSE forced(e)
           done(e, l) == CASE l = "thread" -> INTERNAL_ERROR
                           [] l = "unraisable" /\ stopped(e) = OK -> TESTS_FAILED
                           [] OTHER -> stopped(e)
           Ends(e, l) == IF Exited(e) THEN End(hooked(e), <<"sessionfinish", "save">>)
                         ELSE IF o.noTerminal THEN End(forced(e), <<"sessionfinish", "save">>)
                         ELSE End(done(e, l), <<"sessionfinish", "save", "unconfigure">>)
<1>1. \E e \in FinishEnds : \E l \in {"nothing"} \cup (o.may \cap {"unraisable", "thread"}) : Ends(e, l)
  BY Zenon DEF FinishSession
<1>2. PICK end, late : Ends(end, late)
  BY <1>1
<1>3. judged = IF HasFailed THEN TESTS_FAILED ELSE OK
  BY DEF HasFailed
<1> HIDE DEF judged
<1>4. hooked(end) = HookedCode(end)
  BY <1>3 DEF HookedCode
<1> HIDE DEF hooked
<1>5. forced(end) = ForcedCode(end)
  BY <1>4 DEF ForcedCode
<1> HIDE DEF forced
<1>6. stopped(end) = StoppedCode(end)
  BY <1>5 DEF StoppedCode
<1> HIDE DEF stopped
<1>7. done(end, late) = DoneCode(end, late)
  BY <1>6 DEF DoneCode
<1> HIDE DEF done
<1>8. FinishedBy(end, late)
  BY <1>2, <1>4, <1>5, <1>7 DEF FinishedBy
<1> QED
  BY <1>8

LEMMA FinishCode ==
    ASSUME HooksOK, FinishSession
    PROVE  (ctl').code \in {o.exitCode, ctl.override, INTERRUPTED, TESTS_FAILED, OK, INTERNAL_ERROR}
           /\ ((ctl').code = ctl.override => ctl.override # NoCode \/ ctl.override \in Codes \cup {o.exitCode})
<1>1. PICK end, late : FinishedBy(end, late)
  BY FinishFacts
<1> DEFINE Mine == {o.exitCode, INTERRUPTED, TESTS_FAILED, OK, INTERNAL_ERROR}
<1>2. HookedCode(end) \in Mine
  BY DEF HookedCode
<1>2a. INTERRUPTED \in Mine /\ TESTS_FAILED \in Mine /\ INTERNAL_ERROR \in Mine
  OBVIOUS
<1> HIDE DEF Mine
<1>3. ForcedCode(end) \in Mine \/ (ForcedCode(end) = ctl.override /\ ctl.override # NoCode)
  BY <1>2 DEF ForcedCode
<1>4. StoppedCode(end) \in Mine \/ (StoppedCode(end) = ctl.override /\ ctl.override # NoCode)
  BY <1>2a, <1>3 DEF StoppedCode
<1>5. DoneCode(end, late) \in Mine \/ (DoneCode(end, late) = ctl.override /\ ctl.override # NoCode)
  BY <1>2a, <1>4 DEF DoneCode
<1>6. (ctl').code \in {HookedCode(end), ForcedCode(end), DoneCode(end, late)}
  BY <1>1 DEF FinishedBy, End, HooksOK, CtlOK
<1> QED
  BY <1>2, <1>3, <1>5, <1>6 DEF Codes, Mine

(* finish_session: nothing failed, and nobody asked for a stop that was    *)
(* looked at.                                                              *)
LEMMA FinishHonest ==
    ASSUME HooksOK, RunsOK, ListsOK, LoopOK, FinishSession
    PROVE  ExitCodeHonest'
<1> SUFFICES ASSUME (ctl').code = OK, (ctl').override = NoCode, ~o'.loopReplaced, o'.exitCode # OK,
                    ~(ctl').fail
             PROVE  /\ (col').errors = <<>> /\ pos' = Len(items')
                    /\ \A it \in ToSet(items') : verdict'[it.id] # "failed"
                    /\ Happened("unconfigure")' => \A it \in ToSet(items') : verdict'[it.id] # "unreported"
  BY DEF ExitCodeHonest
<1>1. /\ stage = "finish" /\ stage' = "ended"
      /\ UNCHANGED <<scenario, run, col, items, pos, reports, verdict>> /\ o' = o
  BY DEF FinishSession, End, chosen, o
<1>2a. PICK end, late : FinishedBy(end, late)
  BY FinishFacts
<1> DEFINE hooked == HookedCode(end)
           forced == ForcedCode(end)
           stopped == StoppedCode(end)
           done == DoneCode(end, late)
<1>2. /\ hooked = CASE end = "finishexitcode" -> o.exitCode
                   [] end = "finishinterrupt" -> INTERRUPTED
                   [] OTHER -> IF HasFailed THEN TESTS_FAILED ELSE OK
      /\ forced = (IF ctl.override # NoCode THEN ctl.override ELSE hooked)
      /\ stopped = (IF ctl.override = NoCode /\ ctl.stop THEN INTERRUPTED ELSE forced)
      /\ done = CASE late = "thread" -> INTERNAL_ERROR
                 [] late = "unraisable" /\ stopped = OK -> TESTS_FAILED
                 [] OTHER -> stopped
      /\ \/ Exited(end) /\ End(hooked, <<"sessionfinish", "save">>)
         \/ ~Exited(end) /\ o.noTerminal /\ End(forced, <<"sessionfinish", "save">>)
         \/ ~Exited(end) /\ ~o.noTerminal /\ End(done, <<"sessionfinish", "save", "unconfigure">>)
  BY <1>2a DEF FinishedBy, HookedCode, ForcedCode, StoppedCode, DoneCode
<1> HIDE DEF hooked, forced, stopped, done
<1>3. UNCHANGED <<ctl.override, ctl.stop, ctl.fail>>
  BY <1>2 DEF End, HooksOK, CtlOK
<1>4. ctl.override = NoCode /\ ~ctl.fail /\ o.exitCode # OK /\ ~o.loopReplaced
  BY <1>1, <1>3
<1>5. (ctl').code \in {hooked, forced, done}
  BY <1>2 DEF End, HooksOK, CtlOK
<1>6. forced = hooked
  BY <1>2, <1>4
<1>7. ~HasFailed
  <2> SUFFICES ASSUME HasFailed PROVE FALSE
    OBVIOUS
  <2>1. hooked # OK
    BY <1>2, <1>4, CodeValues DEF CodesDiffer
  <2>2. stopped # OK
    BY <1>2, <1>6, <2>1, CodeValues DEF CodesDiffer
  <2>3. done # OK
    BY <1>2, <2>2, CodeValues DEF CodesDiffer
  <2> QED
    BY <1>5, <1>6, <2>1, <2>3
<1>8. LoopDone
  BY <1>1 DEF LoopOK
<1>9. pos = Len(items)
  BY <1>4, <1>7, <1>8 DEF LoopDone
<1>10. col.errors = <<>>
  BY <1>1, <1>7 DEF LoopOK, Selecting
<1>11. ASSUME NEW it \in ToSet(items)
       PROVE  /\ verdict[it.id] # "failed"
              /\ verdict[it.id] = "unreported" => ctl.stop
  <2>1. PICK i \in 1..pos : items[i] = it
    BY <1>9, SeqFacts DEF ListsOK
  <2> QED
    BY <1>1, <1>7, <2>1 DEF LoopOK
<1>12. Happened("unconfigure")' => ~ctl.stop
  <2> SUFFICES ASSUME Happened("unconfigure")', ctl.stop PROVE FALSE
    OBVIOUS
  <2>1. IsSeq(events) /\ "unconfigure" \notin ToSet(events)
    BY <1>1, BegunFacts DEF HooksOK
  <2>2. "unconfigure" \notin ToSet(<<"sessionfinish", "save">>) /\ IsSeq(<<"sessionfinish", "save">>)
    BY TwoFacts
  <2> DEFINE two == <<"sessionfinish", "save">>
  <2> HIDE DEF two
  <2>3. IsSeq(events \o two) /\ "unconfigure" \notin ToSet(events \o two)
    BY <2>1, <2>2, ConcatFacts DEF two
  <2>4. ~Contains(events \o two, "unconfigure")
    BY <2>3, ContainsIn
  <2>5. events' # events \o two
    BY <2>4 DEF Happened
  <2>6. (ctl').code = done
    BY <1>2, <2>5 DEF End, Call, two, HooksOK, CtlOK
  <2>7. stopped # OK
    BY <1>2, <1>4, CodeValues DEF CodesDiffer
  <2>8. done # OK
    BY <1>2, <2>7, CodeValues DEF CodesDiffer
  <2> QED
    BY <2>6, <2>8
<1> QED
  BY <1>1, <1>9, <1>10, <1>11, <1>12

LEMMA HonestNext ==
    HooksOK /\ HooksOK' /\ RunsOK /\ ListsOK /\ LoopOK /\ ExitCodeHonest /\ [Next]_vars => ExitCodeHonest'
<1> SUFFICES ASSUME HooksOK, HooksOK', RunsOK, ListsOK, LoopOK, ExitCodeHonest, [Next]_vars
             PROVE  ExitCodeHonest'
  OBVIOUS
<1>1. CASE Boot \/ ConfigurePlugins \/ Configure \/ SessionStart
  BY <1>1, EarlyHonest
<1>2. CASE CollectItems \/ Select
  BY <1>2, CollectHonest
<1>3. CASE HandleCollectionErrors \/ ListOnly \/ InternalError
  BY <1>3, OtherHonest
<1>4. CASE HandleNoTests
  BY <1>4, NoTestsHonest
<1>5. CASE FinishSession
  BY <1>5, FinishHonest
<1>6. CASE BeginLoop \/ RunItem \/ EndLoop \/ NextRun
  <2>1. stage' # "ended"
    BY <1>6 DEF BeginLoop, RunItem, AfterItem, EndLoop, NextRun
  <2> QED
    BY <2>1 DEF ExitCodeHonest, Ended
<1>7. CASE UNCHANGED vars
  BY <1>7 DEF vars, ExitCodeHonest, Ended, Happened, o
<1> QED
  BY <1>1, <1>2, <1>3, <1>4, <1>5, <1>6, <1>7 DEF Next, Over

(* Exit code 0 hides no failure, no error and no test that was not run.    *)
THEOREM ExitCodeHolds == Spec => []ExitCodeHonest
<1>1. Init => HooksOK /\ RunsOK /\ ColOK /\ ListsOK /\ LoopOK /\ ExitCodeHonest
  <2>1. Init => ExitCodeHonest
    BY DEF Init, ExitCodeHonest, Ended
  <2> QED
    BY <2>1, HooksInit, RunsInit, ColInit, ListsInit, LoopInit
<1>2. HooksOK /\ RunsOK /\ ColOK /\ ListsOK /\ LoopOK /\ ExitCodeHonest /\ [Next]_vars
      => HooksOK' /\ RunsOK' /\ ColOK' /\ ListsOK' /\ LoopOK' /\ ExitCodeHonest'
  <2> SUFFICES ASSUME HooksOK, RunsOK, ColOK, ListsOK, LoopOK, ExitCodeHonest, [Next]_vars
               PROVE  HooksOK' /\ RunsOK' /\ ColOK' /\ ListsOK' /\ LoopOK' /\ ExitCodeHonest'
    OBVIOUS
  <2>1. HooksOK' /\ RunsOK' /\ ColOK' /\ ListsOK'
    BY HooksNext, RunsNext, ColNext, ListsNext
  <2>2. LoopOK'
    BY <2>1, LoopNext
  <2>3. ExitCodeHonest'
    BY <2>1, HonestNext
  <2> QED
    BY <2>1, <2>2, <2>3
<1> QED
  BY <1>1, <1>2, PTL DEF Spec

---------------------------------------------------------------------------
(* Types: what the cache keeps, and the codes.                             *)

(* What is remembered of a run, report after report.                       *)
RememberStep(c, kept, r) == Remember(kept, r)
RememberHolds(c, i, kept) == IsSeq(kept) /\ IsInjective(kept)
Remembering == INSTANCE Folding WITH Step <- RememberStep, Holds <- RememberHolds

Remembered(kept, rs) == FoldLeft(Remember, kept, rs)

LEMMA RememberFold ==
    ASSUME NEW kept, NEW rs
    PROVE  Remembered(kept, rs) = Remembering!Fold(0, kept, rs)
  BY DEF Remembered, Remembering!Fold, RememberStep, FoldLeft, MapThenFoldSet, Max, Remembering!Greatest

LEMMA RememberFacts ==
    ASSUME NEW kept, IsSeq(kept), IsInjective(kept), NEW r
    PROVE  IsSeq(Remember(kept, r)) /\ IsInjective(Remember(kept, r))
<1>1. PICK S : Remember(kept, r) = Kept(kept, S) \/ Remember(kept, r) = kept
               \/ (Remember(kept, r) = Append(kept, r.node) /\ ~Contains(kept, r.node))
  <2> DEFINE S0 == {n \in ToSet(kept) : n # r.node}
  <2>1. Where(kept, LAMBDA n : n # r.node) = Kept(kept, S0)
    BY DEF Where
  <2> HIDE DEF S0
  <2>2. Remember(kept, r) \in {Kept(kept, S0), kept}
        \/ (Remember(kept, r) = Append(kept, r.node) /\ ~Contains(kept, r.node))
    BY <2>1 DEF Remember
  <2> QED
    BY <2>2
<1>2. IsSeq(Kept(kept, S)) /\ IsInjective(Kept(kept, S))
  BY KeptFacts
<1>3. ASSUME ~Contains(kept, r.node)
      PROVE  IsSeq(Append(kept, r.node)) /\ IsInjective(Append(kept, r.node))
  BY <1>3, ContainsIn, AppendFacts, AppendOnce
<1> QED
  BY <1>1, <1>2, <1>3

LEMMA RememberedFacts ==
    ASSUME NEW kept, IsSeq(kept), IsInjective(kept), NEW rs, IsSeq(rs)
    PROVE  IsSeq(Remembered(kept, rs)) /\ IsInjective(Remembered(kept, rs))
<1>1. Len(rs) \in Nat /\ DOMAIN rs = 1..Len(rs)
  BY SeqFacts
<1>2. \A i \in 1..Len(rs) : \A s : RememberHolds(0, i - 1, s) => RememberHolds(0, i, RememberStep(0, s, rs[i]))
  BY RememberFacts DEF RememberHolds, RememberStep
<1>3. RememberHolds(0, 0, kept)
  BY DEF RememberHolds
<1>4. RememberHolds(0, Len(rs), Remembering!Fold(0, kept, rs))
  BY <1>1, <1>2, <1>3, NaturalInduction, Remembering!FoldHolds DEF Remembering!Induction
<1> QED
  BY <1>4, RememberFold DEF RememberHolds

CacheShape(c) ==
    /\ DOMAIN c = {"lastfailed", "nodeids", "resume", "durations"}
    /\ IsSeq(c.lastfailed) /\ IsInjective(c.lastfailed) /\ IsSeq(c.resume) /\ Len(c.resume) <= 1

LEMMA LastFailedSaved ==
    ASSUME NEW c, CacheShape(c), NEW rs, IsSeq(rs), NEW its
    PROVE  IsSeq(SaveLastFailed(c, rs, its)) /\ IsInjective(SaveLastFailed(c, rs, its))
<1>1. PICK S : SaveLastFailed(c, rs, its) = Remembered(Kept(c.lastfailed, S), rs)
  BY DEF SaveLastFailed, Where, Remembered
<1>2. IsSeq(Kept(c.lastfailed, S)) /\ IsInjective(Kept(c.lastfailed, S))
  BY KeptFacts DEF CacheShape
<1> QED
  BY <1>1, <1>2, RememberedFacts

LEMMA ResumeSaved ==
    ASSUME NEW opts, NEW c, CacheShape(c), NEW rs, NEW n
    PROVE  IsSeq(SaveResume(opts, c, rs, n)) /\ Len(SaveResume(opts, c, rs, n)) <= 1
<1>1. PICK e : SaveResume(opts, c, rs, n) \in {c.resume, <<>>, <<e>>}
  BY DEF SaveResume
<1>2. IsSeq(c.resume) /\ Len(c.resume) <= 1
  BY DEF CacheShape
<1>3. IsSeq(<<>>) /\ Len(<<>>) <= 1
  BY EmptyFacts
<1>4. IsSeq(<<e>>) /\ Len(<<e>>) <= 1
  BY OneFacts
<1> QED
  BY <1>1, <1>2, <1>3, <1>4

LEMMA SavedShape ==
    ASSUME CacheShape(loaded), NEW its, NEW rs, IsSeq(rs)
    PROVE  CacheShape(Saved(its, rs))
<1> DEFINE l == SaveLastFailed(loaded, rs, its)
           r == SaveResume(o, loaded, rs, total)
           u == [loaded EXCEPT !.lastfailed = l, !.resume = r]
<1>1. IsSeq(l) /\ IsInjective(l) /\ IsSeq(r) /\ Len(r) <= 1
  BY LastFailedSaved, ResumeSaved
<1>2. Saved(its, rs) = u
  BY DEF Saved
<1> HIDE DEF l, r
<1>3. DOMAIN u = DOMAIN loaded /\ u.lastfailed = l /\ u.resume = r
  BY DEF CacheShape
<1> HIDE DEF u
<1> QED
  BY <1>1, <1>2, <1>3 DEF CacheShape

LEMMA DurationsShape ==
    ASSUME NEW c, CacheShape(c), NEW d
    PROVE  CacheShape([c EXCEPT !.durations = d])
<1> DEFINE u == [c EXCEPT !.durations = d]
<1>1. DOMAIN u = DOMAIN c /\ u.lastfailed = c.lastfailed /\ u.resume = c.resume
  BY DEF CacheShape
<1> HIDE DEF u
<1>2. CacheShape(u)
  BY <1>1 DEF CacheShape
<1> QED
  BY <1>2 DEF u

LEMMA NodeidsShape ==
    ASSUME NEW c, CacheShape(c), NEW d
    PROVE  CacheShape([c EXCEPT !.nodeids = d])
<1> DEFINE u == [c EXCEPT !.nodeids = d]
<1>1. DOMAIN u = DOMAIN c /\ u.lastfailed = c.lastfailed /\ u.resume = c.resume
  BY DEF CacheShape
<1> HIDE DEF u
<1>2. CacheShape(u)
  BY <1>1 DEF CacheShape
<1> QED
  BY <1>2 DEF u

LEMMA EmptyShape == CacheShape(EmptyCache)
<1>1. IsInjective(<<>>)
  BY EmptyFacts DEF IsInjective
<1>2. /\ DOMAIN EmptyCache = {"lastfailed", "nodeids", "resume", "durations"}
      /\ EmptyCache.lastfailed = <<>> /\ EmptyCache.resume = <<>>
  BY DEF EmptyCache
<1> QED
  BY <1>1, <1>2, EmptyFacts DEF CacheShape

(* The code of a run that has ended is a code, and so is the one a test or *)
(* an interrupt asked for.                                                 *)
CodesOK == ctl.override \in Nat \cup {NoCode} /\ (Ended => ctl.code \in Nat)
CachesOK == CacheShape(cache) /\ CacheShape(loaded)

LEMMA CodesNat == Codes \subseteq Nat
  BY CodeValues DEF Codes, CodesDiffer

LEMMA EndNat ==
    ASSUME HooksOK, CodesOK, NEW code \in Nat, NEW hooks, End(code, hooks)
    PROVE  CodesOK'
<1>1. (ctl').code = code /\ (ctl').override = ctl.override
  BY DEF End, HooksOK, CtlOK
<1> QED
  BY <1>1 DEF CodesOK, NoCode

LEMMA EarlyCodes ==
    ASSUME HooksOK, CodesOK, Boot \/ ConfigurePlugins \/ Configure \/ SessionStart
    PROVE  CodesOK'
<1> USE CodesNat, CodeValues DEF Codes
<1>1. CASE UNCHANGED ctl /\ stage' # "ended"
  BY <1>1 DEF CodesOK, Ended
<1>2. CASE Boot
  <2>1. \A step \in DOMAIN BootCode : BootCode[step] \in Nat
    BY DEF BootCode
  <2>2. (\E step \in DOMAIN BootCode : End(BootCode[step], <<>>)) \/ (UNCHANGED ctl /\ stage' = "plugins")
    BY <1>2 DEF Boot
  <2> QED
    BY <1>1, <2>1, <2>2, EndNat
<1>3. CASE ConfigurePlugins
  <2>1. \A step \in DOMAIN PluginCode : PluginCode[step] \in Nat
    BY DEF PluginCode
  <2>2. \/ End(USAGE_ERROR, <<>>)
        \/ \E step \in DOMAIN PluginCode : End(PluginCode[step], <<>>)
        \/ End(INTERNAL_ERROR, <<>>) \/ End(OK, <<>>)
        \/ UNCHANGED ctl /\ stage' = "configure"
    BY <1>3 DEF ConfigurePlugins
  <2> QED
    BY <1>1, <2>1, <2>2, EndNat
<1>4. CASE Configure
  <2>1. /\ \A step \in DOMAIN LoadEnd : LoadEnd[step][1] \in Nat
        /\ \A step \in DOMAIN ConfigureEnd : ConfigureEnd[step][1] \in Nat
    BY DEF LoadEnd, ConfigureEnd
  <2>2. \/ \E step \in DOMAIN LoadEnd : End(LoadEnd[step][1], Unconfigure(LoadEnd[step][2]))
        \/ End(USAGE_ERROR, <<"unconfigure">>)
        \/ \E step \in DOMAIN ConfigureEnd :
               End(ConfigureEnd[step][1], <<"configure">> \o Unconfigure(ConfigureEnd[step][2]))
        \/ End(OK, <<"configure", "unconfigure">>)
        \/ UNCHANGED ctl /\ stage' = "start"
    BY <1>4 DEF Configure
  <2> QED
    BY <1>1, <2>1, <2>2, EndNat
<1>5. CASE SessionStart
  <2>1. \A step \in DOMAIN StartEnd : StartEnd[step][1] \in Nat
    BY DEF StartEnd
  <2>2. \/ \E step \in DOMAIN StartEnd :
               End(StartEnd[step][1], <<"sessionstart">> \o Unconfigure(StartEnd[step][2]))
        \/ End(OK, <<"sessionstart", "unconfigure">>)
        \/ UNCHANGED ctl /\ stage' = "collect"
    BY <1>5 DEF SessionStart
  <2> QED
    BY <1>1, <2>1, <2>2, EndNat
<1> QED
  BY <1>2, <1>3, <1>4, <1>5

LEMMA CollectCodes ==
    ASSUME HooksOK, CodesOK, RunsOK, ListsOK, CollectItems \/ HandleCollectionErrors \/ Select \/ ListOnly
    PROVE  CodesOK'
<1> USE CodesNat, CodeValues DEF Codes
<1>1. CASE UNCHANGED ctl /\ stage' # "ended"
  BY <1>1 DEF CodesOK, Ended
<1>2. CASE CollectItems
  <2>1. \/ End(INTERRUPTED, <<>>) \/ End(INTERNAL_ERROR, <<>>) \/ End(USAGE_ERROR, <<"unconfigure">>)
        \/ End(OK, <<"unconfigure">>) \/ (stage' = "errors" /\ UNCHANGED ctl)
    BY Zenon, <1>2 DEF CollectItems
  <2> QED
    BY <1>1, <2>1, EndNat
<1>3. CASE HandleCollectionErrors
  <2>1. \/ \E code \in {USAGE_ERROR, TESTS_FAILED, INTERRUPTED} : End(code, <<"save", "sessionfinish">>)
        \/ End(USAGE_ERROR, <<>>)
        \/ stage' = "select" /\ UNCHANGED ctl
    BY <1>3 DEF HandleCollectionErrors
  <2> QED
    BY <1>1, <2>1, EndNat
<1>4. CASE Select
  <2> DEFINE s == Selected
  <2>1. SelectionOK(s)
    BY SelectedFacts DEF ListsOK
  <2>2. \/ s.error # NoCode /\ End(s.error, <<>>)
        \/ End(INTERNAL_ERROR, <<>>)
        \/ stage' = "selected" /\ UNCHANGED ctl
    BY Zenon, <1>4 DEF Select
  <2> HIDE DEF s
  <2>3. s.error # NoCode => s.error \in Nat
    BY <2>1 DEF SelectionOK
  <2> QED
    BY <1>1, <2>2, <2>3, EndNat
<1>5. CASE ListOnly
  <2>1. \E code \in {OK, INTERRUPTED, NO_TESTS_COLLECTED} : \E hooks : End(code, hooks)
    BY <1>5 DEF ListOnly
  <2> QED
    BY <2>1, EndNat
<1> QED
  BY <1>2, <1>3, <1>4, <1>5

LEMMA LoopCodes ==
    ASSUME HooksOK, CodesOK, RunsOK, ListsOK, BeginLoop \/ RunItem \/ EndLoop \/ NextRun
    PROVE  CodesOK'
<1> USE CodesNat, CodeValues DEF Codes
<1>1. CASE UNCHANGED ctl /\ stage' # "ended"
  BY <1>1 DEF CodesOK, Ended
<1>2. CASE BeginLoop \/ EndLoop
  BY <1>1, <1>2 DEF BeginLoop, EndLoop
<1>3. CASE RunItem
  <2>1. PICK b, r, it : BehaviourOK(b) /\ AfterItem(it, b, r)
    BY <1>3, ItemRun
  <2>2. (ctl').override \in {b.code, INTERRUPTED, ctl.override}
    BY <2>1 DEF AfterItem, HooksOK, CtlOK
  <2>3. b.code \in Nat
    BY <2>1 DEF BehaviourOK
  <2>4. stage' # "ended"
    BY <1>3, <2>1 DEF AfterItem, RunItem
  <2> QED
    BY <2>2, <2>3, <2>4 DEF CodesOK, Ended
<1>4. CASE NextRun
  BY <1>4 DEF NextRun, CodesOK, Ended, Control
<1> QED
  BY <1>2, <1>3, <1>4

LEMMA FinishCodes ==
    ASSUME HooksOK, CodesOK, RunsOK, InternalError \/ HandleNoTests \/ FinishSession
    PROVE  CodesOK'
<1> USE CodesNat, CodeValues DEF Codes
<1>0. o.exitCode \in Nat
  BY RunFacts DEF OptionsOK
<1>1. CASE InternalError
  BY <1>1, EndNat DEF InternalError
<1>2. CASE HandleNoTests
  <2>1. \E code \in {o.exitCode, NO_TESTS_COLLECTED} : End(code, <<"sessionfinish", "save">>)
    BY <1>2 DEF HandleNoTests
  <2> QED
    BY <1>0, <2>1, EndNat
<1>3. CASE FinishSession
  <2>1. /\ (ctl').code \in {o.exitCode, ctl.override} \cup Codes
        /\ (ctl').code = ctl.override => ctl.override # NoCode \/ ctl.override \in Codes \cup {o.exitCode}
    BY <1>3, FinishCode
  <2>2. (ctl').override = ctl.override
    BY <1>3 DEF FinishSession, End, HooksOK, CtlOK
  <2> QED
    BY <1>0, <2>1, <2>2 DEF CodesOK
<1> QED
  BY <1>1, <1>2, <1>3

LEMMA CodesInit == Init => CodesOK
  BY DEF Init, CodesOK, Ended, Control

LEMMA CodesNext == HooksOK /\ RunsOK /\ ListsOK /\ CodesOK /\ [Next]_vars => CodesOK'
<1> SUFFICES ASSUME HooksOK, RunsOK, ListsOK, CodesOK, [Next]_vars PROVE CodesOK'
  OBVIOUS
<1>1. CASE UNCHANGED vars
  BY <1>1 DEF vars, CodesOK, Ended
<1> QED
  BY <1>1, EarlyCodes, CollectCodes, LoopCodes, FinishCodes DEF Next, Over

LEMMA CachesInit == Init => CachesOK
  BY EmptyShape DEF Init, CachesOK

LEMMA CachesNext == ListsOK /\ ListsOK' /\ CachesOK /\ [Next]_vars => CachesOK'
<1> SUFFICES ASSUME ListsOK, ListsOK', CachesOK, [Next]_vars PROVE CachesOK'
  OBVIOUS
<1>0. CacheShape(cache) /\ CacheShape(loaded) /\ IsSeq(reports) /\ IsSeq(reports')
  BY DEF CachesOK, ListsOK, ReportsOK
<1>1. CASE UNCHANGED <<cache, loaded>>
  BY <1>1 DEF CachesOK
<1>2. CASE ConfigurePlugins
  <2> DEFINE cleared == [EmptyCache EXCEPT !.durations = cache.durations]
         read == IF o.cacheClear THEN cleared ELSE cache
  <2>1. CacheShape(cleared)
    BY EmptyShape, DurationsShape
  <2>2. UNCHANGED <<cache, loaded>> \/ (loaded' = read /\ cache' = read)
    BY Zenon, <1>2 DEF ConfigurePlugins
  <2> HIDE DEF cleared
  <2>3. CacheShape(read)
    BY <1>0, <2>1
  <2> HIDE DEF read
  <2> QED
    BY <1>0, <2>2, <2>3 DEF CachesOK
<1>3. CASE HandleCollectionErrors
  <2>1. loaded' = loaded /\ cache' \in {cache, Saved(items, reports')}
    BY <1>3 DEF HandleCollectionErrors
  <2>2. CacheShape(Saved(items, reports'))
    BY <1>0, SavedShape
  <2> QED
    BY <1>0, <2>1, <2>2 DEF CachesOK
<1>4. CASE Select
  <2>1. cache' = cache /\ \E ids : loaded' \in {loaded, [loaded EXCEPT !.nodeids = ids]}
    BY Zenon, <1>4 DEF Select
  <2>2. PICK ids : loaded' \in {loaded, [loaded EXCEPT !.nodeids = ids]}
    BY <2>1
  <2>3. CacheShape([loaded EXCEPT !.nodeids = ids])
    BY <1>0, NodeidsShape
  <2> QED
    BY <1>0, <2>1, <2>2, <2>3 DEF CachesOK
<1>5. CASE HandleNoTests
  <2>1. loaded' = loaded /\ cache' = Saved(items, reports)
    BY <1>5 DEF HandleNoTests
  <2> QED
    BY <1>0, <2>1, SavedShape DEF CachesOK
<1>6. CASE FinishSession
  <2>1. PICK d : loaded' = loaded /\ cache' = [Saved(items, reports) EXCEPT !.durations = d]
    BY <1>6 DEF FinishSession
  <2>2. CacheShape(Saved(items, reports))
    BY <1>0, SavedShape
  <2> QED
    BY <1>0, <2>1, <2>2, DurationsShape DEF CachesOK
<1>7. CASE NextRun
  BY <1>0, <1>7, EmptyShape DEF NextRun, CachesOK
<1> QED
  BY <1>1, <1>2, <1>3, <1>4, <1>5, <1>6, <1>7 DEF Next, Over, vars, Boot, Configure, SessionStart, CollectItems,
     ListOnly, BeginLoop, RunItem, EndLoop, InternalError

(* A list without repetitions has as many elements as places.              *)
LEMMA OnceSize ==
    ASSUME NEW s, IsSeq(s), IsInjective(s)
    PROVE  Cardinality(ToSet(s)) = Len(s)
<1> DEFINE f == [i \in 1..Len(s) |-> s[i]]
<1>1. Len(s) \in Nat /\ DOMAIN s = 1..Len(s)
  BY SeqFacts
<1>2. f \in Bijection(1..Len(s), ToSet(s))
  BY <1>1, SeqFacts DEF Bijection, Injection, Surjection, IsInjective
<1>3. IsFiniteSet(1..Len(s)) /\ Cardinality(1..Len(s)) = Len(s)
  <2>1. 1 \in Int /\ Len(s) \in Int
    BY <1>1
  <2> DEFINE n == Len(s)
  <2> HIDE DEF n
  <2>2. IsFiniteSet(1..n) /\ Cardinality(1..n) = IF 1 > n THEN 0 ELSE n - 1 + 1
    BY <2>1, FS_Interval DEF n
  <2>3. n \in Nat
    BY <1>1 DEF n
  <2> QED
    BY <2>2, <2>3 DEF n
<1> HIDE DEF f
<1>4. ExistsBijection(1..Len(s), ToSet(s))
  BY <1>2 DEF ExistsBijection
<1> QED
  BY <1>3, <1>4, FS_Bijection

LEMMA TypeFacts ==
    ASSUME HooksOK, RunsOK, ListsOK, LoopOK, CodesOK, CachesOK
    PROVE  TypeOK
<1>1. run \in DOMAIN scenario.runs /\ version \in DOMAIN scenario.projects
  BY SeqFacts DEF RunsOK, ScenarioOK
<1>2. stage \in {"boot", "plugins", "configure", "start", "collect", "errors", "select", "selected",
                 "run", "empty", "finish", "internal", "ended"}
  BY DEF HooksOK, Stages
<1>3. pos \in 0..Len(items) /\ total \in Nat
  BY DEF LoopOK, ListsOK
<1>4. Len(events) <= MaxEvents
  <2>1. Len(events) \in Nat /\ Len(events) <= 7
    BY SeqFacts DEF HooksOK, Stages, Begun, Closed, Late, Ended
  <2> QED
    BY <2>1, MaxEventsAssumption
<1>5. \A r \in ToSet(reports) :
         /\ r.outcome \in {"passed", "failed", "skipped", "xfailed", "xpassed"}
         /\ r.phase \in {"setup", "call", "teardown"} /\ r.time \in Nat
  BY DEF ListsOK, ReportsOK, ReportOK, Phases, Results
<1>6. Cardinality(ToSet(cache.lastfailed)) = Len(cache.lastfailed) /\ Len(cache.resume) <= 1
  BY OnceSize DEF CachesOK, CacheShape
<1>7. Ended => ctl.code \in Nat
  BY DEF CodesOK
<1> QED
  BY <1>1, <1>2, <1>3, <1>4, <1>5, <1>6, <1>7 DEF TypeOK

(* The runs stay what they are, and the cache keeps no failure twice.      *)
THEOREM TypesHold == Spec => []TypeOK
<1> DEFINE Inv == HooksOK /\ RunsOK /\ ColOK /\ ListsOK /\ LoopOK /\ CodesOK /\ CachesOK
<1>1. Init => Inv
  BY HooksInit, RunsInit, ColInit, ListsInit, LoopInit, CodesInit, CachesInit
<1>2. Inv /\ [Next]_vars => Inv'
  <2> SUFFICES ASSUME Inv, [Next]_vars PROVE Inv'
    OBVIOUS
  <2>1. HooksOK' /\ RunsOK' /\ ColOK' /\ ListsOK'
    BY HooksNext, RunsNext, ColNext, ListsNext
  <2>2. LoopOK'
    BY <2>1, LoopNext
  <2>3. CodesOK' /\ CachesOK'
    BY <2>1, CodesNext, CachesNext
  <2> QED
    BY <2>1, <2>2, <2>3
<1>3. Inv => TypeOK
  BY TypeFacts
<1> QED
  BY <1>1, <1>2, <1>3, PTL DEF Spec

---------------------------------------------------------------------------
(* Reordering.  N are the positions of all items, B the lists of positions *)
(* by parameter that reordering starts from.                               *)

KeysOK(keysAt, B, N) ==
    \A s \in HighScopes : \A i \in N : IsSeq(keysAt[s][i]) /\ ToSet(keysAt[s][i]) \subseteq DOMAIN B[s]

ByKeyOK(b, B) ==
    \A s \in HighScopes : DOMAIN b[s] = DOMAIN B[s] /\ \A k \in DOMAIN b[s] : IsSeq(b[s][k])

Places(s, its) == IsSeq(s) /\ ToSet(s) \subseteq ToSet(its)
PlacesOnce(s, its) == Places(s, its) /\ IsInjective(s)

SliceOK(st, its, B) ==
    /\ DOMAIN st = {"queue", "done", "aside", "ignore", "slice", "byKey"}
    /\ Places(st.queue, its) /\ PlacesOnce(st.done, its) /\ PlacesOnce(st.aside, its)
    /\ ByKeyOK(st.byKey, B)

OrderOK(r, its, B) == PlacesOnce(r.out, its) /\ ByKeyOK(r.byKey, B)

LEMMA TailFacts ==
    ASSUME NEW s, IsSeq(s), s # <<>>
    PROVE  IsSeq(Tail(s)) /\ ToSet(Tail(s)) \subseteq ToSet(s)
<1>1. s \in Seq(ToSet(s)) /\ Len(s) \in Nat
  BY SeqFacts DEF IsSeq
<1>2. Tail(s) \in Seq(ToSet(s))
  BY <1>1
<1> QED
  BY <1>2, SeqRange

LEMMA MoveKeeps ==
    ASSUME NEW b, NEW B, ByKeyOK(b, B), NEW keysAt, NEW i
    PROVE  ByKeyOK(MoveToFront(b, keysAt, i), B)
<1> SUFFICES ASSUME NEW s \in HighScopes
             PROVE  /\ DOMAIN (MoveToFront(b, keysAt, i)[s]) = DOMAIN B[s]
                    /\ \A k \in DOMAIN B[s] : IsSeq(MoveToFront(b, keysAt, i)[s][k])
  BY DEF ByKeyOK
<1> DEFINE moved(k) == <<i>> \o Where(b[s][k], LAMBDA j : j # i)
           t == [k \in DOMAIN b[s] |-> IF Contains(keysAt[s][i], k) THEN moved(k) ELSE b[s][k]]
<1>1. MoveToFront(b, keysAt, i)[s] = t
  BY DEF MoveToFront
<1>2. DOMAIN b[s] = DOMAIN B[s] /\ \A k \in DOMAIN b[s] : IsSeq(b[s][k])
  BY DEF ByKeyOK
<1>3. ASSUME NEW k \in DOMAIN b[s] PROVE IsSeq(moved(k))
  <2>1. PICK S : Where(b[s][k], LAMBDA j : j # i) = Kept(b[s][k], S)
    BY DEF Where
  <2>2. IsSeq(Kept(b[s][k], S))
    BY <1>2, KeptFacts
  <2>3. moved(k) = <<i>> \o Kept(b[s][k], S)
    BY <2>1
  <2> HIDE DEF moved
  <2> QED
    BY <2>2, <2>3, OneFacts, ConcatFacts
<1> HIDE DEF moved
<1>4. DOMAIN t = DOMAIN b[s] /\ \A k \in DOMAIN b[s] : IsSeq(t[k])
  BY <1>2, <1>3
<1> QED
  BY <1>1, <1>2, <1>4

\* c = <<keysAt, B>>
MoveStep(c, b, i) == MoveToFront(b, c[1], i)
MoveHolds(c, n, b) == ByKeyOK(b, c[2])
Moving == INSTANCE Folding WITH Step <- MoveStep, Holds <- MoveHolds

LEMMA MoveFold ==
    ASSUME NEW b, NEW keysAt, NEW list, NEW c, c[1] = keysAt
    PROVE  MoveAll(b, keysAt, list) = Moving!Fold(c, b, Reverse(list))
  BY DEF MoveAll, Moving!Fold, MoveStep, FoldLeft, MapThenFoldSet, Max, Moving!Greatest

LEMMA MoveAllKeeps ==
    ASSUME NEW b, NEW B, ByKeyOK(b, B), NEW keysAt, NEW list, IsSeq(list)
    PROVE  ByKeyOK(MoveAll(b, keysAt, list), B)
<1> DEFINE c == <<keysAt, B>>
           back == Reverse(list)
<1>1. c[1] = keysAt /\ c[2] = B
  OBVIOUS
<1>2. IsSeq(back)
  BY ReverseFacts
<1> HIDE DEF c, back
<1>3. Len(back) \in Nat /\ DOMAIN back = 1..Len(back)
  BY <1>2, SeqFacts
<1>4. MoveHolds(c, 0, b)
  BY <1>1 DEF MoveHolds
<1>5. \A i \in 1..Len(back) : \A s : MoveHolds(c, i - 1, s) => MoveHolds(c, i, MoveStep(c, s, back[i]))
  BY <1>1, MoveKeeps DEF MoveHolds, MoveStep
<1>6. MoveHolds(c, Len(back), Moving!Fold(c, b, back))
  BY <1>3, <1>4, <1>5, NaturalInduction, Moving!FoldHolds DEF Moving!Induction
<1> QED
  BY <1>1, <1>6, MoveFold DEF MoveHolds, back

(* A slice: the key is one of the item's.                                  *)
LEMMA SliceKeeps ==
    ASSUME NEW keysAt, NEW scope \in HighScopes, NEW its, IsSeq(its), NEW B, NEW st, SliceOK(st, its, B),
           st.queue # <<>>, NEW key \in DOMAIN B[scope]
    PROVE  SliceOK(TakeSlice(keysAt, scope, its, st, key), its, B)
<1> DEFINE S == {j \in ToSet(st.byKey[scope][key]) : Contains(its, j)}
           matching == Kept(st.byKey[scope][key], S)
           queue == matching \o Tail(st.queue)
           byKey == MoveAll(st.byKey, keysAt, matching)
           u == TakeSlice(keysAt, scope, its, st, key)
<1>1. u = [st EXCEPT !.queue = queue, !.slice = {key}, !.byKey = byKey]
  BY DEF TakeSlice, Where
<1>2. IsSeq(st.byKey[scope][key])
  BY DEF SliceOK, ByKeyOK
<1>3. IsSeq(matching) /\ ToSet(matching) = ToSet(st.byKey[scope][key]) \cap S
  BY <1>2, KeptFacts
<1>4. ToSet(matching) \subseteq ToSet(its)
  BY <1>3, ContainsIn
<1> HIDE DEF matching, u
<1>5. Places(queue, its)
  <2>1. IsSeq(st.queue) /\ ToSet(st.queue) \subseteq ToSet(its)
    BY DEF SliceOK, Places
  <2>2. IsSeq(Tail(st.queue)) /\ ToSet(Tail(st.queue)) \subseteq ToSet(st.queue)
    BY <2>1, TailFacts
  <2> QED
    BY <1>3, <1>4, <2>1, <2>2, ConcatFacts DEF Places
<1>6. ByKeyOK(byKey, B)
  BY <1>3, MoveAllKeeps DEF SliceOK
<1> HIDE DEF queue, byKey
<1>7. /\ DOMAIN u = DOMAIN st /\ u.queue = queue /\ u.byKey = byKey
      /\ u.done = st.done /\ u.aside = st.aside
  BY <1>1 DEF SliceOK
<1>8. SliceOK(u, its, B)
  BY <1>5, <1>6, <1>7 DEF SliceOK
<1> QED
  BY <1>8 DEF u

LEMMA PopKeeps ==
    ASSUME NEW keysAt, NEW scope \in HighScopes, NEW its, IsSeq(its), NEW N, ToSet(its) \subseteq N,
           NEW B, KeysOK(keysAt, B, N), NEW st, SliceOK(st, its, B)
    PROVE  SliceOK(PopItems(keysAt, scope, its, st), its, B)
<1> DEFINE Left(i) == Where(keysAt[scope][i], LAMBDA k : k \notin st.ignore)
           waiting == {k \in DOMAIN st.queue :
                           ~Contains(st.done, st.queue[k]) /\ Left(st.queue[k]) # <<>>}
           aside(n) == Dedup(Where(SubSeq(st.queue, 1, n), LAMBDA i : ~Contains(st.done, i)))
           Without(n) == [st EXCEPT !.queue = SubSeq(@, n + 1, Len(@)), !.aside = aside(n)]
           m == Min(waiting)
<1>1. PopItems(keysAt, scope, its, st) =
          IF waiting = {} THEN Without(Len(st.queue))
          ELSE TakeSlice(keysAt, scope, its, Without(m - 1), Last(Left(st.queue[m])))
  BY Zenon DEF PopItems
<1>2. /\ IsSeq(st.queue) /\ ToSet(st.queue) \subseteq ToSet(its)
      /\ Len(st.queue) \in Nat /\ DOMAIN st.queue = 1..Len(st.queue)
  BY SeqFacts DEF SliceOK, Places
<1>3. ASSUME NEW n \in Nat, n <= Len(st.queue)
      PROVE  /\ SliceOK(Without(n), its, B)
             /\ n < Len(st.queue) => Without(n).queue # <<>>
  <2> DEFINE front == SubSeq(st.queue, 1, n)
             back == SubSeq(st.queue, n + 1, Len(st.queue))
             u == Without(n)
             a == aside(n)
  <2>1. 1 \in Int /\ 1 >= 1 /\ n \in Int /\ n <= Len(st.queue)
    BY <1>3
  <2>2. IsSeq(front) /\ ToSet(front) \subseteq ToSet(st.queue)
    BY ONLY <2>1, <1>2, SubSeqFacts
  <2>3. n + 1 \in Int /\ n + 1 >= 1 /\ Len(st.queue) \in Int /\ Len(st.queue) <= Len(st.queue)
    BY <1>2, <1>3
  <2>4. /\ IsSeq(back) /\ ToSet(back) \subseteq ToSet(st.queue)
        /\ Len(back) = IF n + 1 <= Len(st.queue) THEN Len(st.queue) - (n + 1) + 1 ELSE 0
    BY ONLY <2>3, <1>2, SubSeqFacts
  <2>5. n < Len(st.queue) => back # <<>>
    <3> DEFINE l == Len(st.queue)
               b == Len(back)
    <3>1. b = IF n + 1 <= l THEN l - (n + 1) + 1 ELSE 0
      BY <2>4
    <3> HIDE DEF b, l
    <3>2. n < l => b # 0
      BY <1>2, <1>3, <3>1 DEF l
    <3> QED
      BY <2>4, <3>2, SeqFacts DEF b, l
  <2>6. PICK S : a = Dedup(Kept(front, S))
    BY DEF Where
  <2>7. IsSeq(Kept(front, S)) /\ ToSet(Kept(front, S)) \subseteq ToSet(front)
    BY <2>2, KeptFacts
  <2>8. PlacesOnce(a, its)
    BY <1>2, <2>2, <2>6, <2>7, DedupFacts DEF PlacesOnce, Places
  <2> HIDE DEF a, back
  <2>9. u = [st EXCEPT !.queue = back, !.aside = a]
    BY DEF back, a
  <2> HIDE DEF u
  <2>10. /\ DOMAIN u = DOMAIN st /\ u.queue = back /\ u.aside = a
         /\ u.done = st.done /\ u.byKey = st.byKey
    BY <2>9 DEF SliceOK
  <2>11. SliceOK(u, its, B)
    BY <1>2, <2>4, <2>8, <2>10 DEF SliceOK, Places
  <2>12. n < Len(st.queue) => u.queue # <<>>
    BY <2>5, <2>10
  <2> QED
    BY <2>11, <2>12 DEF u
<1> HIDE DEF Without
<1>4. CASE waiting = {}
  <2>1. SliceOK(Without(Len(st.queue)), its, B)
    BY <1>2, <1>3
  <2> QED
    BY <1>1, <1>4, <2>1
<1>5. CASE waiting # {}
  <2>1. waiting \in SUBSET (1..Len(st.queue))
    BY <1>2
  <2>2. m \in waiting
    <3> HIDE DEF waiting
    <3> QED
      BY <1>2, <1>5, <2>1, LeastOf
  <2> DEFINE i == st.queue[m]
             left == Left(i)
  <2>3. m \in 1..Len(st.queue) /\ left # <<>>
    BY <1>2, <2>2
  <2>4. i \in ToSet(its)
    BY <1>2, <2>3, SeqFacts
  <2>5. IsSeq(keysAt[scope][i]) /\ ToSet(keysAt[scope][i]) \subseteq DOMAIN B[scope]
    BY <2>4 DEF KeysOK
  <2>6. PICK S : left = Kept(keysAt[scope][i], S)
    BY DEF Where
  <2> HIDE DEF left, i
  <2>7. IsSeq(left) /\ ToSet(left) \subseteq DOMAIN B[scope]
    BY <2>5, <2>6, KeptFacts
  <2> HIDE DEF m, waiting
  <2>8. Last(left) \in ToSet(left)
    <3>1. Len(left) \in Nat /\ Len(left) # 0
      BY <2>3, <2>7, SeqFacts
    <3>2. Len(left) \in 1..Len(left)
      BY <3>1
    <3> QED
      BY <2>7, <3>2, SeqFacts DEF Last
  <2>9. m - 1 \in Nat /\ m - 1 <= Len(st.queue) /\ m - 1 < Len(st.queue)
    BY <1>2, <2>3
  <2>10. SliceOK(Without(m - 1), its, B) /\ Without(m - 1).queue # <<>>
    BY <1>3, <2>9
  <2>11. PopItems(keysAt, scope, its, st) = TakeSlice(keysAt, scope, its, Without(m - 1), Last(left))
    BY <1>1, <1>5 DEF left, m, i
  <2>12. Last(left) \in DOMAIN B[scope]
    BY <2>7, <2>8
  <2> QED
    BY <2>10, <2>11, <2>12, SliceKeeps
<1> QED
  BY <1>4, <1>5

(* What orders the items that were set aside at a scope.                   *)
BelowAt(scope, keysAt, its, b) ==
    CASE scope = "class"   -> Ordering(its, b)
      [] scope = "module"  -> AtClass(keysAt, its, b)
      [] scope = "package" -> AtModule(keysAt, its, b)
      [] scope = "session" -> AtPackage(keysAt, its, b)

BelowKeeps(scope, keysAt, B, N) ==
    \A its, b : IsSeq(its) /\ IsInjective(its) /\ ToSet(its) \subseteq N /\ ByKeyOK(b, B)
                => OrderOK(BelowAt(scope, keysAt, its, b), its, B)

\* c = <<keysAt, scope, its, B>>
PassStep(c, st, x) ==
    IF st.queue = <<>> THEN st
    ELSE LET p == PopItems(c[1], c[2], c[3], st)
         IN  AfterPass(p, BelowAt(c[2], c[1], p.aside, p.byKey))
PassHolds(c, n, st) == SliceOK(st, c[3], c[4])
Passing == INSTANCE Folding WITH Step <- PassStep, Holds <- PassHolds

PassStart(its, b) ==
    [queue |-> its, done |-> <<>>, aside |-> <<>>, ignore |-> {}, slice |-> {}, byKey |-> b]

LastPass(c, its, b) == Passing!Fold(c, PassStart(its, b), Passes(b, c[2]))

LEMMA ClassPasses ==
    ASSUME NEW keysAt, NEW its, NEW b, NEW c, c[1] = keysAt /\ c[2] = "class" /\ c[3] = its
    PROVE  AtClass(keysAt, its, b) =
               IF Len(its) < 3 THEN Ordering(its, b)
               ELSE Ordering(LastPass(c, its, b).done, LastPass(c, its, b).byKey)
  BY DEF AtClass, AtScope, LastPass, PassStart, Passing!Fold, PassStep, BelowAt, FoldLeft, MapThenFoldSet, Max, Passing!Greatest

LEMMA ModulePasses ==
    ASSUME NEW keysAt, NEW its, NEW b, NEW c, c[1] = keysAt /\ c[2] = "module" /\ c[3] = its
    PROVE  AtModule(keysAt, its, b) =
               IF Len(its) < 3 THEN Ordering(its, b)
               ELSE Ordering(LastPass(c, its, b).done, LastPass(c, its, b).byKey)
  BY DEF AtModule, AtScope, LastPass, PassStart, Passing!Fold, PassStep, BelowAt, FoldLeft, MapThenFoldSet, Max, Passing!Greatest

LEMMA PackagePasses ==
    ASSUME NEW keysAt, NEW its, NEW b, NEW c, c[1] = keysAt /\ c[2] = "package" /\ c[3] = its
    PROVE  AtPackage(keysAt, its, b) =
               IF Len(its) < 3 THEN Ordering(its, b)
               ELSE Ordering(LastPass(c, its, b).done, LastPass(c, its, b).byKey)
  BY DEF AtPackage, AtScope, LastPass, PassStart, Passing!Fold, PassStep, BelowAt, FoldLeft, MapThenFoldSet, Max, Passing!Greatest

LEMMA SessionPasses ==
    ASSUME NEW keysAt, NEW its, NEW b, NEW c, c[1] = keysAt /\ c[2] = "session" /\ c[3] = its
    PROVE  AtSession(keysAt, its, b) =
               IF Len(its) < 3 THEN Ordering(its, b)
               ELSE Ordering(LastPass(c, its, b).done, LastPass(c, its, b).byKey)
  BY DEF AtSession, AtScope, LastPass, PassStart, Passing!Fold, PassStep, BelowAt, FoldLeft, MapThenFoldSet, Max, Passing!Greatest

(* One pass of the outer loop.                                             *)
LEMMA PassKeeps ==
    ASSUME NEW keysAt, NEW scope \in HighScopes, NEW its, IsSeq(its), NEW N, ToSet(its) \subseteq N,
           NEW B, KeysOK(keysAt, B, N), BelowKeeps(scope, keysAt, B, N),
           NEW c, c[1] = keysAt /\ c[2] = scope /\ c[3] = its, NEW st, SliceOK(st, its, B), NEW x
    PROVE  SliceOK(PassStep(c, st, x), its, B)
<1>1. CASE st.queue = <<>>
  BY <1>1 DEF PassStep
<1>2. CASE st.queue # <<>>
  <2> DEFINE p == PopItems(keysAt, scope, its, st)
             r == BelowAt(scope, keysAt, p.aside, p.byKey)
             done == Dedup(p.done \o r.out)
             u == AfterPass(p, r)
  <2>1. PassStep(c, st, x) = u
    BY <1>2 DEF PassStep
  <2>2. SliceOK(p, its, B)
    BY PopKeeps
  <2> HIDE DEF p
  <2>3. IsSeq(p.aside) /\ IsInjective(p.aside) /\ ToSet(p.aside) \subseteq ToSet(its) /\ ByKeyOK(p.byKey, B)
    BY <2>2 DEF SliceOK, PlacesOnce, Places
  <2>4. OrderOK(r, p.aside, B)
    BY <2>3 DEF BelowKeeps
  <2> HIDE DEF r
  <2>5. IsSeq(r.out) /\ ToSet(r.out) \subseteq ToSet(its)
    BY <2>3, <2>4 DEF OrderOK, PlacesOnce, Places
  <2>6. IsSeq(p.done) /\ ToSet(p.done) \subseteq ToSet(its)
    BY <2>2 DEF SliceOK, PlacesOnce, Places
  <2>7. PlacesOnce(done, its)
    BY <2>5, <2>6, ConcatFacts, DedupFacts DEF PlacesOnce, Places
  <2>8. PlacesOnce(<<>>, its)
    BY EmptyFacts DEF PlacesOnce, Places, IsInjective
  <2> HIDE DEF u
  <2>9. u = [p EXCEPT !.done = done, !.byKey = r.byKey, !.aside = <<>>,
                      !.ignore = @ \cup p.slice, !.slice = {}]
    BY DEF u, AfterPass
  <2> HIDE DEF done
  <2>10. /\ DOMAIN u = DOMAIN p /\ u.done = done /\ u.byKey = r.byKey /\ u.aside = <<>>
         /\ u.queue = p.queue
    BY <2>2, <2>9 DEF SliceOK
  <2>11. SliceOK(u, its, B)
    BY <2>2, <2>4, <2>7, <2>8, <2>10 DEF SliceOK, OrderOK
  <2> QED
    BY <2>1, <2>11
<1> QED
  BY <1>1, <1>2

(* All passes: an order of items that were given.                          *)
LEMMA PassesKeep ==
    ASSUME NEW keysAt, NEW scope \in HighScopes, NEW its, IsSeq(its), IsInjective(its),
           NEW N, ToSet(its) \subseteq N,
           NEW B, KeysOK(keysAt, B, N), BelowKeeps(scope, keysAt, B, N), NEW b, ByKeyOK(b, B),
           IsFiniteSet(DOMAIN B[scope]),
           NEW c, c = <<keysAt, scope, its, B>>, NEW r,
           r = IF Len(its) < 3 THEN Ordering(its, b)
               ELSE Ordering(LastPass(c, its, b).done, LastPass(c, its, b).byKey)
    PROVE  OrderOK(r, its, B)
<1>1. c[1] = keysAt /\ c[2] = scope /\ c[3] = its /\ c[4] = B
  OBVIOUS
<1>2. CASE Len(its) < 3
  <2>1. r.out = its /\ r.byKey = b
    BY <1>2 DEF Ordering
  <2> QED
    BY <2>1 DEF OrderOK, PlacesOnce, Places
<1>3. CASE ~(Len(its) < 3)
  <2> DEFINE n == Cardinality(DOMAIN b[scope]) + 1
             start == PassStart(its, b)
             last == LastPass(c, its, b)
  <2>1. n \in Nat
    BY FS_CardinalityType DEF ByKeyOK
  <2>2. Passes(b, scope) = [k \in 1..n |-> k]
    BY DEF Passes
  <2>3. SliceOK(start, its, B)
    <3>1. PlacesOnce(<<>>, its)
      BY EmptyFacts DEF PlacesOnce, Places, IsInjective
    <3>2. /\ DOMAIN start = {"queue", "done", "aside", "ignore", "slice", "byKey"}
          /\ start.queue = its /\ start.done = <<>> /\ start.aside = <<>> /\ start.byKey = b
      BY DEF PassStart
    <3> HIDE DEF start
    <3>3. Places(its, its)
      BY DEF Places
    <3> QED
      BY <3>1, <3>2, <3>3 DEF SliceOK
  <2> HIDE DEF n, start
  <2>4. PassHolds(c, 0, start)
    BY <1>1, <2>3 DEF PassHolds
  <2>5. \A i \in 1..n : \A st : PassHolds(c, i - 1, st) => PassHolds(c, i, PassStep(c, st, Passes(b, scope)[i]))
    BY <1>1, PassKeeps DEF PassHolds
  <2>6. DOMAIN Passes(b, scope) = 1..n
    BY <2>2
  <2>7. PassHolds(c, n, Passing!Fold(c, start, Passes(b, scope)))
    BY <2>1, <2>4, <2>5, <2>6, NaturalInduction, Passing!FoldHolds DEF Passing!Induction
  <2>8. SliceOK(last, its, B)
    BY <1>1, <2>7 DEF PassHolds, LastPass, start
  <2>9. r.out = last.done /\ r.byKey = last.byKey
    BY <1>3 DEF Ordering
  <2> HIDE DEF last
  <2> QED
    BY <2>8, <2>9 DEF OrderOK, SliceOK
<1> QED
  BY <1>2, <1>3

(* Scope by scope, from the narrowest on.                                  *)
LEMMA ScopesKeep ==
    ASSUME NEW keysAt, NEW N, NEW B, KeysOK(keysAt, B, N), \A s \in HighScopes : IsFiniteSet(DOMAIN B[s]),
           NEW its, IsSeq(its), IsInjective(its), ToSet(its) \subseteq N, NEW b, ByKeyOK(b, B)
    PROVE  OrderOK(AtSession(keysAt, its, b), its, B)
<1> DEFINE Given(l, d) == IsSeq(l) /\ IsInjective(l) /\ ToSet(l) \subseteq N /\ ByKeyOK(d, B)
<1>0. /\ "class" \in HighScopes /\ "module" \in HighScopes /\ "package" \in HighScopes
      /\ "session" \in HighScopes
  BY DEF HighScopes
<1>1. BelowKeeps("class", keysAt, B, N)
  <2> SUFFICES ASSUME NEW l, NEW d, Given(l, d) PROVE OrderOK(BelowAt("class", keysAt, l, d), l, B)
    BY DEF BelowKeeps
  <2>1. BelowAt("class", keysAt, l, d) = Ordering(l, d)
    BY DEF BelowAt
  <2> QED
    BY <2>1 DEF Ordering, OrderOK, PlacesOnce, Places
<1>2. BelowKeeps("module", keysAt, B, N)
  <2> SUFFICES ASSUME NEW l, NEW d, Given(l, d) PROVE OrderOK(BelowAt("module", keysAt, l, d), l, B)
    BY DEF BelowKeeps
  <2> DEFINE c == <<keysAt, "class", l, B>>
  <2>1. c[1] = keysAt /\ c[2] = "class" /\ c[3] = l /\ c = <<keysAt, "class", l, B>>
    OBVIOUS
  <2> HIDE DEF c
  <2>2. BelowAt("module", keysAt, l, d) = AtClass(keysAt, l, d)
    BY DEF BelowAt
  <2> DEFINE r == AtClass(keysAt, l, d)
  <2>3. r = IF Len(l) < 3 THEN Ordering(l, d) ELSE Ordering(LastPass(c, l, d).done, LastPass(c, l, d).byKey)
    BY <2>1, ClassPasses
  <2> HIDE DEF r
  <2>4. IsFiniteSet(DOMAIN B["class"]) /\ IsSeq(l) /\ IsInjective(l) /\ ToSet(l) \subseteq N /\ ByKeyOK(d, B)
    BY <1>0
  <2>5. OrderOK(r, l, B)
    BY <1>0, <1>1, <2>1, <2>3, <2>4, PassesKeep
  <2> QED
    BY <2>2, <2>5 DEF r
<1>3. BelowKeeps("package", keysAt, B, N)
  <2> SUFFICES ASSUME NEW l, NEW d, Given(l, d) PROVE OrderOK(BelowAt("package", keysAt, l, d), l, B)
    BY DEF BelowKeeps
  <2> DEFINE c == <<keysAt, "module", l, B>>
  <2>1. c[1] = keysAt /\ c[2] = "module" /\ c[3] = l /\ c = <<keysAt, "module", l, B>>
    OBVIOUS
  <2> HIDE DEF c
  <2>2. BelowAt("package", keysAt, l, d) = AtModule(keysAt, l, d)
    BY DEF BelowAt
  <2> DEFINE r == AtModule(keysAt, l, d)
  <2>3. r = IF Len(l) < 3 THEN Ordering(l, d) ELSE Ordering(LastPass(c, l, d).done, LastPass(c, l, d).byKey)
    BY <2>1, ModulePasses
  <2> HIDE DEF r
  <2>4. IsFiniteSet(DOMAIN B["module"]) /\ IsSeq(l) /\ IsInjective(l) /\ ToSet(l) \subseteq N /\ ByKeyOK(d, B)
    BY <1>0
  <2>5. OrderOK(r, l, B)
    BY <1>0, <1>2, <2>1, <2>3, <2>4, PassesKeep
  <2> QED
    BY <2>2, <2>5 DEF r
<1>4. BelowKeeps("session", keysAt, B, N)
  <2> SUFFICES ASSUME NEW l, NEW d, Given(l, d) PROVE OrderOK(BelowAt("session", keysAt, l, d), l, B)
    BY DEF BelowKeeps
  <2> DEFINE c == <<keysAt, "package", l, B>>
  <2>1. c[1] = keysAt /\ c[2] = "package" /\ c[3] = l /\ c = <<keysAt, "package", l, B>>
    OBVIOUS
  <2> HIDE DEF c
  <2>2. BelowAt("session", keysAt, l, d) = AtPackage(keysAt, l, d)
    BY DEF BelowAt
  <2> DEFINE r == AtPackage(keysAt, l, d)
  <2>3. r = IF Len(l) < 3 THEN Ordering(l, d) ELSE Ordering(LastPass(c, l, d).done, LastPass(c, l, d).byKey)
    BY <2>1, PackagePasses
  <2> HIDE DEF r
  <2>4. IsFiniteSet(DOMAIN B["package"]) /\ IsSeq(l) /\ IsInjective(l) /\ ToSet(l) \subseteq N /\ ByKeyOK(d, B)
    BY <1>0
  <2>5. OrderOK(r, l, B)
    BY <1>0, <1>3, <2>1, <2>3, <2>4, PassesKeep
  <2> QED
    BY <2>2, <2>5 DEF r
<1> DEFINE c == <<keysAt, "session", its, B>>
<1>5. c[1] = keysAt /\ c[2] = "session" /\ c[3] = its /\ c = <<keysAt, "session", its, B>>
  OBVIOUS
<1> HIDE DEF c
<1> DEFINE r == AtSession(keysAt, its, b)
<1>6. r = IF Len(its) < 3 THEN Ordering(its, b) ELSE Ordering(LastPass(c, its, b).done, LastPass(c, its, b).byKey)
  BY <1>5, SessionPasses
<1> HIDE DEF r
<1>7. IsFiniteSet(DOMAIN B["session"])
  BY <1>0
<1>8. OrderOK(r, its, B)
  BY <1>0, <1>4, <1>5, <1>6, <1>7, PassesKeep
<1> QED
  BY <1>8 DEF r

LEMMA FiniteList ==
    ASSUME NEW s, IsSeq(s)
    PROVE  IsFiniteSet(ToSet(s))
<1> DEFINE f == [i \in 1..Len(s) |-> s[i]]
<1>1. Len(s) \in Nat /\ DOMAIN s = 1..Len(s)
  BY SeqFacts
<1>2. f \in Surjection(1..Len(s), ToSet(s))
  BY <1>1, SeqFacts DEF Surjection
<1> HIDE DEF f
<1>3. ExistsSurjection(1..Len(s), ToSet(s))
  BY <1>2 DEF ExistsSurjection
<1> QED
  BY <1>1, <1>3, FS_NatSurjection

(* The same things, each as often, in another order.                       *)
PlacesOf(s, x) == {i \in DOMAIN s : s[i] = x}
SameThings(s, t) ==
    /\ IsSeq(t) /\ Len(t) = Len(s) /\ DOMAIN t = DOMAIN s /\ ToSet(t) = ToSet(s)
    /\ \A x : Cardinality(PlacesOf(t, x)) = Cardinality(PlacesOf(s, x))

LEMMA OrderIsFull ==
    ASSUME NEW s, IsSeq(s), NEW order, IsSeq(order), IsInjective(order), ToSet(order) \subseteq DOMAIN s,
           Len(order) = Len(s)
    PROVE  ToSet(order) = DOMAIN s
<1>1. IsFiniteSet(DOMAIN s) /\ Cardinality(DOMAIN s) = Len(s)
  BY IndicesFacts, OnceSize, FiniteList
<1>2. Cardinality(ToSet(order)) = Len(s)
  BY OnceSize
<1> QED
  BY <1>1, <1>2, FS_Subset

LEMMA Reordered ==
    ASSUME NEW s, IsSeq(s), NEW order, IsSeq(order), IsInjective(order), ToSet(order) \subseteq DOMAIN s,
           Len(order) = Len(s), NEW t, t = [i \in DOMAIN s |-> s[order[i]]]
    PROVE  SameThings(s, t)
<1>1. /\ Len(s) \in Nat /\ DOMAIN s = 1..Len(s) /\ DOMAIN order = DOMAIN s
  BY SeqFacts
<1>2. DOMAIN t = DOMAIN s /\ t = [i \in DOMAIN t |-> t[i]] /\ \A i \in DOMAIN s : t[i] = s[order[i]]
  OBVIOUS
<1>3. IsSeq(t) /\ Len(t) = Len(s)
  BY <1>2, MapFacts
<1>4. /\ \A i \in DOMAIN s : order[i] \in DOMAIN s
      /\ \A j \in DOMAIN s : \E i \in DOMAIN s : order[i] = j
  <2>1. ToSet(order) = DOMAIN s
    BY OrderIsFull
  <2>2. ToSet(order) = {order[i] : i \in DOMAIN s}
    BY <1>1 DEF ToSet
  <2> QED
    BY <2>1, <2>2
<1>5. ToSet(t) = ToSet(s)
  BY <1>2, <1>4 DEF ToSet
<1>6. ASSUME NEW x PROVE Cardinality(PlacesOf(t, x)) = Cardinality(PlacesOf(s, x))
  <2> DEFINE S == PlacesOf(t, x)
             T == PlacesOf(s, x)
             f == [i \in S |-> order[i]]
  <2>1. /\ S \subseteq DOMAIN s /\ T \subseteq DOMAIN s
        /\ \A i \in DOMAIN s : (i \in S <=> s[order[i]] = x) /\ (i \in T <=> s[i] = x)
    BY <1>2 DEF PlacesOf
  <2>2. \A i, j \in DOMAIN s : order[i] = order[j] => i = j
    BY <1>1 DEF IsInjective
  <2>3. IsFiniteSet(S)
    <3>1. IsSeq(Indices(s)) /\ ToSet(Indices(s)) = DOMAIN s
      BY <1>1, IndicesFacts
    <3>2. IsFiniteSet(DOMAIN s)
      BY <3>1, FiniteList
    <3> HIDE DEF S
    <3> QED
      BY <2>1, <3>2, FS_Subset
  <2> HIDE DEF S, T
  <2>4. f \in [S -> T] /\ \A i \in S : f[i] = order[i]
    BY <1>4, <2>1
  <2>5. f \in Injection(S, T)
    BY <2>1, <2>2, <2>4 DEF Injection, IsInjective
  <2>6. f \in Surjection(S, T)
    <3>1. ASSUME NEW j \in T PROVE \E i \in S : f[i] = j
      BY <1>4, <2>1, <2>4, <3>1
    <3> QED
      BY <2>4, <3>1 DEF Surjection
  <2>7. ExistsBijection(S, T)
    BY <2>5, <2>6 DEF ExistsBijection, Bijection
  <2> QED
    BY <2>3, <2>7, FS_Bijection DEF S, T
<1> QED
  BY <1>2, <1>3, <1>5, <1>6 DEF SameThings

(* The keys an item has at a scope, and the items by key.                  *)
LEMMA ArgKeysFacts ==
    ASSUME NEW it, IsSeq(it.keys), NEW s
    PROVE  IsSeq(ArgKeys(it, s))
<1> DEFINE own == Where(it.keys, LAMBDA k : k[2] = s)
           t == [i \in DOMAIN own |-> <<own[i][1], own[i][3], ScopeBoundary(it, s)>>]
<1>1. PICK S : own = Kept(it.keys, S)
  BY DEF Where
<1>2. ArgKeys(it, s) = Dedup(t)
  BY DEF ArgKeys
<1> HIDE DEF own
<1>3. IsSeq(own)
  BY <1>1, KeptFacts
<1>4. DOMAIN t = DOMAIN own /\ t = [i \in DOMAIN t |-> t[i]]
  OBVIOUS
<1> HIDE DEF t
<1> QED
  BY <1>2, <1>3, <1>4, MapFacts, DedupFacts

LEMMA ByKeyFacts ==
    ASSUME NEW its, IsSeq(its), NEW keysAt,
           \A s \in HighScopes : \A i \in DOMAIN its : IsSeq(keysAt[s][i])
    PROVE  /\ KeysOK(keysAt, ByKey(its, keysAt), DOMAIN its)
           /\ ByKeyOK(ByKey(its, keysAt), ByKey(its, keysAt))
           /\ \A s \in HighScopes : IsFiniteSet(DOMAIN (ByKey(its, keysAt)[s]))
<1> DEFINE B == ByKey(its, keysAt)
           Keys(s) == UNION {ToSet(keysAt[s][i]) : i \in DOMAIN its}
<1>1. ASSUME NEW s \in HighScopes
      PROVE  /\ DOMAIN B[s] = Keys(s)
             /\ \A k \in Keys(s) : IsSeq(B[s][k])
  <2> DEFINE of(k) == Where(Indices(its), LAMBDA i : Contains(keysAt[s][i], k))
             t == [k \in Keys(s) |-> of(k)]
  <2>1. B[s] = t
    BY DEF ByKey
  <2>2. ASSUME NEW k PROVE IsSeq(of(k))
    <3>1. PICK S : of(k) = Kept(Indices(its), S)
      BY DEF Where
    <3> HIDE DEF of
    <3> QED
      BY <3>1, IndicesFacts, KeptFacts
  <2> HIDE DEF of, Keys
  <2>3. DOMAIN t = Keys(s) /\ \A k \in Keys(s) : t[k] = of(k)
    OBVIOUS
  <2> QED
    BY <2>1, <2>2, <2>3
<1>2. ASSUME NEW s \in HighScopes, NEW i \in DOMAIN its
      PROVE  ToSet(keysAt[s][i]) \subseteq Keys(s)
  BY Zenon
<1>3. ASSUME NEW s \in HighScopes PROVE IsFiniteSet(Keys(s))
  <2> DEFINE ss == [i \in DOMAIN its |-> keysAt[s][i]]
  <2>1. DOMAIN ss = DOMAIN its /\ ss = [i \in DOMAIN ss |-> ss[i]]
        /\ \A i \in DOMAIN its : ss[i] = keysAt[s][i]
    OBVIOUS
  <2> HIDE DEF ss
  <2>2. /\ IsSeq(FlattenSeq(ss))
        /\ \A x : x \in ToSet(FlattenSeq(ss)) <=> \E i \in DOMAIN its : x \in ToSet(keysAt[s][i])
    BY <2>1, FlattenMap
  <2>3. \A x : x \in Keys(s) <=> \E i \in DOMAIN its : x \in ToSet(keysAt[s][i])
    BY Zenon
  <2>4. Keys(s) = ToSet(FlattenSeq(ss))
    <3> HIDE DEF Keys
    <3> QED
      BY <2>2, <2>3
  <2> QED
    BY <2>2, <2>4, FiniteList
<1> HIDE DEF B, Keys
<1> QED
  BY <1>1, <1>2, <1>3 DEF KeysOK, ByKeyOK, B

(* Reordering neither loses nor repeats an item.                           *)
LEMMA ReorderThings ==
    ASSUME NEW its, IsSeq(its), \A it \in ToSet(its) : ItemOK(it)
    PROVE  SameThings(its, Reorder(its))
<1> DEFINE at(s, i) == ArgKeys(its[i], s)
           keysAt == [s \in HighScopes |-> [i \in DOMAIN its |-> at(s, i)]]
           N == DOMAIN its
           B == ByKey(its, keysAt)
           start == [i \in DOMAIN its |-> i]
           r == AtSession(keysAt, start, B)
           t == [i \in DOMAIN its |-> its[r.out[i]]]
<1>1. Reorder(its) = its \/ (Len(r.out) = Len(its) /\ Reorder(its) = t)
  BY DEF Reorder, Ordered, Applied
<1>2. ASSUME NEW s \in HighScopes, NEW i \in DOMAIN its PROVE IsSeq(keysAt[s][i])
  <2>1. IsSeq(its[i].keys)
    BY SeqFacts DEF ItemOK
  <2>2. keysAt[s][i] = at(s, i)
    OBVIOUS
  <2> QED
    BY <2>1, <2>2, ArgKeysFacts
<1>3. start = Indices(its)
  BY DEF Indices
<1> HIDE DEF keysAt
<1>4. /\ KeysOK(keysAt, B, N) /\ ByKeyOK(B, B)
      /\ \A s \in HighScopes : IsFiniteSet(DOMAIN B[s])
  BY <1>2, ByKeyFacts
<1>5. IsSeq(start) /\ IsInjective(start) /\ ToSet(start) = N
  BY <1>3, IndicesFacts
<1> HIDE DEF B, start
<1>6. OrderOK(r, start, B)
  BY <1>4, <1>5, ScopesKeep
<1>7. IsSeq(r.out) /\ IsInjective(r.out) /\ ToSet(r.out) \subseteq DOMAIN its
  BY <1>5, <1>6 DEF OrderOK, PlacesOnce, Places
<1>8. SameThings(its, its)
  BY SeqFacts DEF SameThings
<1> HIDE DEF r
<1>9. Len(r.out) = Len(its) => SameThings(its, t)
  BY <1>7, Reordered
<1> QED
  BY <1>1, <1>8, <1>9

---------------------------------------------------------------------------
(* What was collected, and the order it is run in.                         *)

OrderedOK ==
    /\ IsSeq(col.before) /\ \A it \in ToSet(col.before) : ItemOK(it)
    /\ col.ordered = Reorder(col.before)

LEMMA NothingOrdered == col = NoItems => OrderedOK
  BY EmptyFacts, NothingReordered DEF NoItems, OrderedOK

LEMMA OrderedCollected ==
    ASSUME RunsOK, CollectItems
    PROVE  OrderedOK'
<1> DEFINE p == Prepare(Project, o)
           c == Collect(p, o)
<1>1. CollectedOK(p, o, c)
  BY RunFacts, PrepareFacts, CollectFacts
<1>2. IsSeq(c.before) /\ \A it \in ToSet(c.before) : ItemOK(it)
  BY RunFacts DEF CollectedItemsOK
<1>3. col' = [items |-> FilterCollected(o, loaded, Project.files, c.items), before |-> c.before,
              ordered |-> c.ordered, errors |-> c.errors, notfound |-> c.notfound, hooked |-> c.hooked]
  BY DEF CollectItems
<1> HIDE DEF c
<1>4. (col').before = c.before /\ (col').ordered = c.ordered
  BY <1>3
<1> QED
  BY <1>1, <1>2, <1>4 DEF OrderedOK, CollectedOK

LEMMA OrderedNext == RunsOK /\ OrderedOK /\ [Next]_vars => OrderedOK'
<1> SUFFICES ASSUME RunsOK, OrderedOK, [Next]_vars PROVE OrderedOK'
  OBVIOUS
<1>1. CASE CollectItems
  BY <1>1, OrderedCollected
<1>2. CASE NextRun
  <2>1. col' = NoItems
    BY <1>2 DEF NextRun
  <2> QED
    BY <2>1, EmptyFacts, NothingReordered DEF NoItems, OrderedOK
<1>3. CASE UNCHANGED col
  BY <1>3 DEF OrderedOK
<1> QED
  BY <1>1, <1>2, <1>3 DEF Next, vars, Boot, ConfigurePlugins, Configure, SessionStart,
     HandleCollectionErrors, Select, ListOnly, BeginLoop, RunItem, EndLoop, InternalError, HandleNoTests,
     FinishSession, Over

LEMMA OrderedKeeps == OrderedOK => ReorderKeeps
<1> SUFFICES ASSUME OrderedOK PROVE ReorderKeeps
  OBVIOUS
<1>1. SameThings(col.before, col.ordered)
  BY ReorderThings DEF OrderedOK
<1>2. Len(col.ordered) = Len(col.before)
  BY <1>1 DEF SameThings
<1>3. DOMAIN col.before = 1..Len(col.ordered) /\ DOMAIN col.ordered = 1..Len(col.ordered)
  BY <1>1, <1>2, SeqFacts DEF OrderedOK, SameThings
<1>4. ASSUME NEW x
      PROVE  Cardinality({i \in 1..Len(col.ordered) : col.before[i] = x})
                 = Cardinality({i \in 1..Len(col.ordered) : col.ordered[i] = x})
  BY <1>1, <1>3 DEF SameThings, PlacesOf
<1> QED
  BY <1>2, <1>4 DEF ReorderKeeps

(* Reordering by scoped parameters runs every collected item as often as   *)
(* it was collected, whatever the scopes, keys and names.                  *)
THEOREM ReorderHolds == Spec => []ReorderKeeps
<1>1. Init => RunsOK /\ OrderedOK
  BY RunsInit, NothingOrdered DEF Init
<1>2. RunsOK /\ OrderedOK /\ [Next]_vars => RunsOK' /\ OrderedOK'
  BY RunsNext, OrderedNext
<1> QED
  BY <1>1, <1>2, OrderedKeeps, PTL DEF Spec

---------------------------------------------------------------------------
(* What --lf leaves.                                                       *)

(* Filtering twice is filtering by both.                                   *)
LEMMA KeptTwice ==
    ASSUME NEW s, IsSeq(s), NEW S, NEW T, NEW R, \A x \in ToSet(s) : x \in R <=> x \in S /\ x \in T
    PROVE  Kept(Kept(s, S), T) = Kept(s, R)
<1> DEFINE c == <<S>>
           d == <<R>>
           n == Len(s)
<1>1. c[1] = S /\ d[1] = R
  OBVIOUS
<1> HIDE DEF c, d
<1>2. n \in Nat /\ DOMAIN s = 1..n /\ \A i \in 1..n : s[i] \in ToSet(s)
  BY SeqFacts
<1> HIDE DEF n
<1>3. PICK f : Keeping!IsTrace(c, <<>>, s, n, f)
  BY <1>2, NaturalInduction, Keeping!FoldTrace DEF Keeping!Induction
<1>4. PICK g : Keeping!IsTrace(d, <<>>, s, n, g)
  BY <1>2, NaturalInduction, Keeping!FoldTrace DEF Keeping!Induction
<1>5. /\ f[0] = <<>> /\ g[0] = <<>> /\ f[n] = Kept(s, S) /\ g[n] = Kept(s, R)
      /\ \A i \in 1..n : f[i] = KeepIn(S, f[i - 1], s[i]) /\ g[i] = KeepIn(R, g[i - 1], s[i])
  BY <1>1, <1>3, <1>4, KeptFold DEF Keeping!IsTrace, KeepStep
<1> DEFINE P == {k \in Nat : k <= n => IsSeq(f[k]) /\ Kept(f[k], T) = g[k]}
<1>6. 0 \in P
  <2>1. IsSeq(<<>>) /\ Kept(<<>>, T) = <<>>
    BY EmptyFacts, KeptFacts
  <2> QED
    BY <1>5, <2>1
<1>7. ASSUME NEW k \in Nat, k \in P PROVE k + 1 \in P
  <2> SUFFICES ASSUME k + 1 <= n PROVE IsSeq(f[k + 1]) /\ Kept(f[k + 1], T) = g[k + 1]
    OBVIOUS
  <2> DEFINE x == s[k + 1]
  <2>1. k + 1 \in 1..n /\ (k + 1) - 1 = k /\ k <= n
    BY <1>2
  <2>2. IsSeq(f[k]) /\ Kept(f[k], T) = g[k]
    BY <1>7, <2>1
  <2>3. f[k + 1] = KeepIn(S, f[k], x) /\ g[k + 1] = KeepIn(R, g[k], x) /\ x \in ToSet(s)
    BY <1>2, <1>5, <2>1
  <2> HIDE DEF x, P
  <2>4. CASE x \in S
    <3>1. f[k + 1] = Append(f[k], x)
      BY <2>3, <2>4 DEF KeepIn
    <3>2. IsSeq(f[k + 1]) /\ Kept(f[k + 1], T) = KeepIn(T, g[k], x)
      BY <2>2, <3>1, AppendFacts, KeptAppend
    <3> QED
      BY <2>3, <2>4, <3>2 DEF KeepIn
  <2>5. CASE x \notin S
    BY <2>2, <2>3, <2>5 DEF KeepIn
  <2> QED
    BY <2>4, <2>5
<1> HIDE DEF P
<1>8. n \in P
  BY <1>2, <1>6, <1>7, NaturalInduction
<1> QED
  BY <1>2, <1>5, <1>8 DEF P

Failing(c, its) == {it \in ToSet(its) : Fails(c, it)}

(* The items a run with --lf and no other selection starts from, and those *)
(* the cache keeps of them.                                                *)
LEMMA LfFacts ==
    ASSUME NEW its, IsSeq(its), \A it \in ToSet(its) : it.id.mod = it.mod, NEW c,
           NEW opts, opts.lf, opts.args = <<>>, NEW files
    PROVE  LET f == FilterCollected(opts, c, files, its)
               still == Kept(its, Failing(c, its))
           IN  LastFailed(opts, c, f).kept
                   = IF still # <<>> THEN still
                     ELSE IF c.lastfailed = <<>> /\ opts.lfnf = "none" THEN <<>> ELSE its
<1> DEFINE f == FilterCollected(opts, c, files, its)
           F == Failing(c, its)
           still == Kept(its, F)
           r == LastFailed(opts, c, f)
           kept == Where(f, LAMBDA it : Fails(c, it))
<1>1. r.kept = IF c.lastfailed = <<>> /\ opts.lfnf = "none" THEN <<>>
               ELSE IF c.lastfailed = <<>> \/ kept = <<>> THEN f ELSE kept
  BY DEF LastFailed, Partition
<1>2. ToSet(still) = ToSet(its) \cap F /\ IsSeq(still)
  BY KeptFacts
<1>3. F \subseteq ToSet(its) /\ \A it \in ToSet(its) : it \in F <=> Fails(c, it)
  BY DEF Failing
<1> HIDE DEF F, r
<1>4. still = <<>> <=> F = {}
  BY <1>2, <1>3, EmptyFacts, KeptFacts
<1>5. PICK U : kept = Kept(f, U) /\ \A it \in ToSet(f) : it \in U <=> Fails(c, it)
  <2> DEFINE S == {it \in ToSet(f) : Fails(c, it)}
  <2> HIDE DEF f
  <2>1. kept = Kept(f, S)
    BY DEF Where
  <2>2. \A it \in ToSet(f) : it \in S <=> Fails(c, it)
    OBVIOUS
  <2> HIDE DEF S, kept
  <2> QED
    BY <2>1, <2>2
<1>6. CASE F = {}
  <2>1. f = its
    BY <1>3, <1>6 DEF FilterCollected
  <2>2. kept = <<>>
    BY <1>3, <1>5, <1>6, <2>1, KeptFacts
  <2> QED
    BY <1>1, <1>4, <1>6, <2>1, <2>2 DEF r, F
<1>7. CASE F # {}
  <2> DEFINE known(m) == \E n \in ToSet(c.lastfailed) : n.mod = m
             Given(it) == \E e \in ToSet(files) : e.name = it.mod /\ \E a \in ToSet(opts.args) : a.path = e.path
             Keep(it) == Given(it) \/ (known(it.mod) /\ (Fails(c, it) \/ it.method))
             S == {it \in ToSet(its) : Keep(it)}
  <2>1. f = Kept(its, S)
    BY <1>3, <1>7 DEF FilterCollected, Where
  <2>2. \A it \in F : it \in S
    <3> TAKE it \in F
    <3>1. it \in ToSet(its) /\ Fails(c, it) /\ it.id.mod = it.mod
      BY <1>3
    <3>2. PICK n \in ToSet(c.lastfailed) : n = it.id
      BY <3>1 DEF Fails, Contains, ToSet
    <3>3. known(it.mod)
      BY <3>1, <3>2
    <3> QED
      BY <3>1, <3>3
  <2> HIDE DEF S, f
  <2>3. ToSet(f) = ToSet(its) \cap S
    BY <2>1, KeptFacts
  <2>4. \A it \in ToSet(its) : it \in F <=> it \in S /\ it \in U
    BY <1>3, <1>5, <2>2, <2>3
  <2>5. kept = still
    BY <1>5, <2>1, <2>4, KeptTwice
  <2>6. still # <<>>
    BY <1>4, <1>7
  <2>7. c.lastfailed # <<>>
    <3>1. PICK it \in F : TRUE
      BY <1>7
    <3>2. Contains(c.lastfailed, it.id)
      BY <1>3 DEF Fails
    <3> QED
      BY <3>2, EmptyFacts DEF Contains
  <2> QED
    BY <1>1, <2>5, <2>6, <2>7 DEF r, f, F
<1> QED
  BY <1>6, <1>7

(* The options select nothing but the last failures.                       *)
LfAlone ==
    /\ o.lf /\ ~o.sw /\ ~o.nf /\ o.deselect = {} /\ o.splits = 0 /\ o.hooks = <<>>
    /\ o.keyword.kind = "none" /\ o.markexpr.kind = "none" /\ o.args = <<>>

LfChoice(c, its) ==
    IF Kept(its, Failing(c, its)) # <<>> THEN Kept(its, Failing(c, its))
    ELSE IF c.lastfailed = <<>> /\ o.lfnf = "none" THEN <<>> ELSE its

LfOK ==
    /\ stage \in {"errors", "select"} =>
          items = FilterCollected(o, loaded, Project.files, ChosenByArgs(Prepare(Project, o), o, col.ordered))
    /\ stage = "selected" /\ LfAlone => items = LfChoice(loaded, col.ordered)

LEMMA NoFilter ==
    ASSUME NEW its, IsSeq(its)
    PROVE  \A S : ToSet(its) \subseteq S => Kept(its, S) = its
  BY KeptFacts

LEMMA NoHooksOrder == HookOrder(<<>>) = <<>> /\ Deferred(<<>>) = <<>>
<1>1. \A S : Kept(<<>>, S) = <<>>
  BY EmptyFacts, KeptFacts
<1>2. <<>> \o <<>> = <<>>
  OBVIOUS
<1>3. PICK A1, B1, C1, D1 : HookOrder(<<>>) = Kept(<<>>, A1) \o Kept(<<>>, B1) \o Kept(<<>>, C1) \o Kept(<<>>, D1)
  BY DEF HookOrder, Where
<1>4. PICK E1 : Deferred(<<>>) = Kept(<<>>, E1)
  BY DEF Deferred, Where
<1> QED
  BY <1>1, <1>2, <1>3, <1>4

LEMMA NoHooksRun ==
    ASSUME NEW its
    PROVE  RunHooks(<<>>, its).items = its /\ RunHooks(<<>>, its).error = FALSE
<1>1. ToSet(<<>>) = {}
  BY EmptyFacts
<1> QED
  BY <1>1 DEF RunHooks

LEMMA NoSelection ==
    ASSUME NEW opts, opts.keyword.kind = "none", opts.markexpr.kind = "none", NEW its, IsSeq(its)
    PROVE  ApplySelection(opts, its).kept = its /\ ApplySelection(opts, its).error = "ok"
<1> DEFINE k == Keyword(opts, its)
           again == Where(k.kept, LAMBDA it : Matches(opts.markexpr, it.tags))
           S == {it \in ToSet(its) : Matches(opts.keyword, {it.name, it.mod, it.cls} \cup it.tags)}
           T == {it \in ToSet(its) : Matches(opts.markexpr, it.tags)}
<1>1. ToSet(its) \subseteq S /\ ToSet(its) \subseteq T
  BY DEF Matches
<1>2. k.kept = Kept(its, S)
  BY DEF Keyword, Partition, Where
<1> HIDE DEF S, k
<1>3. k.kept = its
  BY <1>1, <1>2, NoFilter
<1>4. again = Kept(its, T)
  BY <1>3 DEF Where
<1> HIDE DEF T, again
<1>5. again = its
  BY <1>1, <1>4, NoFilter
<1>6. ApplySelection(opts, its) = AfterKeyword(opts, k)
  BY DEF ApplySelection, k
<1>7. AfterKeyword(opts, k).kept = again /\ AfterKeyword(opts, k).error = "ok"
  BY DEF AfterKeyword, Stopped, again
<1> QED
  BY <1>5, <1>6, <1>7

LEMMA FilteredAlone ==
    ASSUME LfAlone, IsSeq(items), Filtered.error = NoCode
    PROVE  Filtered.items = items
<1> DEFINE listed == Where(items, LAMBDA it : ~Deselected(o, it))
           S == {it \in ToSet(items) : ~Deselected(o, it)}
           h == RunHooks(HookOrder(o.hooks), listed)
           p == ApplySelection(o, h.items)
           n == Len(items) - Len(listed)
           picked == Picked(p, n)
<1>1. ToSet(items) \subseteq S
  BY DEF LfAlone, Deselected
<1>2. listed = Kept(items, S)
  BY DEF Where
<1> HIDE DEF S, listed
<1>3. listed = items
  BY <1>1, <1>2, NoFilter
<1>4. h.items = items
  BY <1>3, NoHooksOrder, NoHooksRun DEF LfAlone
<1> HIDE DEF h
<1>5. p.kept = items /\ p.error = "ok"
  BY <1>4, NoSelection DEF LfAlone
<1> HIDE DEF p, n
<1>6. picked.items = p.kept
  BY <1>5 DEF Picked, Failed
<1>7. Filtered \in {Failed(USAGE_ERROR), Failed(INTERNAL_ERROR), picked}
  BY DEF Filtered, AfterDeselect, AfterHooks, listed, h, p, n
<1> HIDE DEF picked
<1> QED
  BY <1>5, <1>6, <1>7 DEF Failed, USAGE_ERROR, INTERNAL_ERROR, NoCode

LEMMA SelectedAlone ==
    ASSUME LfAlone, IsSeq(items), Selected.error = NoCode
    PROVE  Selected.items = LastFailed(o, loaded, items).kept
<1> DEFINE f == Filtered
           its == ApplySplit(o, loaded, f.items)
           m == ModifyItems(o, loaded, Project.mtime, its)
           last == RunHooks(Deferred(o.hooks), m.items)
           after == AfterDeferred(m, last, f.removed)
<1>1. Selected = IF f.error # NoCode THEN f ELSE after
  BY DEF Selected, AfterFilters, AfterCache
<1>2. f.error = NoCode /\ Selected = after
  BY <1>1
<1>3. its = items
  BY <1>2, FilteredAlone DEF ApplySplit, LfAlone
<1> HIDE DEF f, its
<1>4. m.items = LastFailed(o, loaded, items).kept
  <2> DEFINE l == LastFailed(o, loaded, items)
             s == Stepwise(o, loaded, l.kept)
  <2>1. m = CacheChoice(o, loaded, Project.mtime, l, s)
    BY <1>3 DEF ModifyItems, AfterLastFailed
  <2>2. s = l.kept
    BY DEF Stepwise, LfAlone
  <2> HIDE DEF l, s
  <2>3. NewFirst(o, loaded, Project.mtime, s) = s
    BY DEF NewFirst, LfAlone
  <2> QED
    BY <2>1, <2>2, <2>3 DEF CacheChoice, l
<1> HIDE DEF m
<1>5. last.items = m.items /\ last.error = FALSE
  BY NoHooksOrder, NoHooksRun DEF LfAlone
<1> HIDE DEF last
<1>6. after.items = last.items
  BY <1>5 DEF AfterDeferred
<1> QED
  BY <1>2, <1>4, <1>5, <1>6

(* Without arguments nothing is chosen by them.                            *)
LEMMA NoArgsChosen ==
    ASSUME NEW p, NEW opts, OptionsOK(opts), opts.args = <<>>, NEW its
    PROVE  ChosenByArgs(p, opts, its) = its
<1> DEFINE whole == [path |-> <<>>, sel |-> <<>>, part |-> NoId]
<1>1. ToSet(<<whole>>) = {whole}
  BY OneFacts
<1>2. ~HasParts(whole)
  BY DEF HasParts
<1> HIDE DEF whole
<1>3. ResolveArgs(opts) = opts.testpaths \/ ResolveArgs(opts) = <<whole>>
  BY DEF ResolveArgs, GivenArgs, whole
<1>4. \A a \in ToSet(ResolveArgs(opts)) : ~HasParts(a)
  BY <1>1, <1>2, <1>3 DEF OptionsOK
<1> QED
  BY <1>4 DEF ChosenByArgs

LEMMA LfSame ==
    ASSUME NEW c, NEW d, c.lastfailed = d.lastfailed, NEW its
    PROVE  LfChoice(c, its) = LfChoice(d, its)
<1>1. Failing(c, its) = Failing(d, its)
  BY DEF Failing, Fails
<1> QED
  BY <1>1 DEF LfChoice

LEMMA LfCollected ==
    ASSUME RunsOK, CollectItems, stage' = "errors"
    PROVE  LfOK'
<1> DEFINE p == Prepare(Project, o)
           c == Collect(p, o)
           kept == FilterCollected(o, loaded, Project.files, c.items)
<1>1. CollectedOK(p, o, c)
  BY RunFacts, PrepareFacts, CollectFacts
<1>2. /\ items' = IF c.status = "ok" THEN kept ELSE <<>>
      /\ col' = [items |-> kept, before |-> c.before, ordered |-> c.ordered, errors |-> c.errors,
                 notfound |-> c.notfound, hooked |-> c.hooked]
      /\ c.status = "ok" \/ stage' = "ended"
      /\ UNCHANGED <<scenario, version, run, loaded>>
  BY DEF CollectItems, End
<1> HIDE DEF c, p
<1>3. c.status = "ok" /\ c.items = ChosenByArgs(p, o, c.ordered) /\ (col').ordered = c.ordered
  BY <1>1, <1>2 DEF CollectedOK
<1>4. items' = FilterCollected(o, loaded, Project.files, ChosenByArgs(p, o, (col').ordered))
  BY <1>2, <1>3
<1> QED
  BY <1>2, <1>4 DEF LfOK, Project, o, p

LEMMA LfSelected ==
    ASSUME RunsOK, ListsOK, CachesOK, OrderedOK, LfOK, Select, stage' = "selected", LfAlone
    PROVE  items' = LfChoice(loaded', col.ordered)
<1> DEFINE s == Selected
           its == col.ordered
           p == Prepare(Project, o)
<1>1. /\ s.error = NoCode /\ items' = s.items /\ loaded' = [loaded EXCEPT !.nodeids = s.nodeids]
      /\ stage = "select"
  BY DEF Select, End
<1>2. s.items = LastFailed(o, loaded, items).kept
  BY <1>1, SelectedAlone DEF ListsOK
<1> HIDE DEF s
<1>3. (loaded').lastfailed = loaded.lastfailed
  BY <1>1 DEF CachesOK, CacheShape
<1>4. SameThings(col.before, its)
  BY ReorderThings DEF OrderedOK
<1>5. IsSeq(its) /\ \A it \in ToSet(its) : it.id.mod = it.mod
  BY <1>4 DEF SameThings, OrderedOK, ItemOK
<1> HIDE DEF its
<1>6. ChosenByArgs(p, o, its) = its
  BY RunFacts, NoArgsChosen DEF LfAlone
<1>7. items = FilterCollected(o, loaded, Project.files, its)
  BY <1>1, <1>6 DEF LfOK, its, p
<1> DEFINE f == FilterCollected(o, loaded, Project.files, its)
<1>8. s.items = LfChoice(loaded, its)
  <2>1. o.lf /\ o.args = <<>>
    BY DEF LfAlone
  <2>2. LastFailed(o, loaded, f).kept = LfChoice(loaded, its)
    BY <1>5, <2>1, LfFacts DEF LfChoice
  <2> QED
    BY <1>2, <1>7, <2>2
<1>9. LfChoice(loaded, its) = LfChoice(loaded', its)
  BY <1>3, LfSame
<1> QED
  BY <1>1, <1>8, <1>9 DEF its

LEMMA LfInit == Init => LfOK
  BY DEF Init, LfOK

LEMMA LfNext == RunsOK /\ ListsOK /\ CachesOK /\ OrderedOK /\ LfOK /\ [Next]_vars => LfOK'
<1> SUFFICES ASSUME RunsOK, ListsOK, CachesOK, OrderedOK, LfOK, [Next]_vars PROVE LfOK'
  OBVIOUS
<1>1. CASE CollectItems
  <2>1. stage' \in {"errors", "ended"}
    BY <1>1 DEF CollectItems, End
  <2>2. stage' = "ended" => LfOK'
    BY DEF LfOK
  <2> QED
    BY <1>1, <2>1, <2>2, LfCollected
<1>2. CASE HandleCollectionErrors
  <2>1. \/ stage' = "ended"
        \/ stage = "errors" /\ stage' = "select" /\ UNCHANGED <<scenario, version, run, loaded, col, items>>
    BY <1>2 DEF HandleCollectionErrors, End, chosen
  <2>2. stage' = "ended" => LfOK'
    BY DEF LfOK
  <2> QED
    BY <2>1, <2>2 DEF LfOK, Project, o
<1>3. CASE Select
  <2>1. stage' \in {"selected", "ended"} /\ UNCHANGED <<scenario, run, col>>
    BY <1>3 DEF Select, End
  <2>2. stage' = "ended" => LfOK'
    BY DEF LfOK
  <2>3. LfAlone' <=> LfAlone
    BY <2>1 DEF LfAlone, o
  <2>4. \A c, its : LfChoice(c, its)' = LfChoice(c, its)
    BY <2>1 DEF LfChoice, o
  <2>5. stage' = "selected" => LfOK'
    BY <1>3, <2>1, <2>3, <2>4, LfSelected DEF LfOK
  <2> QED
    BY <2>1, <2>2, <2>5
<1>4. CASE UNCHANGED vars
  BY <1>4 DEF LfOK, LfAlone, LfChoice, Project, o, vars, chosen
<1>5. CASE stage' \notin {"errors", "select", "selected"}
  BY <1>5 DEF LfOK
<1> QED
  BY <1>1, <1>2, <1>3, <1>4, <1>5 DEF Next, Boot, ConfigurePlugins, Configure, SessionStart,
     ListOnly, BeginLoop, RunItem, EndLoop, InternalError, HandleNoTests, FinishSession, NextRun, Over, End,
     AfterItem

LEMMA LfExactFacts == LfOK => LfExact
<1> SUFFICES ASSUME LfOK, stage = "selected", LfAlone
             PROVE  items = LfChoice(loaded, col.ordered) /\ Ids(<<>>) = <<>>
  <2> DEFINE its == col.ordered
             still == Where(its, LAMBDA it : Contains(loaded.lastfailed, it.id))
  <2>1. still = Kept(its, Failing(loaded, its))
    BY DEF Where, Failing, Fails
  <2>2. LfChoice(loaded, its) = IF still # <<>> THEN still
                                ELSE IF loaded.lastfailed = <<>> /\ o.lfnf = "none" THEN <<>> ELSE its
    BY <2>1 DEF LfChoice
  <2> HIDE DEF still
  <2> QED
    BY <2>2 DEF LfExact, LfAlone, still
<1>1. items = LfChoice(loaded, col.ordered)
  BY DEF LfOK
<1>2. Ids(<<>>) = <<>>
  BY EmptyFacts DEF Ids
<1> QED
  BY <1>1, <1>2

(* A run with --lf and nothing else takes exactly the remembered failures  *)
(* that still exist, or everything when there is none.                     *)
THEOREM LfExactHolds == Spec => []LfExact
<1> DEFINE Inv == HooksOK /\ RunsOK /\ ColOK /\ ListsOK /\ CachesOK /\ OrderedOK /\ LfOK
<1>1. Init => Inv
  BY HooksInit, RunsInit, ColInit, ListsInit, CachesInit, NothingOrdered, LfInit DEF Init
<1>2. Inv /\ [Next]_vars => Inv'
  <2> SUFFICES ASSUME Inv, [Next]_vars PROVE Inv'
    OBVIOUS
  <2>1. HooksOK' /\ RunsOK' /\ ColOK' /\ ListsOK' /\ OrderedOK'
    BY HooksNext, RunsNext, ColNext, ListsNext, OrderedNext
  <2>2. CachesOK' /\ LfOK'
    BY <2>1, CachesNext, LfNext
  <2> QED
    BY <2>1, <2>2
<1> QED
  BY <1>1, <1>2, LfExactFacts, PTL DEF Spec

---------------------------------------------------------------------------
(* Lists of lists, joined one after the other.                             *)

IsJoined(ss, h) ==
    /\ h[1] = ss[1] /\ h[Len(ss)] = FlattenSeq(ss)
    /\ \A i \in 1..Len(ss) : i # 1 => h[i] = h[i - 1] \o ss[i]

LEMMA JoinedSoFar ==
    ASSUME NEW ss, IsSeq(ss), ss # <<>>
    PROVE  \E h : IsJoined(ss, h)
<1> DEFINE n == Len(ss)
           h == CHOOSE h : Joins(ss, n, h)
<1>1. n \in Nat /\ n # 0 /\ 1 \in 1..n
  BY SeqFacts
<1>2. Joins(ss, n, h)
  BY <1>1, JoinsSolved
<1>3. FlattenSeq(ss) = h[n]
  BY <1>1 DEF FlattenSeq, Joins, JoinBody
<1>4. \A i \in 1..n : h[i] = JoinBody(ss, h, i)
  BY <1>2 DEF Joins
<1> HIDE DEF h
<1>5. IsJoined(ss, h)
  BY <1>1, <1>3, <1>4 DEF IsJoined, JoinBody
<1> QED
  BY <1>5

(* From piece to piece: what holds of the first and survives each further  *)
(* one holds of the whole.  S is the set of the places where it holds.     *)
LEMMA JoinedAll ==
    ASSUME NEW n \in Nat, n # 0, NEW S, 1 \in S,
           \A i \in 1..n : i # 1 /\ i - 1 \in S => i \in S
    PROVE  n \in S /\ \A i \in 1..n : i \in S
<1> DEFINE T == {k \in Nat : k + 1 <= n => k + 1 \in S}
<1>1. 0 \in T
  OBVIOUS
<1>2. ASSUME NEW k \in Nat, k \in T PROVE k + 1 \in T
  <2> SUFFICES ASSUME (k + 1) + 1 <= n PROVE (k + 1) + 1 \in S
    OBVIOUS
  <2> DEFINE i == (k + 1) + 1
  <2>1. i \in 1..n /\ i # 1 /\ i - 1 = k + 1 /\ k + 1 <= n
    OBVIOUS
  <2>2. k + 1 \in S
    BY <1>2, <2>1
  <2> HIDE DEF i
  <2>3. i \in S
    BY <2>1, <2>2
  <2> QED
    BY <2>3 DEF i
<1> HIDE DEF T
<1>3. \A k \in Nat : k \in T
  BY <1>1, <1>2, NaturalInduction
<1>4. ASSUME NEW i \in 1..n PROVE i \in S
  <2>1. i - 1 \in Nat /\ (i - 1) + 1 = i /\ i <= n
    OBVIOUS
  <2>2. i - 1 \in T
    BY <1>3, <2>1
  <2> QED
    BY <2>1, <2>2 DEF T
<1> QED
  BY <1>4

(* The elements of a list at the places of another.                        *)
LEMMA AtFacts ==
    ASSUME NEW s, IsSeq(s), NEW places, IsSeq(places), ToSet(places) \subseteq DOMAIN s
    PROVE  /\ IsSeq(At(s, places)) /\ Len(At(s, places)) = Len(places)
           /\ \A i \in 1..Len(places) : At(s, places)[i] = s[places[i]]
<1> DEFINE t == At(s, places)
<1>1. t = [i \in DOMAIN places |-> s[places[i]]]
  BY DEF At
<1>2. DOMAIN t = DOMAIN places /\ t = [i \in DOMAIN t |-> t[i]] /\ \A i \in DOMAIN places : t[i] = s[places[i]]
  BY <1>1
<1> HIDE DEF t
<1>3. IsSeq(t) /\ Len(t) = Len(places)
  BY <1>2, MapFacts
<1>4. \A i \in 1..Len(places) : t[i] = s[places[i]]
  BY <1>2, SeqFacts
<1> QED
  BY <1>3, <1>4 DEF t

LEMMA AtConcat ==
    ASSUME NEW s, IsSeq(s), NEW a, IsSeq(a), ToSet(a) \subseteq DOMAIN s,
           NEW b, IsSeq(b), ToSet(b) \subseteq DOMAIN s
    PROVE  At(s, a \o b) = At(s, a) \o At(s, b)
<1> DEFINE ab == a \o b
           t == At(s, ab)
           u == At(s, a)
           v == At(s, b)
           uv == u \o v
           m == Len(a)
           n == Len(b)
<1>1. m \in Nat /\ n \in Nat
  BY SeqFacts
<1>2. /\ IsSeq(ab) /\ Len(ab) = m + n /\ ToSet(ab) \subseteq DOMAIN s
      /\ \A i \in 1..m : ab[i] = a[i]
      /\ \A i \in 1..n : ab[m + i] = b[i]
  BY ConcatFacts
<1> HIDE DEF ab
<1>3. IsSeq(t) /\ Len(t) = m + n /\ \A i \in 1..(m + n) : t[i] = s[ab[i]]
  BY <1>2, AtFacts
<1>4. IsSeq(u) /\ Len(u) = m /\ \A i \in 1..m : u[i] = s[a[i]]
  BY AtFacts
<1>5. IsSeq(v) /\ Len(v) = n /\ \A i \in 1..n : v[i] = s[b[i]]
  BY AtFacts
<1> HIDE DEF t, u, v, m, n
<1>6. /\ IsSeq(uv) /\ Len(uv) = m + n
      /\ \A i \in 1..m : uv[i] = u[i]
      /\ \A i \in 1..n : uv[m + i] = v[i]
  <2>1. /\ IsSeq(u \o v) /\ Len(u \o v) = Len(u) + Len(v)
        /\ \A i \in 1..Len(u) : (u \o v)[i] = u[i]
        /\ \A i \in 1..Len(v) : (u \o v)[Len(u) + i] = v[i]
    <3>1. IsSeq(u) /\ IsSeq(v)
      BY <1>4, <1>5
    <3> QED
      BY ONLY <3>1, ConcatFacts
  <2>2. Len(u) = m /\ Len(v) = n
    BY <1>4, <1>5
  <2> QED
    BY <2>1, <2>2
<1> HIDE DEF uv
<1>7. ASSUME NEW i \in 1..(m + n) PROVE t[i] = uv[i]
  <2>1. CASE i <= m
    <3>1. i \in 1..m
      BY <1>1, <2>1
    <3> QED
      BY <1>2, <1>3, <1>4, <1>6, <3>1
  <2>2. CASE ~(i <= m)
    <3>1. i - m \in 1..n /\ m + (i - m) = i
      BY <1>1, <2>2
    <3> DEFINE j == i - m
    <3> HIDE DEF j
    <3>2. j \in 1..n /\ m + j = i
      BY <3>1 DEF j
    <3>3. ab[i] = b[j] /\ uv[i] = v[j] /\ v[j] = s[b[j]]
      BY <1>2, <1>5, <1>6, <3>2
    <3> QED
      BY <1>3, <3>3
  <2> QED
    BY <2>1, <2>2
<1>8. t = uv
  BY <1>3, <1>6, <1>7, EqualSeqs
<1> QED
  BY <1>8 DEF t, ab, uv, u, v

(* Joining elements is taking the elements at the joined places.           *)
LEMMA AtJoined ==
    ASSUME NEW s, IsSeq(s), NEW ss, IsSeq(ss), ss # <<>>,
           \A i \in 1..Len(ss) : IsSeq(ss[i]) /\ ToSet(ss[i]) \subseteq DOMAIN s,
           NEW tt, IsSeq(tt), Len(tt) = Len(ss), \A i \in 1..Len(ss) : tt[i] = At(s, ss[i])
    PROVE  FlattenSeq(tt) = At(s, FlattenSeq(ss))
<1> DEFINE n == Len(ss)
<1>1. n \in Nat /\ n # 0 /\ 1 \in 1..n /\ n \in 1..n
  BY SeqFacts
<1>2. tt # <<>>
  BY <1>1, EmptyFacts
<1>3. PICK g : IsJoined(ss, g)
  BY JoinedSoFar
<1>4. PICK h : IsJoined(tt, h)
  BY <1>2, JoinedSoFar
<1> DEFINE S == {i \in 1..n : IsSeq(g[i]) /\ ToSet(g[i]) \subseteq DOMAIN s /\ h[i] = At(s, g[i])}
<1>5. /\ g[1] = ss[1] /\ h[1] = tt[1] /\ g[n] = FlattenSeq(ss) /\ h[n] = FlattenSeq(tt)
      /\ \A i \in 1..n : i # 1 => g[i] = g[i - 1] \o ss[i] /\ h[i] = h[i - 1] \o tt[i]
  BY <1>3, <1>4 DEF IsJoined
<1> HIDE DEF n
<1>6. \A i \in 1..n : IsSeq(ss[i]) /\ ToSet(ss[i]) \subseteq DOMAIN s /\ tt[i] = At(s, ss[i])
  BY DEF n
<1>7. 1 \in S
  BY <1>1, <1>5, <1>6
<1>8. ASSUME NEW i \in 1..n, i # 1, i - 1 \in S PROVE i \in S
  <2> DEFINE a == g[i - 1]
             b == ss[i]
  <2>1. IsSeq(a) /\ ToSet(a) \subseteq DOMAIN s /\ h[i - 1] = At(s, a)
    BY <1>8
  <2>2. IsSeq(b) /\ ToSet(b) \subseteq DOMAIN s /\ tt[i] = At(s, b)
    BY <1>6
  <2>3. g[i] = a \o b /\ h[i] = h[i - 1] \o tt[i]
    BY <1>5, <1>8
  <2> HIDE DEF a, b
  <2>4. IsSeq(a \o b) /\ ToSet(a \o b) \subseteq DOMAIN s
    BY <2>1, <2>2, ConcatFacts
  <2>5. At(s, a \o b) = At(s, a) \o At(s, b)
    BY <2>1, <2>2, AtConcat
  <2>6. h[i] = At(s, a \o b)
    BY <2>1, <2>2, <2>3, <2>5
  <2> QED
    BY <2>3, <2>4, <2>6
<1> HIDE DEF S
<1>9. n \in S
  BY <1>1, <1>7, <1>8, JoinedAll
<1> QED
  BY <1>5, <1>9 DEF S

(* Pieces that share nothing, each without repetitions.                    *)
LEMMA JoinedOnce ==
    ASSUME NEW ss, IsSeq(ss), ss # <<>>, \A i \in 1..Len(ss) : IsSeq(ss[i]) /\ IsInjective(ss[i]),
           \A i, j \in 1..Len(ss) : i # j => ToSet(ss[i]) \cap ToSet(ss[j]) = {}
    PROVE  IsInjective(FlattenSeq(ss))
<1> DEFINE n == Len(ss)
           Good(h, i) == /\ IsSeq(h[i]) /\ IsInjective(h[i])
                         /\ \A x \in ToSet(h[i]) : \E j \in 1..i : x \in ToSet(ss[j])
<1>1. n \in Nat /\ n # 0 /\ 1 \in 1..n /\ n \in 1..n
  BY SeqFacts
<1>2. PICK h : IsJoined(ss, h)
  BY JoinedSoFar
<1>3. /\ h[1] = ss[1] /\ h[n] = FlattenSeq(ss)
      /\ \A i \in 1..n : i # 1 => h[i] = h[i - 1] \o ss[i]
  BY <1>2 DEF IsJoined
<1> HIDE DEF n
<1>4. \A i \in 1..n : IsSeq(ss[i]) /\ IsInjective(ss[i])
  BY DEF n
<1>5. \A i, j \in 1..n : i # j => ToSet(ss[i]) \cap ToSet(ss[j]) = {}
  BY DEF n
<1> DEFINE S == {i \in 1..n : Good(h, i)}
<1>6. 1 \in S
  <2>1. \A x \in ToSet(h[1]) : x \in ToSet(ss[1])
    BY <1>3
  <2>2. 1 \in 1..1
    OBVIOUS
  <2> QED
    BY <1>1, <1>3, <1>4, <2>1, <2>2
<1>7. ASSUME NEW i \in 1..n, i # 1, i - 1 \in S PROVE i \in S
  <2> DEFINE a == h[i - 1]
             b == ss[i]
  <2>1. IsSeq(a) /\ IsInjective(a) /\ \A x \in ToSet(a) : \E j \in 1..(i - 1) : x \in ToSet(ss[j])
    BY <1>7
  <2>2. IsSeq(b) /\ IsInjective(b)
    BY <1>4
  <2>3. h[i] = a \o b
    BY <1>3, <1>7
  <2>4. \A j \in 1..(i - 1) : j \in 1..n /\ j # i /\ j \in 1..i
    BY <1>1
  <2>5. i \in 1..i
    BY <1>1
  <2>6. \A x \in ToSet(a) : x \notin ToSet(b)
    <3> SUFFICES ASSUME NEW x \in ToSet(a), x \in ToSet(b) PROVE FALSE
      OBVIOUS
    <3>1. PICK j \in 1..(i - 1) : x \in ToSet(ss[j])
      BY <2>1
    <3> QED
      BY <1>5, <2>4, <3>1
  <2>7. \A x \in ToSet(b) : x \in ToSet(ss[i])
    OBVIOUS
  <2> HIDE DEF a, b
  <2>8. IsInjective(a \o b)
    BY <2>1, <2>2, <2>6, ConcatOnce
  <2>9. IsSeq(a \o b) /\ ToSet(a \o b) = ToSet(a) \cup ToSet(b)
    BY <2>1, <2>2, ConcatFacts
  <2>10. \A x \in ToSet(a \o b) : \E j \in 1..i : x \in ToSet(ss[j])
    BY <2>1, <2>4, <2>5, <2>7, <2>9
  <2>11. Good(h, i)
    BY <2>3, <2>8, <2>9, <2>10
  <2> QED
    BY <2>11
<1>8. n \in S
  <2> HIDE DEF S
  <2> QED
    BY <1>1, <1>6, <1>7, JoinedAll
<1> QED
  BY <1>3, <1>8

LEMMA ConcatEmpty ==
    ASSUME NEW s, IsSeq(s)
    PROVE  s \o <<>> = s
  BY DEF IsSeq

LEMMA ConcatAppend ==
    ASSUME NEW s, IsSeq(s), NEW t, IsSeq(t), NEW x
    PROVE  s \o Append(t, x) = Append(s \o t, x)
<1> DEFINE st == s \o t
           tx == Append(t, x)
           a == s \o tx
           b == Append(st, x)
           m == Len(s)
           n == Len(t)
<1>1. m \in Nat /\ n \in Nat
  BY SeqFacts
<1>2. IsSeq(tx) /\ Len(tx) = n + 1 /\ tx[n + 1] = x /\ \A i \in 1..n : tx[i] = t[i]
  BY AppendFacts
<1>3. IsSeq(st) /\ Len(st) = m + n /\ (\A i \in 1..m : st[i] = s[i]) /\ \A i \in 1..n : st[m + i] = t[i]
  BY ConcatFacts
<1> HIDE DEF tx, st, n
<1>4. IsSeq(a) /\ Len(a) = m + (n + 1) /\ (\A i \in 1..m : a[i] = s[i]) /\ \A i \in 1..(n + 1) : a[m + i] = tx[i]
  <2>1. IsSeq(s) /\ IsSeq(tx)
    BY <1>2
  <2>2. /\ IsSeq(a) /\ Len(a) = m + Len(tx) /\ (\A i \in 1..m : a[i] = s[i])
        /\ \A i \in 1..Len(tx) : a[m + i] = tx[i]
    BY ONLY <2>1, ConcatFacts
  <2> QED
    BY <1>2, <2>2
<1> HIDE DEF m, a
<1>5. IsSeq(b) /\ Len(b) = (m + n) + 1 /\ b[(m + n) + 1] = x /\ \A i \in 1..(m + n) : b[i] = st[i]
  <2>1. IsSeq(b) /\ Len(b) = Len(st) + 1 /\ b[Len(st) + 1] = x /\ \A i \in 1..Len(st) : b[i] = st[i]
    BY <1>3, AppendFacts
  <2> QED
    BY <1>3, <2>1
<1> HIDE DEF b
<1>6. ASSUME NEW i \in 1..((m + n) + 1) PROVE a[i] = b[i]
  <2>1. CASE i <= m
    <3>1. i \in 1..m /\ i \in 1..(m + n)
      BY <1>1, <2>1
    <3> QED
      BY <1>3, <1>4, <1>5, <3>1
  <2>2. CASE ~(i <= m) /\ i <= m + n
    <3> DEFINE j == i - m
    <3>1. j \in 1..n /\ j \in 1..(n + 1) /\ m + j = i /\ i \in 1..(m + n)
      BY <1>1, <2>2
    <3> HIDE DEF j
    <3>2. a[i] = tx[j] /\ st[i] = t[j] /\ b[i] = st[i] /\ tx[j] = t[j]
      BY <1>2, <1>3, <1>4, <1>5, <3>1
    <3> QED
      BY <3>2
  <2>3. CASE i = (m + n) + 1
    <3>1. n + 1 \in 1..(n + 1) /\ m + (n + 1) = i
      BY <1>1, <2>3
    <3>2. a[m + (n + 1)] = tx[n + 1]
      BY <1>4, <3>1
    <3> QED
      BY <1>2, <1>5, <2>3, <3>1, <3>2
  <2> QED
    BY <1>1, <2>1, <2>2, <2>3
<1>7. Len(a) = Len(b)
  BY <1>1, <1>4, <1>5
<1>8. a = b
  BY <1>4, <1>5, <1>6, <1>7, EqualSeqs
<1> QED
  BY <1>8 DEF a, b, tx, st

(* When all of S comes before all of T, keeping S and then T keeps both.   *)
LEMMA KeptParts ==
    ASSUME NEW s, IsSeq(s), NEW S, NEW T, NEW R,
           \A x \in ToSet(s) : (x \in R <=> x \in S \/ x \in T) /\ ~(x \in S /\ x \in T),
           \A i, j \in 1..Len(s) : s[i] \in T /\ s[j] \in S => j < i
    PROVE  Kept(s, R) = Kept(s, S) \o Kept(s, T)
<1> DEFINE c == <<S>>
           d == <<T>>
           e == <<R>>
           n == Len(s)
<1>1. c[1] = S /\ d[1] = T /\ e[1] = R
  OBVIOUS
<1> HIDE DEF c, d, e
<1>2. n \in Nat /\ DOMAIN s = 1..n /\ \A i \in 1..n : s[i] \in ToSet(s)
  BY SeqFacts
<1>3. \A i, j \in 1..n : s[i] \in T /\ s[j] \in S => j < i
  OBVIOUS
<1> HIDE DEF n
<1>4. PICK f : Keeping!IsTrace(c, <<>>, s, n, f)
  BY <1>2, NaturalInduction, Keeping!FoldTrace DEF Keeping!Induction
<1>5. PICK g : Keeping!IsTrace(d, <<>>, s, n, g)
  BY <1>2, NaturalInduction, Keeping!FoldTrace DEF Keeping!Induction
<1>6. PICK h : Keeping!IsTrace(e, <<>>, s, n, h)
  BY <1>2, NaturalInduction, Keeping!FoldTrace DEF Keeping!Induction
<1>7. /\ f[0] = <<>> /\ g[0] = <<>> /\ h[0] = <<>>
      /\ f[n] = Kept(s, S) /\ g[n] = Kept(s, T) /\ h[n] = Kept(s, R)
      /\ \A i \in 1..n : /\ f[i] = KeepIn(S, f[i - 1], s[i])
                         /\ g[i] = KeepIn(T, g[i - 1], s[i])
                         /\ h[i] = KeepIn(R, h[i - 1], s[i])
  BY <1>1, <1>4, <1>5, <1>6, KeptFold DEF Keeping!IsTrace, KeepStep
<1> DEFINE Good(k) == /\ IsSeq(f[k]) /\ IsSeq(g[k]) /\ h[k] = f[k] \o g[k]
                      /\ g[k] = <<>> \/ \E j \in 1..k : s[j] \in T
           P == {k \in Nat : k <= n => Good(k)}
<1> HIDE DEF Good
<1>8. 0 \in P
  <2>1. IsSeq(<<>>) /\ <<>> \o <<>> = <<>>
    BY EmptyFacts, ConcatEmpty
  <2>2. Good(0)
    BY <1>7, <2>1 DEF Good
  <2> QED
    BY <2>2
<1>9. ASSUME NEW k \in Nat, k \in P PROVE k + 1 \in P
  <2> SUFFICES ASSUME k + 1 <= n PROVE Good(k + 1)
    OBVIOUS
  <2> DEFINE i == k + 1
             x == s[i]
             a == f[k]
             b == g[k]
  <2>1. i \in 1..n /\ i - 1 = k /\ k <= n /\ i \in 1..i /\ \A j \in 1..k : j \in 1..n /\ j \in 1..i /\ ~(i < j)
    BY <1>2
  <2>2. IsSeq(a) /\ IsSeq(b) /\ h[k] = a \o b /\ (b = <<>> \/ \E j \in 1..k : s[j] \in T)
    BY <1>9, <2>1 DEF Good
  <2> HIDE DEF i
  <2>3. f[i] = KeepIn(S, a, x) /\ g[i] = KeepIn(T, b, x) /\ h[i] = KeepIn(R, h[k], x) /\ x \in ToSet(s)
    BY <1>2, <1>7, <2>1
  <2>4. (x \in R <=> x \in S \/ x \in T) /\ ~(x \in S /\ x \in T)
    BY <2>3
  <2>5. CASE x \in S
    <3>1. b = <<>>
      BY <1>3, <2>1, <2>2, <2>5
    <3> HIDE DEF x, a, b
    <3>2. f[i] = Append(a, x) /\ g[i] = <<>> /\ h[i] = Append(a, x)
      BY <2>2, <2>3, <2>4, <2>5, <3>1, ConcatEmpty DEF KeepIn
    <3>3. IsSeq(Append(a, x)) /\ IsSeq(<<>>) /\ Append(a, x) \o <<>> = Append(a, x)
      BY <2>2, AppendFacts, EmptyFacts, ConcatEmpty
    <3>4. Good(i)
      BY <3>2, <3>3 DEF Good
    <3> QED
      BY <3>4 DEF i
  <2>6. CASE x \in T
    <3> DEFINE bx == Append(b, x)
    <3> HIDE DEF a, b
    <3>1. f[i] = a /\ g[i] = bx /\ h[i] = Append(a \o b, x)
      BY <2>2, <2>3, <2>4, <2>6 DEF KeepIn
    <3>2. IsSeq(bx) /\ a \o bx = Append(a \o b, x)
      BY <2>2, AppendFacts, ConcatAppend
    <3>3. \E j \in 1..i : s[j] \in T
      BY <2>1, <2>6
    <3> HIDE DEF x, bx
    <3>4. Good(i)
      BY <2>2, <3>1, <3>2, <3>3 DEF Good
    <3> QED
      BY <3>4 DEF i
  <2>7. CASE x \notin S /\ x \notin T
    <3>1. f[i] = a /\ g[i] = b /\ h[i] = h[k]
      BY <2>3, <2>4, <2>7 DEF KeepIn
    <3>2. (\E j \in 1..k : s[j] \in T) => \E j \in 1..i : s[j] \in T
      BY <2>1
    <3> HIDE DEF x, a, b
    <3>3. Good(i)
      BY <2>2, <3>1, <3>2 DEF Good
    <3> QED
      BY <3>3 DEF i
  <2> QED
    BY <2>5, <2>6, <2>7
<1>10. n \in P
  <2> HIDE DEF P
  <2> QED
    BY <1>2, <1>8, <1>9, NaturalInduction
<1>11. Good(n)
  BY <1>2, <1>10
<1> QED
  BY <1>7, <1>11 DEF Good

---------------------------------------------------------------------------
(* Items dealt to groups.  of[i] is the group of the i-th one.             *)

Piece(its, of, g) == Kept(Indices(its), {i \in DOMAIN its : of[i] = g})
Pieces(its, of, n) == [g \in 1..n |-> Piece(its, of, g)]
Dealt(its, of, n) == \A i \in DOMAIN its : of[i] \in 1..n
Ascending(its, of) == \A i, j \in DOMAIN its : i < j => of[i] <= of[j]

LEMMA PieceFacts ==
    ASSUME NEW its, IsSeq(its), NEW of, NEW g
    PROVE  /\ IsSeq(Piece(its, of, g)) /\ IsInjective(Piece(its, of, g))
           /\ ToSet(Piece(its, of, g)) = {i \in DOMAIN its : of[i] = g}
           /\ Where(Indices(its), LAMBDA i : of[i] = g) = Piece(its, of, g)
<1> DEFINE s == Indices(its)
           S == {i \in DOMAIN its : of[i] = g}
<1>1. IsSeq(s) /\ IsInjective(s) /\ ToSet(s) = DOMAIN its
  BY IndicesFacts
<1>2. Where(s, LAMBDA i : of[i] = g) = Kept(s, S)
  BY <1>1 DEF Where
<1> HIDE DEF s
<1>3. IsSeq(Kept(s, S)) /\ IsInjective(Kept(s, S)) /\ ToSet(Kept(s, S)) = S
  <2>1. ToSet(s) \cap S = S
    BY <1>1
  <2> HIDE DEF S
  <2> QED
    BY <1>1, <2>1, KeptFacts
<1> QED
  BY <1>2, <1>3 DEF Piece, s

LEMMA PiecesSeq ==
    ASSUME NEW its, IsSeq(its), NEW of, NEW n \in Nat, n # 0
    PROVE  /\ IsSeq(Pieces(its, of, n)) /\ Len(Pieces(its, of, n)) = n /\ Pieces(its, of, n) # <<>>
           /\ \A g \in 1..n : Pieces(its, of, n)[g] = Piece(its, of, g)
<1> DEFINE ss == Pieces(its, of, n)
<1>1. DOMAIN ss = 1..n /\ ss = [g \in DOMAIN ss |-> ss[g]] /\ \A g \in 1..n : ss[g] = Piece(its, of, g)
  BY DEF Pieces
<1> HIDE DEF ss
<1>2. IsSeq(ss) /\ Len(ss) = n
  BY <1>1, SeqIntro
<1>3. ss # <<>>
  BY <1>2, EmptyFacts
<1> QED
  BY <1>1, <1>2, <1>3 DEF ss

(* Every place is in one piece, once.                                      *)
LEMMA PiecesOnce ==
    ASSUME NEW its, IsSeq(its), NEW of, NEW n \in Nat, n # 0, Dealt(its, of, n)
    PROVE  /\ IsSeq(FlattenSeq(Pieces(its, of, n))) /\ IsInjective(FlattenSeq(Pieces(its, of, n)))
           /\ ToSet(FlattenSeq(Pieces(its, of, n))) = DOMAIN its
           /\ Len(FlattenSeq(Pieces(its, of, n))) = Len(its)
<1> DEFINE ss == Pieces(its, of, n)
           order == FlattenSeq(ss)
<1>1. IsSeq(ss) /\ Len(ss) = n /\ ss # <<>>
      /\ \A g \in 1..n : /\ IsSeq(ss[g]) /\ IsInjective(ss[g])
                         /\ ToSet(ss[g]) = {i \in DOMAIN its : of[i] = g}
  <2>1. IsSeq(ss) /\ Len(ss) = n /\ ss # <<>> /\ \A g \in 1..n : ss[g] = Piece(its, of, g)
    BY PiecesSeq
  <2>2. \A g \in 1..n : /\ IsSeq(Piece(its, of, g)) /\ IsInjective(Piece(its, of, g))
                         /\ ToSet(Piece(its, of, g)) = {i \in DOMAIN its : of[i] = g}
    BY PieceFacts
  <2> HIDE DEF ss
  <2> QED
    BY <2>1, <2>2
<1> HIDE DEF ss
<1>2. IsSeq(order) /\ \A x : x \in ToSet(order) <=> \E g \in 1..n : x \in ToSet(ss[g])
  BY <1>1, FlattenFacts
<1>3. IsInjective(order)
  <2>1. \A g, k \in 1..n : g # k => ToSet(ss[g]) \cap ToSet(ss[k]) = {}
    BY <1>1
  <2>2. \A g \in 1..Len(ss) : IsSeq(ss[g]) /\ IsInjective(ss[g])
    BY <1>1
  <2>3. \A g, k \in 1..Len(ss) : g # k => ToSet(ss[g]) \cap ToSet(ss[k]) = {}
    BY <1>1, <2>1
  <2>4. IsSeq(ss) /\ ss # <<>>
    BY <1>1
  <2> QED
    BY ONLY <2>2, <2>3, <2>4, JoinedOnce
<1> HIDE DEF order
<1>4. ToSet(order) = DOMAIN its
  <2>1. ASSUME NEW x \in ToSet(order) PROVE x \in DOMAIN its
    BY <1>1, <1>2
  <2>2. ASSUME NEW x \in DOMAIN its PROVE x \in ToSet(order)
    <3>1. of[x] \in 1..n
      BY DEF Dealt
    <3> QED
      BY <1>1, <1>2, <3>1
  <2> QED
    BY <2>1, <2>2
<1>5. Len(order) = Len(its)
  <2>1. Cardinality(ToSet(order)) = Len(order)
    BY <1>2, <1>3, OnceSize
  <2>2. DOMAIN its = 1..Len(its) /\ Len(its) \in Nat
    BY SeqFacts
  <2>3. Cardinality(1..Len(its)) = Len(its)
    <3> DEFINE m == Len(its)
    <3>1. m \in Int /\ 1 \in Int /\ m >= 0
      BY <2>2
    <3> HIDE DEF m
    <3>2. Cardinality(1..m) = IF 1 > m THEN 0 ELSE m - 1 + 1
      BY ONLY <3>1, FS_Interval
    <3>3. Cardinality(1..m) = m
      BY <3>1, <3>2
    <3> QED
      BY <3>3 DEF m
  <2> QED
    BY <1>4, <2>1, <2>2, <2>3
<1> QED
  BY <1>2, <1>3, <1>4, <1>5 DEF order, ss

(* Groups that only grow cut the list into pieces.                         *)
LEMMA PiecesInOrder ==
    ASSUME NEW its, IsSeq(its), NEW of, NEW n \in Nat, n # 0, Dealt(its, of, n), Ascending(its, of)
    PROVE  FlattenSeq(Pieces(its, of, n)) = Indices(its)
<1> DEFINE ss == Pieces(its, of, n)
           s == Indices(its)
           Upto(g) == {i \in DOMAIN its : of[i] <= g}
           Exactly(g) == {i \in DOMAIN its : of[i] = g}
<1>1. IsSeq(ss) /\ Len(ss) = n /\ ss # <<>> /\ \A g \in 1..n : ss[g] = Kept(s, Exactly(g))
  BY PiecesSeq DEF Piece
<1>2. IsSeq(s) /\ Len(s) = Len(its) /\ ToSet(s) = DOMAIN its /\ (\A i \in DOMAIN its : s[i] = i)
      /\ DOMAIN its = 1..Len(its)
  BY IndicesFacts, SeqFacts
<1>3. \A i \in DOMAIN its : of[i] \in Int /\ 1 <= of[i] /\ of[i] <= n
  BY DEF Dealt
<1> HIDE DEF ss, s
<1>4. PICK h : IsJoined(ss, h)
  BY <1>1, JoinedSoFar
<1>5. /\ h[1] = Kept(s, Exactly(1)) /\ h[n] = FlattenSeq(ss) /\ 1 \in 1..n
      /\ \A g \in 1..n : g # 1 => h[g] = h[g - 1] \o Kept(s, Exactly(g))
  <2> HIDE DEF Exactly
  <2>1. /\ h[1] = ss[1] /\ h[n] = FlattenSeq(ss)
        /\ \A g \in 1..n : g # 1 => h[g] = h[g - 1] \o ss[g]
    BY <1>1, <1>4 DEF IsJoined
  <2>2. 1 \in 1..n
    OBVIOUS
  <2> QED
    BY <1>1, <2>1, <2>2
<1> DEFINE S == {g \in 1..n : h[g] = Kept(s, Upto(g))}
<1>6. 1 \in S
  <2>1. Exactly(1) = Upto(1)
    BY <1>3
  <2> QED
    BY <1>5, <2>1
<1>7. ASSUME NEW g \in 1..n, g # 1, g - 1 \in S PROVE g \in S
  <2> DEFINE A == Upto(g - 1)
             B == Exactly(g)
             C == Upto(g)
  <2>1. h[g] = Kept(s, A) \o Kept(s, B)
    BY <1>5, <1>7
  <2>2. \A x \in ToSet(s) : (x \in C <=> x \in A \/ x \in B) /\ ~(x \in A /\ x \in B)
    BY <1>2, <1>3
  <2>3. ASSUME NEW i \in 1..Len(s), NEW j \in 1..Len(s), s[i] \in B, s[j] \in A PROVE j < i
    <3>1. i \in DOMAIN its /\ j \in DOMAIN its /\ s[i] = i /\ s[j] = j
      BY <1>2
    <3>2. of[j] < of[i]
      BY <1>3, <2>3, <3>1
    <3>3. i \in Int /\ j \in Int
      BY <1>2
    <3> QED
      BY <1>3, <3>1, <3>2, <3>3 DEF Ascending
  <2> HIDE DEF A, B, C
  <2>4. Kept(s, C) = Kept(s, A) \o Kept(s, B)
    <3>1. IsSeq(s)
      BY <1>2
    <3>2. \A i, j \in 1..Len(s) : s[i] \in B /\ s[j] \in A => j < i
      BY <2>3
    <3> QED
      BY ONLY <3>1, <2>2, <3>2, KeptParts
  <2> QED
    BY <2>1, <2>4 DEF C
<1>8. n \in S
  <2> HIDE DEF S
  <2> QED
    BY <1>5, <1>6, <1>7, JoinedAll
<1>9. Kept(s, Upto(n)) = s
  <2>1. ToSet(s) \subseteq Upto(n)
    BY <1>2, <1>3
  <2> HIDE DEF Upto
  <2> QED
    BY <1>2, <2>1, KeptFacts
<1> QED
  BY <1>5, <1>8, <1>9 DEF ss, s

LEMMA IdsFacts ==
    ASSUME NEW its, IsSeq(its)
    PROVE  IsSeq(Ids(its)) /\ Len(Ids(its)) = Len(its) /\ DOMAIN Ids(its) = DOMAIN its
<1> DEFINE t == Ids(its)
<1>1. DOMAIN t = DOMAIN its /\ t = [i \in DOMAIN t |-> t[i]]
  BY DEF Ids
<1> HIDE DEF t
<1>2. IsSeq(t) /\ Len(t) = Len(its)
  BY <1>1, MapFacts
<1> QED
  BY <1>1, <1>2 DEF t

(* Dealing tests to groups loses none and repeats none.                    *)
LEMMA DealtCovers ==
    ASSUME NEW its, IsSeq(its), NEW of, NEW n \in Nat, n # 0, Dealt(its, of, n)
    PROVE  LET all == FlattenSeq([g \in 1..n |-> Ids(InGroup(its, of, g))])
           IN  SameThings(Ids(its), all) /\ (Ascending(its, of) => all = Ids(its))
<1> DEFINE s == Ids(its)
           ss == Pieces(its, of, n)
           tt == [g \in 1..n |-> Ids(InGroup(its, of, g))]
           order == FlattenSeq(ss)
<1>1. IsSeq(s) /\ Len(s) = Len(its) /\ DOMAIN s = DOMAIN its
  BY IdsFacts
<1>2. IsSeq(ss) /\ Len(ss) = n /\ ss # <<>> /\ \A g \in 1..n : ss[g] = Piece(its, of, g)
  BY PiecesSeq
<1>3. ASSUME NEW g \in 1..n PROVE /\ IsSeq(ss[g]) /\ ToSet(ss[g]) \subseteq DOMAIN s
                                  /\ tt[g] = At(s, ss[g])
  <2> DEFINE p == Piece(its, of, g)
  <2>1. IsSeq(p) /\ ToSet(p) \subseteq DOMAIN its /\ Where(Indices(its), LAMBDA i : of[i] = g) = p
    BY PieceFacts
  <2>2. InGroup(its, of, g) = At(its, p)
    BY <2>1 DEF InGroup
  <2> HIDE DEF p
  <2>3. \A i \in DOMAIN p : p[i] \in DOMAIN its
    BY <2>1 DEF ToSet
  <2>4. Ids(At(its, p)) = At(s, p)
    BY <2>3 DEF Ids, At
  <2>5. ss[g] = p
    BY <1>2 DEF p
  <2>6. tt[g] = Ids(At(its, p))
    BY <2>2
  <2> QED
    BY <1>1, <2>1, <2>4, <2>5, <2>6
<1>4. DOMAIN tt = 1..n /\ tt = [g \in DOMAIN tt |-> tt[g]]
  OBVIOUS
<1> HIDE DEF tt
<1>5. IsSeq(tt) /\ Len(tt) = n
  BY <1>4, SeqIntro
<1>6. /\ IsSeq(order) /\ IsInjective(order) /\ ToSet(order) = DOMAIN its /\ Len(order) = Len(its)
      /\ Ascending(its, of) => order = Indices(its)
  BY PiecesOnce, PiecesInOrder
<1> HIDE DEF ss, s
<1>7. FlattenSeq(tt) = At(s, order)
  <2>1. IsSeq(s) /\ IsSeq(ss) /\ ss # <<>> /\ IsSeq(tt) /\ Len(tt) = Len(ss)
    BY <1>1, <1>2, <1>5
  <2>2. \A i \in 1..Len(ss) : IsSeq(ss[i]) /\ ToSet(ss[i]) \subseteq DOMAIN s
    BY <1>2, <1>3
  <2>3. \A i \in 1..Len(ss) : tt[i] = At(s, ss[i])
    BY <1>2, <1>3
  <2> QED
    BY ONLY <2>1, <2>2, <2>3, AtJoined
<1> DEFINE all == FlattenSeq(tt)
<1> HIDE DEF order
<1>8. DOMAIN order = DOMAIN s
  BY <1>1, <1>6, SeqFacts
<1>9. all = [i \in DOMAIN s |-> s[order[i]]]
  BY <1>7, <1>8 DEF At
<1>10. SameThings(s, all)
  <2> HIDE DEF all
  <2> QED
    BY <1>1, <1>6, <1>9, Reordered
<1>11. Ascending(its, of) => all = s
  <2> SUFFICES ASSUME Ascending(its, of) PROVE all = s
    OBVIOUS
  <2>1. order = Indices(its) /\ \A i \in DOMAIN s : order[i] = i
    BY <1>1, <1>6, IndicesFacts
  <2>2. all = [i \in DOMAIN s |-> s[i]]
    BY <1>9, <2>1
  <2>3. s = [i \in DOMAIN s |-> s[i]]
    BY <1>1 DEF IsSeq
  <2> QED
    BY <2>2, <2>3
<1> QED
  BY <1>10, <1>11 DEF tt, s

(* duration_based_chunks: from test to test the group stays or is the next.*)
\* c = <<splits, whole>>
AssignStep(c, st, cost) == Assign(st, cost, c[1], c[2])
AssignHolds(c, i, st) ==
    /\ {"at", "spent", "group"} \subseteq DOMAIN st
    /\ st.at \in 1..c[1] /\ IsSeq(st.group) /\ Len(st.group) = i
    /\ \A j \in 1..i : st.group[j] \in 1..st.at
    /\ \A j, k \in 1..i : j < k => st.group[j] <= st.group[k]

Assigning == INSTANCE Folding WITH Step <- AssignStep, Holds <- AssignHolds

Assigned(splits, costs, whole) ==
    FoldLeft(LAMBDA st, cost : Assign(st, cost, splits, whole),
             [at |-> 1, spent |-> Nobody(splits), group |-> <<>>], costs)

LEMMA AssignedFold ==
    ASSUME NEW splits, NEW costs, NEW whole, NEW c, c[1] = splits, c[2] = whole
    PROVE  Assigned(splits, costs, whole)
               = Assigning!Fold(c, [at |-> 1, spent |-> Nobody(splits), group |-> <<>>], costs)
  BY DEF Assigned, Assigning!Fold, AssignStep, FoldLeft, MapThenFoldSet, Max, Assigning!Greatest

(* What a test more does: x is its group.                                  *)
LEMMA AssignFacts ==
    ASSUME NEW splits, NEW whole, NEW st, {"at", "spent", "group"} \subseteq DOMAIN st, NEW cost
    PROVE  LET t == Assign(st, cost, splits, whole)
           IN  /\ {"at", "spent", "group"} \subseteq DOMAIN t
               /\ t.at = st.at \/ (t.at = st.at + 1 /\ st.at < splits)
               /\ t.group = Append(st.group, t.at)
<1> DEFINE t == Assign(st, cost, splits, whole)
<1>1. CASE st.spent[st.at] * splits >= whole /\ st.at < splits
  <2>1. t = [at |-> st.at + 1, spent |-> [st.spent EXCEPT ![st.at + 1] = @ + cost],
             group |-> Append(st.group, st.at + 1)]
    BY <1>1 DEF Assign
  <2> HIDE DEF t
  <2>2. DOMAIN t = {"at", "spent", "group"} /\ t.at = st.at + 1 /\ t.group = Append(st.group, st.at + 1)
    BY <2>1
  <2> QED
    BY <1>1, <2>2 DEF t
<1>2. CASE ~(st.spent[st.at] * splits >= whole /\ st.at < splits)
  <2>1. t = [st EXCEPT !.spent[st.at] = @ + cost, !.group = Append(@, st.at)]
    BY <1>2 DEF Assign
  <2> HIDE DEF t
  <2>2. DOMAIN t = DOMAIN st /\ t.at = st.at /\ t.group = Append(st.group, st.at)
    BY <2>1
  <2> QED
    BY <2>2 DEF t
<1> QED
  BY <1>1, <1>2

LEMMA AssignHeld ==
    ASSUME NEW splits \in Nat, NEW whole, NEW c, c[1] = splits, c[2] = whole, NEW i \in Nat, i # 0,
           NEW st, AssignHolds(c, i - 1, st), NEW cost
    PROVE  AssignHolds(c, i, AssignStep(c, st, cost))
<1> DEFINE t == Assign(st, cost, splits, whole)
           g == st.group
           h == t.group
<1>1. /\ {"at", "spent", "group"} \subseteq DOMAIN st
      /\ st.at \in 1..splits /\ IsSeq(g) /\ Len(g) = i - 1
      /\ \A j \in 1..(i - 1) : g[j] \in 1..st.at
      /\ \A j, k \in 1..(i - 1) : j < k => g[j] <= g[k]
  BY DEF AssignHolds
<1>2. /\ {"at", "spent", "group"} \subseteq DOMAIN t
      /\ t.at = st.at \/ (t.at = st.at + 1 /\ st.at < splits)
      /\ h = Append(g, t.at)
  BY <1>1, AssignFacts
<1> HIDE DEF t, g
<1>3. t.at \in 1..splits /\ st.at <= t.at /\ st.at \in Int
  BY <1>1, <1>2
<1>4. IsSeq(h) /\ Len(h) = i /\ (\A j \in 1..(i - 1) : h[j] = g[j]) /\ h[i] = t.at
  <2>1. IsSeq(Append(g, t.at)) /\ Len(Append(g, t.at)) = Len(g) + 1
        /\ (\A j \in 1..Len(g) : Append(g, t.at)[j] = g[j]) /\ Append(g, t.at)[Len(g) + 1] = t.at
    BY <1>1, AppendFacts
  <2> QED
    BY <1>1, <1>2, <2>1
<1> HIDE DEF h
<1>5. ASSUME NEW j \in 1..i PROVE h[j] \in 1..t.at
  <2>1. CASE j = i
    BY <1>3, <1>4, <2>1
  <2>2. CASE j # i
    <3>1. j \in 1..(i - 1)
      BY <2>2
    <3> QED
      BY <1>1, <1>3, <1>4, <3>1
  <2> QED
    BY <2>1, <2>2
<1>6. ASSUME NEW j \in 1..i, NEW k \in 1..i, j < k PROVE h[j] <= h[k]
  <2>1. j \in 1..(i - 1)
    BY <1>6
  <2>2. CASE k = i
    BY <1>1, <1>3, <1>4, <2>1, <2>2
  <2>3. CASE k # i
    <3>1. k \in 1..(i - 1)
      BY <2>3
    <3> QED
      BY <1>1, <1>4, <1>6, <2>1, <3>1
  <2> QED
    BY <2>2, <2>3
<1>7. AssignHolds(c, i, t)
  BY <1>2, <1>3, <1>4, <1>5, <1>6 DEF AssignHolds, h
<1> QED
  BY <1>7 DEF AssignStep, t

LEMMA ChunksFacts ==
    ASSUME NEW splits \in Nat, splits # 0, NEW costs, IsSeq(costs), NEW whole
    PROVE  LET of == DurationBasedChunks(splits, costs, whole)
           IN  /\ \A i \in 1..Len(costs) : of[i] \in 1..splits
               /\ \A i, j \in 1..Len(costs) : i < j => of[i] <= of[j]
<1> DEFINE c == <<splits, whole>>
           st == [at |-> 1, spent |-> Nobody(splits), group |-> <<>>]
           n == Len(costs)
           r == Assigned(splits, costs, whole)
<1>1. c[1] = splits /\ c[2] = whole
  OBVIOUS
<1> HIDE DEF c
<1>2. n \in Nat /\ DOMAIN costs = 1..n
  BY SeqFacts
<1>3. AssignHolds(c, 0, st)
  <2>1. IsSeq(<<>>) /\ Len(<<>>) = 0
    BY EmptyFacts
  <2>2. 1..0 = {} /\ 1 \in 1..splits
    OBVIOUS
  <2> QED
    BY <1>1, <2>1, <2>2 DEF AssignHolds
<1> HIDE DEF st, n
<1>4. \A i \in 1..n : \A s : AssignHolds(c, i - 1, s) => AssignHolds(c, i, AssignStep(c, s, costs[i]))
  BY <1>1, AssignHeld
<1>5. AssignHolds(c, n, Assigning!Fold(c, st, costs))
  BY <1>2, <1>3, <1>4, NaturalInduction, Assigning!FoldHolds DEF Assigning!Induction
<1>6. r = Assigning!Fold(c, st, costs)
  BY <1>1, AssignedFold DEF st
<1>7. DurationBasedChunks(splits, costs, whole) = r.group
  BY DEF DurationBasedChunks, Assigned
<1> HIDE DEF r
<1>8. /\ r.at \in 1..splits /\ \A j \in 1..n : r.group[j] \in 1..r.at
      /\ \A j, k \in 1..n : j < k => r.group[j] <= r.group[k]
  BY <1>1, <1>5, <1>6 DEF AssignHolds
<1>9. \A j \in 1..n : r.group[j] \in 1..splits
  BY <1>8
<1> QED
  BY <1>7, <1>8, <1>9 DEF n

(* least_duration: the group with the least so far, and every test gets    *)
(* one.                                                                    *)
LEMMA LeastFacts ==
    ASSUME NEW n \in Nat, n # 0, NEW spent, DOMAIN spent = 1..n, \A g \in 1..n : spent[g] \in Nat
    PROVE  Least(spent) \in 1..n
<1> DEFINE S == 1..n
           R == {x \in S \X S : \/ spent[x[1]] < spent[x[2]]
                                \/ spent[x[1]] = spent[x[2]] /\ x[1] < x[2]}
<1>1. \A g, h \in S : <<g, h>> \in R <=> spent[g] < spent[h] \/ (spent[g] = spent[h] /\ g < h)
  OBVIOUS
<1>2. \A g \in S : spent[g] \in Int /\ g \in Int
  OBVIOUS
<1>3. IsFiniteSet(S) /\ Cardinality(S) = n
  <2>1. n \in Int /\ 1 \in Int /\ n >= 1
    OBVIOUS
  <2>2. IsFiniteSet(1..n) /\ Cardinality(1..n) = IF 1 > n THEN 0 ELSE n - 1 + 1
    BY ONLY <2>1, FS_Interval
  <2> QED
    BY <2>1, <2>2
<1> HIDE DEF R, S
<1>4. Orders(R, S)
  <2>1. \A x \in S : <<x, x>> \notin R
    BY <1>1, <1>2
  <2>2. ASSUME NEW x \in S, NEW y \in S, NEW z \in S, <<x, y>> \in R, <<y, z>> \in R PROVE <<x, z>> \in R
    <3>1. spent[x] < spent[y] \/ (spent[x] = spent[y] /\ x < y)
      BY <1>1, <2>2
    <3>2. spent[y] < spent[z] \/ (spent[y] = spent[z] /\ y < z)
      BY <1>1, <2>2
    <3>3. {spent[x], spent[y], spent[z], x, y, z} \subseteq Int
      BY <1>2
    <3>4. spent[x] < spent[z] \/ (spent[x] = spent[z] /\ x < z)
      BY ONLY <3>1, <3>2, <3>3
    <3> QED
      BY <1>1, <3>4
  <2>3. \A x, y \in S : x # y => <<x, y>> \in R \/ <<y, x>> \in R
    BY <1>1, <1>2
  <2> QED
    BY <2>1, <2>2, <2>3 DEF Orders
<1>5. PICK g \in S : Cardinality(BeforeIn(S, R, g)) = 0
  <2>1. 1 \in 1..Cardinality(S) /\ 1 - 1 = 0
    BY <1>3
  <2> QED
    BY <1>3, <1>4, <2>1, Ranks
<1>6. BeforeIn(S, R, g) = {}
  <2>1. BeforeIn(S, R, g) \subseteq S
    BY DEF BeforeIn
  <2>2. IsFiniteSet(BeforeIn(S, R, g))
    BY <1>3, <2>1, FS_Subset
  <2> QED
    BY <1>5, <2>2, FS_EmptySet
<1>7. ASSUME NEW h \in S PROVE spent[g] < spent[h] \/ (spent[g] = spent[h] /\ g <= h)
  <2>1. <<h, g>> \notin R
    BY <1>6 DEF BeforeIn
  <2>2. ~(spent[h] < spent[g] \/ (spent[h] = spent[g] /\ h < g))
    BY <1>1, <2>1
  <2>3. {spent[h], spent[g], h, g} \subseteq Int
    BY <1>2
  <2> QED
    BY ONLY <2>2, <2>3
<1>8. DOMAIN spent = S
  BY DEF S
<1>9. \E k \in DOMAIN spent : \A h \in DOMAIN spent : spent[k] < spent[h] \/ (spent[k] = spent[h] /\ k <= h)
  BY <1>7, <1>8
<1>10. Least(spent) \in DOMAIN spent
  BY <1>9 DEF Least
<1> QED
  BY <1>10

\* c = <<costs, splits, order>>
GiveStep(c, st, i) == Give(st, i, c[1][i], Least(st.spent))
GiveHolds(c, k, st) ==
    /\ {"spent", "group"} \subseteq DOMAIN st
    /\ DOMAIN st.spent = 1..c[2] /\ \A g \in 1..c[2] : st.spent[g] \in Nat
    /\ DOMAIN st.group = DOMAIN c[1]
    /\ \A j \in 1..k : st.group[c[3][j]] \in 1..c[2]

Giving == INSTANCE Folding WITH Step <- GiveStep, Holds <- GiveHolds

Balanced(costs, splits, order) ==
    FoldLeft(LAMBDA st, i : Give(st, i, costs[i], Least(st.spent)),
             [spent |-> Nobody(splits), group |-> [i \in DOMAIN costs |-> 0]], order)

LEMMA BalancedFold ==
    ASSUME NEW splits, NEW costs, NEW order, NEW c, c[1] = costs
    PROVE  Balanced(costs, splits, order)
               = Giving!Fold(c, [spent |-> Nobody(splits), group |-> [i \in DOMAIN costs |-> 0]], order)
  BY DEF Balanced, Giving!Fold, GiveStep, FoldLeft, MapThenFoldSet, Max, Giving!Greatest

LEMMA GiveHeld ==
    ASSUME NEW costs, \A i \in DOMAIN costs : costs[i] \in Nat, NEW splits \in Nat, splits # 0,
           NEW order, NEW c, c[1] = costs, c[2] = splits, c[3] = order,
           NEW k \in Nat, k # 0, order[k] \in DOMAIN costs, NEW st, GiveHolds(c, k - 1, st)
    PROVE  GiveHolds(c, k, GiveStep(c, st, order[k]))
<1> DEFINE g == Least(st.spent)
           i == order[k]
           t == Give(st, i, costs[i], g)
<1>1. /\ {"spent", "group"} \subseteq DOMAIN st
      /\ DOMAIN st.spent = 1..splits /\ \A h \in 1..splits : st.spent[h] \in Nat
      /\ DOMAIN st.group = DOMAIN costs
      /\ \A j \in 1..(k - 1) : st.group[order[j]] \in 1..splits
  BY DEF GiveHolds
<1>2. g \in 1..splits
  BY <1>1, LeastFacts
<1> HIDE DEF g
<1>3. t = [spent |-> [st.spent EXCEPT ![g] = @ + costs[i]], group |-> [st.group EXCEPT ![i] = g]]
  BY DEF Give
<1> HIDE DEF t
<1>4. /\ DOMAIN t = {"spent", "group"} /\ t.spent = [st.spent EXCEPT ![g] = @ + costs[i]]
      /\ t.group = [st.group EXCEPT ![i] = g]
  BY <1>3
<1>5. i \in DOMAIN costs /\ costs[i] \in Nat
  OBVIOUS
<1> HIDE DEF i
<1>6. DOMAIN t.spent = 1..splits /\ \A h \in 1..splits : t.spent[h] \in Nat
  BY <1>1, <1>2, <1>4, <1>5
<1>7. DOMAIN t.group = DOMAIN costs /\ t.group[i] = g /\ \A x \in DOMAIN costs : t.group[x] = IF x = i THEN g ELSE st.group[x]
  BY <1>1, <1>4, <1>5
<1>8. ASSUME NEW j \in 1..k PROVE t.group[order[j]] \in 1..splits
  <2>1. CASE order[j] = i
    BY <1>2, <1>7, <2>1
  <2>2. CASE order[j] # i
    <3>1. j \in 1..(k - 1)
      BY <2>2 DEF i
    <3>2. st.group[order[j]] \in 1..splits
      BY <1>1, <3>1
    <3>3. t.group[order[j]] = st.group[order[j]]
      <4> DEFINE x == order[j]
      <4> HIDE DEF x
      <4>1. x # i
        BY <2>2 DEF x
      <4>2. t.group[x] = st.group[x]
        BY <1>4, <4>1
      <4> QED
        BY <4>2 DEF x
    <3> QED
      BY <3>2, <3>3
  <2> QED
    BY <2>1, <2>2
<1>9. {"spent", "group"} \subseteq DOMAIN t
  BY <1>4
<1>10. GiveHolds(c, k, t)
  BY <1>6, <1>7, <1>8, <1>9 DEF GiveHolds
<1> QED
  BY <1>10 DEF GiveStep, t, i, g

(* The order in which the tests are dealt: each of them once.              *)
LongestFirst(costs, rank) ==
    Sorted(DOMAIN costs, LAMBDA i, j :
                            \/ costs[i] > costs[j]
                            \/ costs[i] = costs[j] /\ rank[i] < rank[j]
                            \/ costs[i] = costs[j] /\ rank[i] = rank[j] /\ i < j)

LEMMA LongestFirstFacts ==
    ASSUME NEW costs, IsSeq(costs), \A i \in DOMAIN costs : costs[i] \in Nat,
           NEW rank, \A i \in DOMAIN costs : rank[i] \in Nat
    PROVE  IsSeq(LongestFirst(costs, rank)) /\ ToSet(LongestFirst(costs, rank)) = DOMAIN costs
<1> DEFINE Sooner(i, j) == \/ costs[i] > costs[j]
                           \/ costs[i] = costs[j] /\ rank[i] < rank[j]
                           \/ costs[i] = costs[j] /\ rank[i] = rank[j] /\ i < j
           S == DOMAIN costs
           R == {x \in S \X S : Sooner(x[1], x[2])}
           ranked(k) == CHOOSE i \in S : Cardinality({j \in S : Sooner(j, i)}) = k - 1
           order == Sorted(S, LAMBDA i, j :
                            \/ costs[i] > costs[j]
                            \/ costs[i] = costs[j] /\ rank[i] < rank[j]
                            \/ costs[i] = costs[j] /\ rank[i] = rank[j] /\ i < j)
<1>1. order = [k \in 1..Cardinality(S) |-> ranked(k)]
  BY Zenon DEF Sorted
<1> HIDE DEF order
<1>2. \A i, j \in S : <<i, j>> \in R <=> Sooner(i, j)
  OBVIOUS
<1>3. \A i \in S : costs[i] \in Int /\ rank[i] \in Int /\ i \in Int
  BY SeqFacts
<1>4. IsFiniteSet(S)
  <2>1. S = 1..Len(costs) /\ Len(costs) \in Nat
    BY SeqFacts
  <2> QED
    BY <2>1, FS_Interval
<1> HIDE DEF R, S
<1>5. Orders(R, S)
  <2>1. \A x \in S : <<x, x>> \notin R
    BY <1>2, <1>3
  <2>2. ASSUME NEW x \in S, NEW y \in S, NEW z \in S, <<x, y>> \in R, <<y, z>> \in R PROVE <<x, z>> \in R
    <3>1. Sooner(x, y) /\ Sooner(y, z)
      BY <1>2, <2>2
    <3>2. {costs[x], costs[y], costs[z], rank[x], rank[y], rank[z], x, y, z} \subseteq Int
      BY <1>3
    <3>3. Sooner(x, z)
      BY ONLY <3>1, <3>2
    <3> QED
      BY <1>2, <3>3
  <2>3. ASSUME NEW x \in S, NEW y \in S, x # y PROVE <<x, y>> \in R \/ <<y, x>> \in R
    <3>1. {costs[x], costs[y], rank[x], rank[y], x, y} \subseteq Int
      BY <1>3
    <3>2. Sooner(x, y) \/ Sooner(y, x)
      BY ONLY <2>3, <3>1
    <3> QED
      BY <1>2, <3>2
  <2> QED
    BY <2>1, <2>2, <2>3 DEF Orders
<1> HIDE DEF Sooner
<1>6. \A i \in S : {j \in S : Sooner(j, i)} = BeforeIn(S, R, i)
  BY <1>2 DEF BeforeIn
<1>7. ASSUME NEW k \in 1..Cardinality(S)
      PROVE  ranked(k) \in S /\ Cardinality(BeforeIn(S, R, ranked(k))) = k - 1
  <2>1. PICK i \in S : Cardinality(BeforeIn(S, R, i)) = k - 1
    BY <1>4, <1>5, Ranks
  <2>2. \E x \in S : Cardinality({j \in S : Sooner(j, x)}) = k - 1
    BY <1>6, <2>1
  <2>3. ranked(k) \in S /\ Cardinality({j \in S : Sooner(j, ranked(k))}) = k - 1
    BY <2>2
  <2> QED
    BY <1>6, <2>3
<1> HIDE DEF ranked
<1>8. IsRanked(order, S, R)
  <2>1. DOMAIN order = 1..Cardinality(S) /\ order = [k \in DOMAIN order |-> order[k]]
        /\ \A k \in 1..Cardinality(S) : order[k] = ranked(k)
    BY <1>1
  <2> QED
    BY <1>7, <2>1 DEF IsRanked
<1>9. IsSeq(order) /\ ToSet(order) = S
  BY <1>4, <1>5, <1>8, RankedFacts
<1> QED
  BY <1>9 DEF LongestFirst, order, S

LEMMA BalancedFacts ==
    ASSUME NEW splits \in Nat, splits # 0, NEW costs, IsSeq(costs), \A i \in DOMAIN costs : costs[i] \in Nat,
           NEW rank, \A i \in DOMAIN costs : rank[i] \in Nat
    PROVE  \A i \in DOMAIN costs : LeastDuration(splits, costs, rank)[i] \in 1..splits
<1> DEFINE order == LongestFirst(costs, rank)
           c == <<costs, splits, order>>
           st == [spent |-> Nobody(splits), group |-> [i \in DOMAIN costs |-> 0]]
           n == Len(order)
           r == Balanced(costs, splits, order)
<1>1. LeastDuration(splits, costs, rank) = r.group
  BY DEF LeastDuration, Balanced, LongestFirst
<1>2. IsSeq(order) /\ ToSet(order) = DOMAIN costs
  BY LongestFirstFacts
<1> HIDE DEF order
<1>3. c[1] = costs /\ c[2] = splits /\ c[3] = order
  OBVIOUS
<1> HIDE DEF c
<1>4. n \in Nat /\ DOMAIN order = 1..n /\ \A k \in 1..n : order[k] \in DOMAIN costs
  BY <1>2, SeqFacts
<1>5. \A i \in DOMAIN costs : \E k \in 1..n : order[k] = i
  BY <1>2, SeqFacts
<1>6. r = Giving!Fold(c, st, order)
  BY <1>3, BalancedFold
<1> HIDE DEF n, r
<1>7. GiveHolds(c, 0, st)
  <2>1. DOMAIN st = {"spent", "group"} /\ DOMAIN st.spent = 1..splits /\ (\A g \in 1..splits : st.spent[g] = 0)
        /\ DOMAIN st.group = DOMAIN costs
    BY DEF Nobody
  <2>2. 1..0 = {}
    OBVIOUS
  <2> HIDE DEF st
  <2> QED
    BY <1>3, <2>1, <2>2 DEF GiveHolds
<1> HIDE DEF st
<1>8. \A k \in 1..n : \A s : GiveHolds(c, k - 1, s) => GiveHolds(c, k, GiveStep(c, s, order[k]))
  <2> SUFFICES ASSUME NEW k \in 1..n, NEW s, GiveHolds(c, k - 1, s)
               PROVE  GiveHolds(c, k, GiveStep(c, s, order[k]))
    OBVIOUS
  <2>1. k \in Nat /\ k # 0 /\ order[k] \in DOMAIN costs
    BY <1>4
  <2> QED
    BY <1>3, <2>1, GiveHeld
<1>9. GiveHolds(c, n, Giving!Fold(c, st, order))
  BY <1>4, <1>7, <1>8, NaturalInduction, Giving!FoldHolds DEF Giving!Induction
<1>10. \A k \in 1..n : r.group[order[k]] \in 1..splits
  BY <1>3, <1>6, <1>9 DEF GiveHolds
<1> QED
  BY <1>1, <1>5, <1>10

(* Sums of durations.                                                      *)
AddStep(c, a, b) == a + b
AddHolds(c, i, a) == a \in Nat

Adding == INSTANCE Folding WITH Step <- AddStep, Holds <- AddHolds

LEMMA SumFold ==
    ASSUME NEW s, NEW c
    PROVE  Sum(s) = Adding!Fold(c, 0, s)
  BY DEF Sum, Adding!Fold, AddStep, FoldLeft, MapThenFoldSet, Max, Adding!Greatest

LEMMA SumFacts ==
    ASSUME NEW s, IsSeq(s), \A i \in DOMAIN s : s[i] \in Nat
    PROVE  Sum(s) \in Nat
<1>1. Len(s) \in Nat /\ DOMAIN s = 1..Len(s)
  BY SeqFacts
<1>2. AddHolds(0, 0, 0)
  BY DEF AddHolds
<1>3. \A i \in 1..Len(s) : \A a : AddHolds(0, i - 1, a) => AddHolds(0, i, AddStep(0, a, s[i]))
  BY <1>1 DEF AddHolds, AddStep
<1>4. AddHolds(0, Len(s), Adding!Fold(0, 0, s))
  BY <1>1, <1>2, <1>3, NaturalInduction, Adding!FoldHolds DEF Adding!Induction
<1> QED
  BY <1>4, SumFold DEF AddHolds

(* What pytest-split knows of the durations of tests.                      *)
TimesOK(durations) == \A n \in DOMAIN durations : durations[n] \in Nat

LEMMA CostsFacts ==
    ASSUME NEW durations, TimesOK(durations), NEW its, IsSeq(its)
    PROVE  LET costs == ItemDurations(durations, its)
           IN  IsSeq(costs) /\ DOMAIN costs = DOMAIN its /\ \A i \in DOMAIN costs : costs[i] \in Nat
<1> DEFINE known == Where(its, LAMBDA it : it.id \in DOMAIN durations)
           costs == Costs(durations, its, known)
           all == [j \in DOMAIN known |-> durations[known[j].id]]
<1>1. ItemDurations(durations, its) = costs
  BY DEF ItemDurations
<1>2. IsSeq(known) /\ \A it \in ToSet(known) : it.id \in DOMAIN durations
  <2> DEFINE S == {it \in ToSet(its) : it.id \in DOMAIN durations}
  <2>1. known = Kept(its, S)
    BY DEF Where
  <2>2. \A it \in S : it.id \in DOMAIN durations
    OBVIOUS
  <2> HIDE DEF S, known
  <2> QED
    BY <2>1, <2>2, KeptFacts
<1> HIDE DEF known
<1>3. Len(known) \in Nat /\ \A j \in DOMAIN known : known[j] \in ToSet(known)
  BY <1>2, SeqFacts
<1>4. Sum(all) \in Nat
  <2>1. \A j \in DOMAIN known : durations[known[j].id] \in Nat
    BY <1>2, <1>3 DEF TimesOK
  <2>2. DOMAIN all = DOMAIN known /\ all = [j \in DOMAIN all |-> all[j]] /\ \A j \in DOMAIN known : all[j] \in Nat
    BY <2>1
  <2> HIDE DEF all
  <2>3. IsSeq(all)
    BY <1>2, <2>2, MapFacts
  <2> QED
    BY <2>2, <2>3, SumFacts
<1>5. DOMAIN costs = DOMAIN its /\ costs = [i \in DOMAIN costs |-> costs[i]]
      /\ \A i \in DOMAIN its :
            \/ costs[i] = 1
            \/ its[i].id \in DOMAIN durations /\ costs[i] = durations[its[i].id] * Len(known)
            \/ costs[i] = Sum(all)
  BY DEF Costs
<1> HIDE DEF all, costs
<1>6. \A i \in DOMAIN its : costs[i] \in Nat
  <2> SUFFICES ASSUME NEW i \in DOMAIN its PROVE costs[i] \in Nat
    OBVIOUS
  <2>1. CASE its[i].id \in DOMAIN durations /\ costs[i] = durations[its[i].id] * Len(known)
    <3> DEFINE a == durations[its[i].id]
               b == Len(known)
    <3>1. a \in Nat /\ b \in Nat
      BY <1>3, <2>1 DEF TimesOK
    <3> HIDE DEF a, b
    <3>2. a * b \in Nat
      BY ONLY <3>1
    <3> QED
      BY <2>1, <3>2 DEF a, b
  <2> QED
    BY <1>4, <1>5, <2>1
<1>7. IsSeq(costs)
  BY <1>5, MapFacts
<1> QED
  BY <1>1, <1>5, <1>6, <1>7

(* Every test gets a group, with the default algorithm no smaller one than *)
(* the tests before it.                                                    *)
RankedItems(its) == IsSeq(its) /\ \A it \in ToSet(its) : "rank" \in DOMAIN it /\ it.rank \in Nat

LEMMA GroupFacts ==
    ASSUME NEW opts, opts.splits \in Nat, opts.splits # 0, NEW its, RankedItems(its),
           NEW durations, TimesOK(durations)
    PROVE  LET of == GroupOf(opts, its, ItemDurations(durations, its))
           IN  Dealt(its, of, opts.splits) /\ (~opts.leastDuration => Ascending(its, of))
<1> DEFINE costs == ItemDurations(durations, its)
           n == opts.splits
           of == GroupOf(opts, its, costs)
           rank == [i \in DOMAIN its |-> its[i].rank]
<1>1. IsSeq(its) /\ \A i \in DOMAIN its : its[i].rank \in Nat
  BY DEF RankedItems, ToSet
<1>2. IsSeq(costs) /\ DOMAIN costs = DOMAIN its /\ \A i \in DOMAIN costs : costs[i] \in Nat
  BY <1>1, CostsFacts
<1> HIDE DEF costs
<1>3. CASE opts.leastDuration
  <2>1. of = LeastDuration(n, costs, rank)
    BY <1>3 DEF GroupOf
  <2>2. \A i \in DOMAIN costs : rank[i] \in Nat
    BY <1>1, <1>2
  <2> HIDE DEF rank, of
  <2>3. \A i \in DOMAIN costs : of[i] \in 1..n
    BY <1>2, <2>1, <2>2, BalancedFacts
  <2> QED
    BY <1>2, <1>3, <2>3 DEF Dealt, of, costs
<1>4. CASE ~opts.leastDuration
  <2> DEFINE whole == Sum(costs)
  <2>1. of = DurationBasedChunks(n, costs, whole)
    BY <1>4 DEF GroupOf
  <2> HIDE DEF whole, of
  <2>2. /\ \A i \in 1..Len(costs) : of[i] \in 1..n
        /\ \A i, j \in 1..Len(costs) : i < j => of[i] <= of[j]
    BY <1>2, <2>1, ChunksFacts
  <2>3. DOMAIN its = 1..Len(costs)
    BY <1>2, SeqFacts
  <2> QED
    BY <2>2, <2>3 DEF Dealt, Ascending, of, costs
<1> QED
  BY <1>3, <1>4

---------------------------------------------------------------------------
(* The items that are split: what the hooks and -k and -m leave of those   *)
(* that were collected.                                                    *)

RankedIt(it) == "rank" \in DOMAIN it /\ it.rank \in Nat

LEMMA RankedKept ==
    ASSUME NEW its, RankedItems(its), NEW S
    PROVE  RankedItems(Kept(its, S))
  BY KeptFacts DEF RankedItems

LEMMA ForeignRanked ==
    ASSUME NEW it, RankedIt(it), NEW node
    PROVE  RankedIt(ForeignItem(it, node))
<1> DEFINE t == ForeignItem(it, node)
<1>1. DOMAIN t = DOMAIN it /\ t.rank = it.rank
  BY DEF ForeignItem, RankedIt
<1> HIDE DEF t
<1>2. RankedIt(t)
  BY <1>1 DEF RankedIt
<1> QED
  BY <1>2 DEF t

LEMMA NodeRanked ==
    ASSUME NEW its, RankedItems(its), its # <<>>, NEW node, NEW same, IsSeq(same),
           ToSet(same) \subseteq DOMAIN its, NEW nth \in Nat, node.at # 0 => nth # 0
    PROVE  LET x == NodeItems(its, node, same, nth)
           IN  x = <<>> \/ \E it : x = <<it>> /\ RankedIt(it)
<1>1. IsSeq(its) /\ \A i \in DOMAIN its : RankedIt(its[i])
  BY DEF RankedItems, RankedIt, ToSet
<1>2. 1 \in DOMAIN its
  BY <1>1, SeqFacts
<1>3. CASE node.at = 0
  <2>1. NodeItems(its, node, same, nth) = <<ForeignItem(its[1], node)>>
    BY <1>3 DEF NodeItems
  <2>2. RankedIt(ForeignItem(its[1], node))
    BY <1>1, <1>2, ForeignRanked
  <2> QED
    BY <2>1, <2>2
<1>4. CASE node.at # 0 /\ nth > Len(same)
  BY <1>4 DEF NodeItems
<1>5. CASE node.at # 0 /\ ~(nth > Len(same))
  <2> DEFINE it == its[same[nth]]
             t == [it EXCEPT !.tags = node.tags]
  <2>1. NodeItems(its, node, same, nth) = <<t>>
    BY <1>5 DEF NodeItems
  <2>2. nth \in 1..Len(same)
    BY <1>5, SeqFacts
  <2>3. RankedIt(it)
    BY <1>1, <2>2, SeqFacts
  <2> HIDE DEF it
  <2>4. DOMAIN t = DOMAIN it /\ t.rank = it.rank
    BY <2>3 DEF RankedIt
  <2> HIDE DEF t
  <2>5. RankedIt(t)
    BY <2>3, <2>4 DEF RankedIt
  <2> QED
    BY <2>1, <2>5
<1> QED
  BY <1>3, <1>4, <1>5

(* A node of an item is at least the first with its ID.                    *)
LEMMA NthFacts ==
    ASSUME NEW nodes, IsSeq(nodes), NEW k \in DOMAIN nodes
    PROVE  Nth(nodes, k) \in Nat /\ (nodes[k].at # 0 => Nth(nodes, k) # 0)
<1> DEFINE S == {j \in 1..k : nodes[j].at # 0 /\ nodes[j].id = nodes[k].id}
<1>1. k \in Nat /\ k \in 1..k
  BY SeqFacts
<1>2. IsFiniteSet(1..k)
  BY <1>1, FS_Interval
<1>3. S \subseteq 1..k /\ (nodes[k].at # 0 => k \in S)
  BY <1>1
<1> HIDE DEF S
<1>4. IsFiniteSet(S)
  BY <1>2, <1>3, FS_Subset
<1>5. Cardinality(S) \in Nat /\ (Cardinality(S) = 0 => S = {})
  BY <1>4, FS_CardinalityType, FS_EmptySet
<1>6. Nth(nodes, k) = Cardinality(S)
  BY DEF Nth, S
<1> QED
  BY <1>3, <1>5, <1>6

LEMMA ReadBackRanked ==
    ASSUME NEW its, RankedItems(its), NEW nodes, IsSeq(nodes), its = <<>> => nodes = <<>>
    PROVE  RankedItems(ReadBack(its, nodes))
<1> DEFINE ss == [k \in DOMAIN nodes |->
                     NodeItems(its, nodes[k], SameId(its, nodes[k].id), Nth(nodes, k))]
<1>1. ASSUME NEW k \in DOMAIN nodes PROVE ss[k] = <<>> \/ \E it : ss[k] = <<it>> /\ RankedIt(it)
  <2> DEFINE node == nodes[k]
             same == SameId(its, node.id)
             nth == Nth(nodes, k)
  <2>1. ss[k] = NodeItems(its, node, same, nth)
    OBVIOUS
  <2>2. its # <<>>
    BY EmptyFacts
  <2>3. nth \in Nat /\ (node.at # 0 => nth # 0)
    BY NthFacts
  <2>4. IsSeq(same) /\ ToSet(same) \subseteq DOMAIN its
    <3>1. IsSeq(its)
      BY DEF RankedItems
    <3>2. PICK S : same = Kept(Indices(its), S)
      BY DEF SameId, Where
    <3> HIDE DEF same
    <3> QED
      BY <3>1, <3>2, IndicesFacts, KeptFacts
  <2> HIDE DEF ss, node, same, nth
  <2> QED
    BY <2>1, <2>2, <2>3, <2>4, NodeRanked
<1>2. DOMAIN ss = DOMAIN nodes /\ ss = [k \in DOMAIN ss |-> ss[k]]
  OBVIOUS
<1>3. ReadBack(its, nodes) = FlattenSeq(ss)
  BY DEF ReadBack
<1> HIDE DEF ss
<1>4. \A k \in DOMAIN nodes : IsSeq(ss[k]) /\ \A x \in ToSet(ss[k]) : RankedIt(x)
  <2> SUFFICES ASSUME NEW k \in DOMAIN nodes
               PROVE  IsSeq(ss[k]) /\ \A x \in ToSet(ss[k]) : RankedIt(x)
    OBVIOUS
  <2>1. CASE ss[k] = <<>>
    BY <2>1, EmptyFacts
  <2>2. CASE ss[k] # <<>>
    <3>1. PICK it : ss[k] = <<it>> /\ RankedIt(it)
      BY <1>1, <2>2
    <3>2. IsSeq(<<it>>) /\ ToSet(<<it>>) = {it}
      BY OneFacts
    <3> QED
      BY <3>1, <3>2
  <2> QED
    BY <2>1, <2>2
<1>5. IsSeq(FlattenSeq(ss)) /\ \A x \in ToSet(FlattenSeq(ss)) : \E k \in DOMAIN nodes : x \in ToSet(ss[k])
  BY <1>2, <1>4, FlattenMap
<1> QED
  BY <1>3, <1>4, <1>5 DEF RankedItems, RankedIt

LEMMA RunHooksRanked ==
    ASSUME NEW hooks, IsSeq(hooks), NEW its, RankedItems(its)
    PROVE  RankedItems(RunHooks(hooks, its).items)
<1> DEFINE nodes == NodesOf(its)
           called == CalledHooks(hooks, nodes)
<1>1. DOMAIN nodes = DOMAIN its /\ nodes = [i \in DOMAIN nodes |-> nodes[i]] /\ IsSeq(its)
  BY DEF NodesOf, RankedItems
<1>2. RunHooks(hooks, its).items \in {its, ReadBack(its, called)}
  BY DEF RunHooks, CalledHooks
<1> HIDE DEF nodes
<1>3. IsSeq(nodes) /\ Len(nodes) = Len(its)
  BY <1>1, MapFacts
<1>4. its = <<>> => nodes = <<>>
  BY <1>1, <1>3, SeqFacts
<1>5. IsSeq(called) /\ (its = <<>> => called = <<>>)
  BY <1>3, <1>4, CalledFacts
<1> HIDE DEF called
<1> QED
  BY <1>2, <1>5, ReadBackRanked

LEMMA SelectionRanked ==
    ASSUME NEW opts, NEW its, RankedItems(its)
    PROVE  RankedItems(ApplySelection(opts, its).kept)
<1> DEFINE k == Keyword(opts, its)
           a == AfterKeyword(opts, k)
<1>1. PICK S : k.kept = Kept(its, S)
  BY DEF Keyword, Partition, Where
<1>2. RankedItems(k.kept)
  BY <1>1, RankedKept
<1>3. ApplySelection(opts, its) \in {Stopped(its, <<>>, "usage"), Stopped(its, <<>>, "error"), a}
  BY DEF ApplySelection
<1> HIDE DEF k
<1>4. a.kept = k.kept \/ \E T : a.kept = Kept(k.kept, T)
  BY DEF AfterKeyword, Stopped, Where
<1> HIDE DEF a
<1>5. RankedItems(a.kept)
  BY <1>2, <1>4, RankedKept
<1> QED
  BY <1>3, <1>5 DEF Stopped

LEMMA FilteredRanked ==
    ASSUME RunsOK, RankedItems(items)
    PROVE  RankedItems(Filtered.items)
<1> DEFINE listed == Where(items, LAMBDA it : ~Deselected(o, it))
           h == RunHooks(HookOrder(o.hooks), listed)
           p == ApplySelection(o, h.items)
           n == Len(items) - Len(listed)
           picked == Picked(p, n)
<1>1. PICK S : listed = Kept(items, S)
  BY DEF Where
<1>2. RankedItems(listed)
  BY <1>1, RankedKept
<1>3. IsSeq(HookOrder(o.hooks))
  BY RunFacts, HookOrderFacts DEF OptionsOK
<1> HIDE DEF listed
<1>4. RankedItems(h.items)
  BY <1>2, <1>3, RunHooksRanked
<1> HIDE DEF h
<1>5. RankedItems(p.kept) /\ p.error \in {"ok", "usage", "error"}
  BY <1>4, SelectionRanked, ApplySelectionFacts DEF RankedItems
<1> HIDE DEF p, n
<1>6. \A code : RankedItems(Failed(code).items)
  BY EmptyFacts DEF Failed, RankedItems
<1>7. picked.items = p.kept \/ \E code : picked = Failed(code)
  BY <1>5 DEF Picked, Failed
<1>8. Filtered \in {Failed(USAGE_ERROR), Failed(INTERNAL_ERROR), picked}
  BY DEF Filtered, AfterDeselect, AfterHooks, listed, h, p, n
<1> HIDE DEF picked
<1> QED
  BY <1>5, <1>6, <1>7, <1>8

---------------------------------------------------------------------------
(* The durations that were stored.                                         *)

LEMMA StoredTimes ==
    ASSUME NEW opts, NEW c, TimesOK(c.durations), NEW rs, ReportsOK(rs)
    PROVE  TimesOK(SaveDurations(opts, c, rs))
<1> DEFINE counted == Where(rs, LAMBDA r : r.phase = "call" \/ r.time <= LongPhase)
           ids == {r.node : r \in ToSet(counted)}
           times(n) == [i \in DOMAIN counted |-> IF counted[i].node = n THEN counted[i].time ELSE 0]
           spent == [n \in ids |-> Sum(times(n))]
           both == Merge(spent, c.durations)
<1>1. SaveDurations(opts, c, rs) \in {c.durations, spent, both}
  BY DEF SaveDurations
<1>2. PICK S : counted = Kept(rs, S)
  BY DEF Where
<1> HIDE DEF counted
<1>3. IsSeq(counted) /\ \A i \in DOMAIN counted : counted[i].time \in Nat
  <2>1. IsSeq(rs) /\ \A r \in ToSet(rs) : r.time \in Nat
    BY DEF ReportsOK, ReportOK
  <2>2. IsSeq(counted) /\ ToSet(counted) \subseteq ToSet(rs)
    BY <1>2, <2>1, KeptFacts
  <2> QED
    BY <2>1, <2>2, SeqFacts
<1>4. ASSUME NEW n PROVE Sum(times(n)) \in Nat
  <2> DEFINE t == times(n)
  <2>1. DOMAIN t = DOMAIN counted /\ t = [i \in DOMAIN t |-> t[i]] /\ \A i \in DOMAIN t : t[i] \in Nat
    BY <1>3
  <2> HIDE DEF t
  <2>2. IsSeq(t)
    BY <1>3, <2>1, MapFacts
  <2>3. Sum(t) \in Nat
    BY <2>1, <2>2, SumFacts
  <2> QED
    BY <2>3 DEF t
<1> HIDE DEF times, ids
<1>5. DOMAIN spent = ids /\ \A n \in ids : spent[n] \in Nat
  BY <1>4
<1> HIDE DEF spent
<1>6. TimesOK(both)
  BY <1>5 DEF Merge, TimesOK
<1>7. TimesOK(spent)
  BY <1>5 DEF TimesOK
<1> HIDE DEF both
<1> QED
  BY <1>1, <1>6, <1>7

DurationsOK == TimesOK(cache.durations) /\ TimesOK(loaded.durations)

LEMMA NoTimes == TimesOK(EmptyCache.durations)
  BY EmptyFacts DEF TimesOK, EmptyCache

LEMMA SavedTimes ==
    ASSUME CacheShape(loaded), NEW its, NEW rs
    PROVE  Saved(its, rs).durations = loaded.durations /\ "durations" \in DOMAIN Saved(its, rs)
<1> DEFINE l == SaveLastFailed(loaded, rs, its)
           r == SaveResume(o, loaded, rs, total)
<1> HIDE DEF l, r
<1> DEFINE u == [loaded EXCEPT !.lastfailed = l, !.resume = r]
<1>1. Saved(its, rs) = u
  BY DEF Saved, l, r
<1>2. DOMAIN u = DOMAIN loaded /\ u.durations = loaded.durations
  BY DEF CacheShape
<1> QED
  BY <1>1, <1>2 DEF CacheShape

LEMMA DurationsInit == Init => DurationsOK
  BY NoTimes DEF Init, DurationsOK

LEMMA DurationsNext == ListsOK /\ CachesOK /\ DurationsOK /\ [Next]_vars => DurationsOK'
<1> SUFFICES ASSUME ListsOK, CachesOK, DurationsOK, [Next]_vars PROVE DurationsOK'
  OBVIOUS
<1>0. /\ TimesOK(cache.durations) /\ TimesOK(loaded.durations)
      /\ CacheShape(cache) /\ CacheShape(loaded) /\ ReportsOK(reports)
  BY DEF DurationsOK, CachesOK, ListsOK
<1>1. CASE UNCHANGED <<cache, loaded>>
  BY <1>1 DEF DurationsOK
<1>2. CASE ConfigurePlugins
  <2> DEFINE cleared == [EmptyCache EXCEPT !.durations = cache.durations]
             read == IF o.cacheClear THEN cleared ELSE cache
  <2>1. cleared.durations = cache.durations
    BY DEF EmptyCache
  <2>2. UNCHANGED <<cache, loaded>> \/ (loaded' = read /\ cache' = read)
    BY Zenon, <1>2 DEF ConfigurePlugins
  <2> HIDE DEF cleared
  <2>3. TimesOK(read.durations)
    BY <1>0, <2>1
  <2> HIDE DEF read
  <2> QED
    BY <1>0, <2>2, <2>3 DEF DurationsOK
<1>3. CASE HandleCollectionErrors
  <2>1. loaded' = loaded /\ cache' \in {cache, Saved(items, reports')}
    BY <1>3 DEF HandleCollectionErrors
  <2>2. Saved(items, reports').durations = loaded.durations
    BY <1>0, SavedTimes
  <2> QED
    BY <1>0, <2>1, <2>2 DEF DurationsOK
<1>4. CASE Select
  <2>1. cache' = cache /\ \E ids : loaded' \in {loaded, [loaded EXCEPT !.nodeids = ids]}
    BY Zenon, <1>4 DEF Select
  <2>2. PICK ids : loaded' \in {loaded, [loaded EXCEPT !.nodeids = ids]}
    BY <2>1
  <2>3. [loaded EXCEPT !.nodeids = ids].durations = loaded.durations
    BY <1>0 DEF CacheShape
  <2> QED
    BY <1>0, <2>1, <2>2, <2>3 DEF DurationsOK
<1>5. CASE HandleNoTests
  <2>1. loaded' = loaded /\ cache' = Saved(items, reports)
    BY <1>5 DEF HandleNoTests
  <2>2. Saved(items, reports).durations = loaded.durations
    BY <1>0, SavedTimes
  <2> QED
    BY <1>0, <2>1, <2>2 DEF DurationsOK
<1>6. CASE FinishSession
  <2> DEFINE kept == Saved(items, reports)
             d == SaveDurations(o, loaded, reports)
  <2>1. loaded' = loaded /\ cache' = [kept EXCEPT !.durations = d]
    BY <1>6 DEF FinishSession
  <2>2. "durations" \in DOMAIN kept
    BY <1>0, SavedTimes
  <2>3. TimesOK(d)
    BY <1>0, StoredTimes
  <2> HIDE DEF kept, d
  <2>4. (cache').durations = d
    BY <2>1, <2>2
  <2> QED
    BY <1>0, <2>1, <2>3, <2>4 DEF DurationsOK
<1>7. CASE NextRun
  <2>1. cache' = cache /\ loaded' = EmptyCache
    BY <1>7 DEF NextRun
  <2> QED
    BY <1>0, <2>1, NoTimes DEF DurationsOK
<1> QED
  BY <1>1, <1>2, <1>3, <1>4, <1>5, <1>6, <1>7 DEF Next, Over, vars, Boot, Configure, SessionStart, CollectItems,
     ListOnly, BeginLoop, RunItem, EndLoop, InternalError

(* The items that are selected from were collected, each with its rank.    *)
LEMMA ItemsRanked ==
    ASSUME OrderedOK, LfOK, stage = "select"
    PROVE  RankedItems(items)
<1> DEFINE its == col.ordered
<1>1. SameThings(col.before, its)
  BY ReorderThings DEF OrderedOK
<1>2. RankedItems(its)
  BY <1>1 DEF SameThings, OrderedOK, ItemOK, RankedItems
<1>3. items = FilterCollected(o, loaded, Project.files, ChosenByArgs(Prepare(Project, o), o, its))
  BY DEF LfOK
<1> HIDE DEF its
<1> DEFINE s == ChosenByArgs(Prepare(Project, o), o, its)
<1>4. PICK S : s \in {its, Kept(its, S)}
  BY DEF ChosenByArgs, Where
<1>5. RankedItems(s)
  BY <1>2, <1>4, RankedKept
<1> HIDE DEF s
<1>6. PICK T : FilterCollected(o, loaded, Project.files, s) \in {s, Kept(s, T)}
  BY DEF FilterCollected, Where
<1> QED
  BY <1>3, <1>5, <1>6, RankedKept DEF s

LEMMA SplitCovers ==
    ASSUME RunsOK, OrderedOK, LfOK, DurationsOK
    PROVE  SplitPartition
<1> DEFINE its == Filtered.items
           n == o.splits
           of == GroupOf(o, its, ItemDurations(loaded.durations, its))
           pieces == [g \in 1..n |-> Ids(InGroup(its, of, g))]
           all == FlattenSeq(pieces)
           tests == Ids(its)
<1> SUFFICES ASSUME stage = "select", n # 0
             PROVE  /\ Len(all) = Len(tests)
                    /\ \A x \in ToSet(tests) : Cardinality({i \in DOMAIN all : all[i] = x})
                                                   = Cardinality({i \in DOMAIN tests : tests[i] = x})
                    /\ ~o.leastDuration => all = tests
  BY DEF SplitPartition, SplitGroup
<1>1. RankedItems(its)
  BY ItemsRanked, FilteredRanked
<1>2. n \in Nat
  BY RunFacts DEF OptionsOK
<1>3. TimesOK(loaded.durations)
  BY DEF DurationsOK
<1> HIDE DEF its
<1>4. Dealt(its, of, n) /\ (~o.leastDuration => Ascending(its, of))
  BY <1>1, <1>2, <1>3, GroupFacts
<1>5. IsSeq(its)
  BY <1>1 DEF RankedItems
<1> HIDE DEF of, n
<1>6. SameThings(tests, all) /\ (Ascending(its, of) => all = tests)
  BY <1>2, <1>4, <1>5, DealtCovers
<1> HIDE DEF all, tests
<1>7. Len(all) = Len(tests) /\ \A x : Cardinality(PlacesOf(all, x)) = Cardinality(PlacesOf(tests, x))
  BY <1>6 DEF SameThings
<1> QED
  BY <1>4, <1>6, <1>7 DEF PlacesOf

(* The runs that each take one group of pytest-split, with either          *)
(* algorithm, any number of groups and any durations, run every selected   *)
(* test once between them; with the default one the groups are the list    *)
(* cut into pieces.                                                        *)
THEOREM SplitHolds == Spec => []SplitPartition
<1> DEFINE Inv == /\ HooksOK /\ RunsOK /\ ColOK /\ ListsOK /\ CachesOK /\ OrderedOK /\ LfOK
                  /\ DurationsOK
<1>1. Init => Inv
  BY HooksInit, RunsInit, ColInit, ListsInit, CachesInit, NothingOrdered, LfInit, DurationsInit DEF Init
<1>2. Inv /\ [Next]_vars => Inv'
  <2> SUFFICES ASSUME Inv, [Next]_vars PROVE Inv'
    OBVIOUS
  <2>1. HooksOK' /\ RunsOK' /\ ColOK' /\ ListsOK' /\ OrderedOK'
    BY HooksNext, RunsNext, ColNext, ListsNext, OrderedNext
  <2>2. CachesOK' /\ LfOK' /\ DurationsOK'
    BY <2>1, CachesNext, LfNext, DurationsNext
  <2> QED
    BY <2>1, <2>2
<1>3. Inv => SplitPartition
  BY SplitCovers
<1> QED
  BY <1>1, <1>2, <1>3, PTL DEF Spec

---------------------------------------------------------------------------
(* What is remembered of the tests that ran.                               *)

(* Whether a node is remembered after i of the reports rs, when kept0 was  *)
(* remembered before: some report adds it and none after it removes it, or *)
(* it was there and none removes it.                                       *)
AddedBy(n, rs, i) == \E j \in 1..i : Adds(n, rs[j]) /\ \A k \in 1..i : k > j => ~Removes(n, rs[k])
LeftBy(n, rs, i) == \A k \in 1..i : ~Removes(n, rs[k])

\* c = <<n, rs, kept0>>
TellStep(c, kept, r) == Remember(kept, r)
TellHolds(c, i, kept) ==
    /\ IsSeq(kept)
    /\ c[1] \in ToSet(kept) <=> AddedBy(c[1], c[2], i) \/ (c[1] \in ToSet(c[3]) /\ LeftBy(c[1], c[2], i))
Telling == INSTANCE Folding WITH Step <- TellStep, Holds <- TellHolds

LEMMA TellFold ==
    ASSUME NEW kept, NEW rs, NEW c
    PROVE  Remembered(kept, rs) = Telling!Fold(c, kept, rs)
  BY DEF Remembered, Telling!Fold, TellStep, FoldLeft, MapThenFoldSet, Max, Telling!Greatest

LEMMA RememberTells ==
    ASSUME NEW kept, IsSeq(kept), NEW r, NEW n
    PROVE  /\ IsSeq(Remember(kept, r))
           /\ Adds(n, r) => n \in ToSet(Remember(kept, r))
           /\ Removes(n, r) => n \notin ToSet(Remember(kept, r))
           /\ ~Adds(n, r) /\ ~Removes(n, r) => (n \in ToSet(Remember(kept, r)) <=> n \in ToSet(kept))
<1> DEFINE S == {m \in ToSet(kept) : m # r.node}
           cleared == (r.phase = "call" /\ r.outcome = "passed") \/ r.outcome \in {"skipped", "xfailed"}
<1>1. Where(kept, LAMBDA m : m # r.node) = Kept(kept, S)
  BY DEF Where
<1>2. Remember(kept, r) = IF cleared THEN Kept(kept, S)
                          ELSE IF r.outcome = "failed" /\ ~Contains(kept, r.node) THEN Append(kept, r.node)
                          ELSE kept
  BY <1>1 DEF Remember
<1>3. IsSeq(Kept(kept, S)) /\ ToSet(Kept(kept, S)) = ToSet(kept) \cap S
  BY KeptFacts
<1>4. IsSeq(Append(kept, r.node)) /\ ToSet(Append(kept, r.node)) = ToSet(kept) \cup {r.node}
  BY AppendFacts
<1>5. Contains(kept, r.node) <=> r.node \in ToSet(kept)
  BY ContainsIn
<1>6. ToSet(Kept(kept, S)) = {m \in ToSet(kept) : m # r.node}
  BY <1>3
<1> HIDE DEF S
<1>7. CASE cleared
  <2>1. Remember(kept, r) = Kept(kept, S) /\ r.outcome # "failed"
    BY <1>2, <1>7
  <2>2. ~Adds(n, r) /\ (Removes(n, r) <=> r.node = n)
    BY <1>7, <2>1 DEF Adds, Removes
  <2> QED
    BY <1>3, <1>6, <2>1, <2>2
<1>8. CASE ~cleared
  <2>1. ~Removes(n, r)
    BY <1>8 DEF Removes
  <2>2. CASE r.outcome = "failed" /\ ~Contains(kept, r.node)
    <3>1. Remember(kept, r) = Append(kept, r.node)
      BY <1>2, <1>8, <2>2
    <3> QED
      BY <1>4, <2>1, <2>2, <3>1 DEF Adds
  <2>3. CASE ~(r.outcome = "failed" /\ ~Contains(kept, r.node))
    <3>1. Remember(kept, r) = kept
      BY <1>2, <1>8, <2>3
    <3> QED
      BY <1>5, <2>1, <2>3, <3>1 DEF Adds
  <2> QED
    BY <2>2, <2>3
<1> QED
  BY <1>7, <1>8

(* One report more.                                                        *)
LEMMA OneReportMore ==
    ASSUME NEW n, NEW rs, NEW i \in Nat, i # 0
    PROVE  /\ Adds(n, rs[i]) => AddedBy(n, rs, i)
           /\ Removes(n, rs[i]) => ~AddedBy(n, rs, i) /\ ~LeftBy(n, rs, i)
           /\ ~Adds(n, rs[i]) /\ ~Removes(n, rs[i]) =>
                 /\ AddedBy(n, rs, i) <=> AddedBy(n, rs, i - 1)
                 /\ LeftBy(n, rs, i) <=> LeftBy(n, rs, i - 1)
<1>1. 1..i = 1..(i - 1) \cup {i} /\ i \in 1..i /\ \A j \in 1..(i - 1) : i > j
  OBVIOUS
<1>2. \A k \in 1..i : ~(k > i)
  OBVIOUS
<1>3. ASSUME Adds(n, rs[i]) PROVE AddedBy(n, rs, i)
  BY <1>1, <1>2, <1>3 DEF AddedBy
<1>4. ASSUME Removes(n, rs[i]) PROVE ~AddedBy(n, rs, i) /\ ~LeftBy(n, rs, i)
  <2>1. ~Adds(n, rs[i])
    BY <1>4 DEF Adds, Removes
  <2>2. ~LeftBy(n, rs, i)
    BY <1>1, <1>4 DEF LeftBy
  <2>3. ASSUME AddedBy(n, rs, i) PROVE FALSE
    <3>1. PICK j \in 1..i : Adds(n, rs[j]) /\ \A k \in 1..i : k > j => ~Removes(n, rs[k])
      BY <2>3 DEF AddedBy
    <3>2. j \in 1..(i - 1)
      BY <1>1, <2>1, <3>1
    <3> QED
      BY <1>1, <1>4, <3>1, <3>2
  <2> QED
    BY <2>2, <2>3
<1>5. ASSUME ~Adds(n, rs[i]), ~Removes(n, rs[i])
      PROVE  /\ AddedBy(n, rs, i) <=> AddedBy(n, rs, i - 1)
             /\ LeftBy(n, rs, i) <=> LeftBy(n, rs, i - 1)
  <2>1. LeftBy(n, rs, i) <=> LeftBy(n, rs, i - 1)
    BY <1>1, <1>5 DEF LeftBy
  <2>2. ASSUME AddedBy(n, rs, i) PROVE AddedBy(n, rs, i - 1)
    <3>1. PICK j \in 1..i : Adds(n, rs[j]) /\ \A k \in 1..i : k > j => ~Removes(n, rs[k])
      BY <2>2 DEF AddedBy
    <3>2. j \in 1..(i - 1)
      BY <1>1, <1>5, <3>1
    <3> QED
      BY <1>1, <3>1, <3>2 DEF AddedBy
  <2>3. ASSUME AddedBy(n, rs, i - 1) PROVE AddedBy(n, rs, i)
    <3>1. PICK j \in 1..(i - 1) : Adds(n, rs[j]) /\ \A k \in 1..(i - 1) : k > j => ~Removes(n, rs[k])
      BY <2>3 DEF AddedBy
    <3> QED
      BY <1>1, <1>5, <3>1 DEF AddedBy
  <2> QED
    BY <2>1, <2>2, <2>3
<1> QED
  BY <1>3, <1>4, <1>5

LEMMA RememberedTells ==
    ASSUME NEW kept, IsSeq(kept), NEW rs, IsSeq(rs), NEW n
    PROVE  n \in ToSet(Remembered(kept, rs)) <=>
              AddedBy(n, rs, Len(rs)) \/ (n \in ToSet(kept) /\ LeftBy(n, rs, Len(rs)))
<1> DEFINE c == <<n, rs, kept>>
<1>1. Len(rs) \in Nat /\ DOMAIN rs = 1..Len(rs)
  BY SeqFacts
<1>2. c[1] = n /\ c[2] = rs /\ c[3] = kept
  OBVIOUS
<1> HIDE DEF c
<1>3. ASSUME NEW i \in 1..Len(rs), NEW s, TellHolds(c, i - 1, s)
      PROVE  TellHolds(c, i, TellStep(c, s, rs[i]))
  <2> DEFINE t == Remember(s, rs[i])
  <2>1. IsSeq(s) /\ (n \in ToSet(s) <=> AddedBy(n, rs, i - 1) \/ (n \in ToSet(kept) /\ LeftBy(n, rs, i - 1)))
    BY <1>2, <1>3 DEF TellHolds
  <2>2. /\ IsSeq(t)
        /\ Adds(n, rs[i]) => n \in ToSet(t)
        /\ Removes(n, rs[i]) => n \notin ToSet(t)
        /\ ~Adds(n, rs[i]) /\ ~Removes(n, rs[i]) => (n \in ToSet(t) <=> n \in ToSet(s))
    BY <2>1, RememberTells
  <2> HIDE DEF t
  <2>3. i \in Nat /\ i # 0
    BY <1>1
  <2>4. /\ Adds(n, rs[i]) => AddedBy(n, rs, i)
        /\ Removes(n, rs[i]) => ~AddedBy(n, rs, i) /\ ~LeftBy(n, rs, i)
        /\ ~Adds(n, rs[i]) /\ ~Removes(n, rs[i]) =>
              /\ AddedBy(n, rs, i) <=> AddedBy(n, rs, i - 1)
              /\ LeftBy(n, rs, i) <=> LeftBy(n, rs, i - 1)
    BY <2>3, OneReportMore
  <2>5. n \in ToSet(t) <=> AddedBy(n, rs, i) \/ (n \in ToSet(kept) /\ LeftBy(n, rs, i))
    BY ONLY <2>1, <2>2, <2>4
  <2> QED
    BY <1>2, <2>2, <2>5 DEF TellHolds, TellStep, t
<1>4. TellHolds(c, 0, kept)
  BY <1>2 DEF TellHolds, AddedBy, LeftBy
<1>5. TellHolds(c, Len(rs), Telling!Fold(c, kept, rs))
  BY <1>1, <1>3, <1>4, NaturalInduction, Telling!FoldHolds DEF Telling!Induction
<1> QED
  BY <1>2, <1>5, TellFold DEF TellHolds

(* A failure at the end is remembered, what passed or was skipped at the   *)
(* end is not, and of what no report names nothing changes.                *)
LEMMA RememberedTrue ==
    ASSUME NEW kept, IsSeq(kept), NEW rs, IsSeq(rs), NEW n
    PROVE  /\ Fatal(n, rs) => n \in ToSet(Remembered(kept, rs))
           /\ Clears(n, rs) => n \notin ToSet(Remembered(kept, rs))
           /\ (\A r \in ToSet(rs) : r.node # n) => (n \in ToSet(Remembered(kept, rs)) <=> n \in ToSet(kept))
<1> DEFINE m == Len(rs)
<1>0. m \in Nat /\ \A i \in 1..m : rs[i] \in ToSet(rs)
  BY SeqFacts
<1>1. n \in ToSet(Remembered(kept, rs)) <=> AddedBy(n, rs, m) \/ (n \in ToSet(kept) /\ LeftBy(n, rs, m))
  BY RememberedTells
<1> HIDE DEF m
<1>2. Fatal(n, rs) => AddedBy(n, rs, m)
  BY DEF Fatal, AddedBy, m
<1>3. ASSUME Clears(n, rs) PROVE ~AddedBy(n, rs, m) /\ ~LeftBy(n, rs, m)
  <2>1. PICK i \in 1..m : Removes(n, rs[i]) /\ \A j \in 1..m : j > i => ~Adds(n, rs[j])
    BY <1>3 DEF Clears, m
  <2>2. ~LeftBy(n, rs, m)
    BY <2>1 DEF LeftBy
  <2>3. ASSUME AddedBy(n, rs, m) PROVE FALSE
    <3>1. PICK j \in 1..m : Adds(n, rs[j]) /\ \A k \in 1..m : k > j => ~Removes(n, rs[k])
      BY <2>3 DEF AddedBy
    <3>2. j # i
      BY <2>1, <3>1 DEF Adds, Removes
    <3>3. j > i \/ i > j
      BY <1>0, <3>2
    <3> QED
      BY <2>1, <3>1, <3>3
  <2> QED
    BY <2>2, <2>3
<1>4. ASSUME \A r \in ToSet(rs) : r.node # n PROVE ~AddedBy(n, rs, m) /\ LeftBy(n, rs, m)
  BY <1>0, <1>4 DEF AddedBy, LeftBy, Adds, Removes
<1> QED
  BY <1>1, <1>2, <1>3, <1>4

(* The reports are about files, which have no name, or about tests that    *)
(* ran, and they bear out what is known of those; a run that kept its      *)
(* cache kept what its reports say.                                        *)
TruthOK ==
    /\ \A r \in ToSet(reports) : r.node.name = "" \/ r.node \in Ran
    /\ \A n \in Ran : Honest(verdict[n], n, reports)
KeptOK ==
    Ended /\ "save" \in ToSet(events) => cache.lastfailed = SaveLastFailed(loaded, reports, items)

LEMMA NoPlaces == 1..0 = {}
  OBVIOUS

LEMMA NothingRan == pos = 0 => Ran = {}
<1>1. pos = 0 => 1..pos = {}
  BY NoPlaces
<1> QED
  BY <1>1, Zenon DEF Ran

LEMMA FileTruth ==
    ASSUME pos' = 0, \A r \in ToSet(reports') : r.node.name = ""
    PROVE  TruthOK'
<1>0. 1..pos' = {}
  BY NoPlaces
<1>1. Ran' = {}
  BY <1>0, Zenon DEF Ran
<1> QED
  BY <1>1 DEF TruthOK

LEMMA CollectTruth ==
    ASSUME HooksOK, RunsOK, CollectItems
    PROVE  TruthOK'
<1> DEFINE p == Prepare(Project, o)
           c == Collect(p, o)
<1>1. CollectedOK(p, o, c)
  BY RunFacts, PrepareFacts, CollectFacts
<1>2. reports' = (IF c.status = "ok" THEN c.reports ELSE <<>>) /\ pos' = pos /\ stage = "collect"
  BY DEF CollectItems
<1> HIDE DEF p, c
<1>3. FileReports(reports')
  BY <1>1, <1>2, NoFileReports DEF CollectedOK
<1>4. \A r \in ToSet(reports') : r.node.name = ""
  BY <1>3 DEF FileReports, FileReport
<1>5. pos' = 0
  BY <1>2 DEF HooksOK
<1> QED
  BY <1>4, <1>5, FileTruth

LEMMA ErrorNodes ==
    ASSUME ColOK
    PROVE  \A r \in ToSet(ErrorReports) : r.node.name = ""
<1>1. IsSeq(col.errors) /\ \A i \in 1..Len(col.errors) : col.errors[i].name = ""
  BY SeqFacts DEF ColOK, FileNodes
<1>2. \A i \in 1..Len(col.errors) : ErrorReports[i].node = col.errors[i]
  BY DEF ErrorReports, Report
<1>3. ToSet(ErrorReports) = {ErrorReports[i] : i \in 1..Len(col.errors)}
  BY DEF ToSet, ErrorReports
<1> QED
  BY <1>1, <1>2, <1>3

LEMMA ErrorsTruth ==
    ASSUME HooksOK, ColOK, ListsOK, TruthOK, HandleCollectionErrors
    PROVE  TruthOK'
<1>1. reports' = reports \o ErrorReports /\ pos' = pos /\ pos = 0
  BY DEF HandleCollectionErrors, ErrorReports, chosen, HooksOK
<1>2. \A r \in ToSet(reports) : r.node.name = ""
  BY <1>1, NothingRan DEF TruthOK
<1>3. IsSeq(reports) /\ IsSeq(ErrorReports)
  BY ErrorReportsFacts DEF ListsOK, ReportsOK
<1>4. ToSet(reports') = ToSet(reports) \cup ToSet(ErrorReports)
  BY <1>1, <1>3, ConcatFacts
<1>5. \A r \in ToSet(reports') : r.node.name = ""
  BY <1>2, <1>4, ErrorNodes
<1> QED
  BY <1>1, <1>5, FileTruth

LEMMA SelectTruth ==
    ASSUME HooksOK, TruthOK, Select
    PROVE  TruthOK'
<1>1. reports' = reports /\ pos' = pos /\ pos = 0
  BY DEF Select, HooksOK
<1>2. \A r \in ToSet(reports) : r.node.name = ""
  BY <1>1, NothingRan DEF TruthOK
<1> QED
  BY <1>1, <1>2, FileTruth

(* An item's reports are about itself, and bear out the verdict on it; of  *)
(* the other tests they say nothing.                                       *)
LEMMA RunTruth ==
    ASSUME RunsOK, ListsOK, LoopOK, TruthOK, RunItem
    PROVE  TruthOK'
<1> DEFINE it == items[pos + 1]
<1>1. PICK bs, r : /\ r = RunOne(o, it, bs)
                   /\ ReportsOK(r.reports) /\ About(it.id, r.reports)
                   /\ Honest(Verdict(it.id, r.reports), it.id, r.reports)
                   /\ AfterItem(it, Head(bs), r) /\ pos' = pos + 1
  BY ItemRun
<1> DEFINE rs == r.reports
           v == Verdict(it.id, rs)
<1>2. items' = items /\ pos \in Nat
  BY DEF RunItem, LoopOK
<1>3. /\ reports' = reports \o rs
      /\ verdict' = [m \in DOMAIN verdict \cup {it.id} |-> IF m = it.id THEN Verdict(m, rs) ELSE verdict[m]]
  BY <1>1 DEF AfterItem
<1>4. verdict'[it.id] = v /\ \A m \in DOMAIN verdict : m # it.id => verdict'[m] = verdict[m]
  BY <1>3
<1>5. IsSeq(reports) /\ IsSeq(rs)
  BY <1>1 DEF ListsOK, ReportsOK
<1>6. Honest(v, it.id, rs) /\ \A x \in ToSet(rs) : x.node = it.id
  BY <1>1 DEF About
<1> HIDE DEF rs, v
<1>7. Ran' = Ran \cup {it.id}
  <2>1. 1..pos' = 1..pos \cup {pos + 1}
    BY <1>1, <1>2
  <2> QED
    BY <1>2, <2>1 DEF Ran
<1>8. Ran \subseteq DOMAIN verdict
  BY DEF Ran, LoopOK
<1> HIDE DEF it
<1>9. ToSet(reports') = ToSet(reports) \cup ToSet(rs)
  BY <1>3, <1>5, ConcatFacts
<1>10. \A x \in ToSet(reports') : x.node.name = "" \/ x.node \in Ran'
  BY <1>6, <1>7, <1>9 DEF TruthOK
<1>11. ASSUME NEW n \in Ran' PROVE Honest(verdict'[n], n, reports')
  <2>1. CASE n = it.id
    <3>1. Honest(v, it.id, reports \o rs)
      BY <1>5, <1>6, HonestAfter
    <3> QED
      BY <1>3, <1>4, <2>1, <3>1
  <2>2. CASE n # it.id
    <3>1. n \in Ran /\ verdict'[n] = verdict[n]
      BY <1>4, <1>7, <1>8, <1>11, <2>2
    <3>2. Honest(verdict[n], n, reports) /\ \A x \in ToSet(rs) : x.node # n
      BY <1>6, <2>2, <3>1 DEF TruthOK
    <3>3. Honest(verdict[n], n, reports \o rs)
      BY <1>5, <3>2, HonestBefore
    <3> QED
      BY <1>3, <3>1, <3>3
  <2> QED
    BY <2>1, <2>2
<1> QED
  BY <1>10, <1>11 DEF TruthOK

LEMMA TruthInit == Init => TruthOK
<1> SUFFICES ASSUME Init PROVE TruthOK
  OBVIOUS
<1>1. pos = 0 /\ reports = <<>>
  BY DEF Init
<1> QED
  BY <1>1, EmptyFacts, NothingRan DEF TruthOK

LEMMA TruthNext ==
    HooksOK /\ RunsOK /\ ColOK /\ ListsOK /\ LoopOK /\ TruthOK /\ [Next]_vars => TruthOK'
<1> SUFFICES ASSUME HooksOK, RunsOK, ColOK, ListsOK, LoopOK, TruthOK, [Next]_vars PROVE TruthOK'
  OBVIOUS
<1>1. CASE CollectItems
  BY <1>1, CollectTruth
<1>2. CASE HandleCollectionErrors
  BY <1>2, ErrorsTruth
<1>3. CASE Select
  BY <1>3, SelectTruth
<1>4. CASE RunItem
  BY <1>4, RunTruth
<1>5. CASE NextRun
  <2>1. pos' = 0 /\ reports' = <<>>
    BY <1>5 DEF NextRun
  <2> QED
    BY <2>1, EmptyFacts, FileTruth
<1>6. CASE UNCHANGED <<chosen, reports, verdict>>
  BY <1>6 DEF TruthOK, Ran, chosen
<1> QED
  BY <1>1, <1>2, <1>3, <1>4, <1>5, <1>6 DEF Next, vars, chosen, Boot, ConfigurePlugins, Configure, SessionStart,
     ListOnly, BeginLoop, EndLoop, InternalError, HandleNoTests, FinishSession, Over

(* Most ways a run ends keep nothing.                                      *)
LEMMA NotKept ==
    ASSUME IsSeq(events), "save" \notin ToSet(events), NEW code, NEW hooks, End(code, hooks),
           IsSeq(hooks), "save" \notin ToSet(hooks)
    PROVE  KeptOK'
<1>1. ToSet(events') = ToSet(events) \cup ToSet(hooks)
  BY ConcatFacts DEF End, Call
<1> QED
  BY <1>1 DEF KeptOK

LEMMA NotKeptHooks ==
    ASSUME IsSeq(events), "save" \notin ToSet(events), NEW code,
           \/ End(code, <<>>)
           \/ \E a \in {"sessionfinish", "unconfigure"} : End(code, <<a>>)
           \/ \E a \in {"configure", "sessionstart"} : End(code, <<a, "unconfigure">>)
           \/ \E a \in {"configure", "sessionstart"} : \E needed : End(code, <<a>> \o Unconfigure(needed))
    PROVE  KeptOK'
<1>1. ASSUME End(code, <<>>) PROVE KeptOK'
  BY <1>1, EmptyFacts, NotKept
<1>2. ASSUME NEW a \in {"sessionfinish", "unconfigure"}, End(code, <<a>>) PROVE KeptOK'
  <2>1. IsSeq(<<a>>) /\ "save" \notin ToSet(<<a>>)
    BY OneFacts
  <2> QED
    BY <1>2, <2>1, NotKept
<1>3. ASSUME NEW a \in {"configure", "sessionstart"}, End(code, <<a, "unconfigure">>) PROVE KeptOK'
  <2>1. IsSeq(<<a, "unconfigure">>) /\ "save" \notin ToSet(<<a, "unconfigure">>)
    BY TwoFacts
  <2> QED
    BY <1>3, <2>1, NotKept
<1>4. ASSUME NEW a \in {"configure", "sessionstart"}, NEW needed, End(code, <<a>> \o Unconfigure(needed))
      PROVE  KeptOK'
  <2> DEFINE u == Unconfigure(needed)
             h == <<a>> \o u
  <2>1. u = <<>> \/ u = <<"unconfigure">>
    BY DEF Unconfigure
  <2>2. IsSeq(u) /\ "save" \notin ToSet(u)
    BY <2>1, EmptyFacts, OneFacts
  <2>3. IsSeq(<<a>>) /\ "save" \notin ToSet(<<a>>)
    BY OneFacts
  <2> HIDE DEF u
  <2>4. IsSeq(h) /\ "save" \notin ToSet(h)
    BY <2>2, <2>3, ConcatFacts
  <2>5. End(code, h)
    BY <1>4 DEF u
  <2> HIDE DEF h
  <2> QED
    BY <2>4, <2>5, NotKept
<1> QED
  BY <1>1, <1>2, <1>3, <1>4

LEMMA EarlyKept ==
    ASSUME HooksOK, Boot \/ ConfigurePlugins \/ Configure \/ SessionStart \/ CollectItems
    PROVE  KeptOK'
<1>1. stage \in {"boot", "plugins", "configure", "start", "collect"}
  BY DEF Boot, ConfigurePlugins, Configure, SessionStart, CollectItems
<1>2. IsSeq(events) /\ "save" \notin ToSet(events)
  BY <1>1, BegunFacts DEF HooksOK
<1>3. ASSUME stage' # "ended" PROVE KeptOK'
  BY <1>3 DEF KeptOK, Ended
<1>4. CASE Boot
  BY <1>2, <1>3, <1>4, NotKeptHooks DEF Boot
<1>5. CASE ConfigurePlugins
  <2>1. stage' # "ended" \/ \E code : End(code, <<>>)
    BY <1>5 DEF ConfigurePlugins
  <2> QED
    BY <1>2, <1>3, <2>1, NotKeptHooks
<1>6. CASE Configure
  <2>1. \/ stage' # "ended"
        \/ \E code, needed : End(code, Unconfigure(needed))
        \/ \E code, needed : End(code, <<"configure">> \o Unconfigure(needed))
        \/ \E code : End(code, <<"unconfigure">>) \/ End(code, <<"configure", "unconfigure">>)
    BY <1>6 DEF Configure
  <2>2. \A needed : Unconfigure(needed) = <<>> \/ Unconfigure(needed) = <<"unconfigure">>
    BY DEF Unconfigure
  <2> QED
    BY <1>2, <1>3, <2>1, <2>2, NotKeptHooks
<1>7. CASE SessionStart
  <2>1. \/ stage' # "ended"
        \/ \E code, needed : End(code, <<"sessionstart">> \o Unconfigure(needed))
        \/ \E code : End(code, <<"sessionstart", "unconfigure">>)
    BY <1>7 DEF SessionStart
  <2> QED
    BY <1>2, <1>3, <2>1, NotKeptHooks
<1>8. CASE CollectItems
  <2>1. stage' # "ended" \/ \E code : End(code, <<>>) \/ End(code, <<"unconfigure">>)
    BY <1>8 DEF CollectItems
  <2> QED
    BY <1>2, <1>3, <2>1, NotKeptHooks
<1> QED
  BY <1>4, <1>5, <1>6, <1>7, <1>8

LEMMA MiddleKept ==
    ASSUME HooksOK, Select \/ ListOnly \/ BeginLoop \/ RunItem \/ EndLoop \/ InternalError \/ NextRun
    PROVE  KeptOK'
<1>1. ASSUME stage' # "ended" PROVE KeptOK'
  BY <1>1 DEF KeptOK, Ended
<1>2. CASE Select \/ ListOnly \/ InternalError
  <2>1. stage \in {"select", "selected", "internal"}
    BY <1>2 DEF Select, ListOnly, InternalError
  <2>2. IsSeq(events) /\ "save" \notin ToSet(events)
    BY <2>1, BegunFacts DEF HooksOK
  <2>3. CASE Select
    <3>1. stage' # "ended" \/ \E code : End(code, <<>>)
      BY <2>3 DEF Select
    <3> QED
      BY <1>1, <2>2, <3>1, NotKeptHooks
  <2>4. CASE ListOnly
    <3>1. \E code : End(code, <<"unconfigure">>) \/ End(code, <<>>) \/ End(code, <<"sessionfinish">>)
      BY <2>4 DEF ListOnly
    <3> QED
      BY <2>2, <3>1, NotKeptHooks
  <2>5. CASE InternalError
    BY <2>2, <2>5, NotKeptHooks DEF InternalError
  <2> QED
    BY <1>2, <2>3, <2>4, <2>5
<1>3. CASE BeginLoop \/ EndLoop \/ NextRun
  BY <1>1, <1>3 DEF BeginLoop, EndLoop, NextRun
<1>4. CASE RunItem
  <2>1. PICK it, b, r : AfterItem(it, b, r) /\ stage = "run"
    BY <1>4 DEF RunItem
  <2>2. stage' # "ended"
    BY <2>1 DEF AfterItem
  <2> QED
    BY <1>1, <2>2
<1> QED
  BY <1>2, <1>3, <1>4

LEMMA SavedFacts ==
    ASSUME CacheShape(loaded), NEW its, NEW rs, IsSeq(rs)
    PROVE  /\ Saved(its, rs).lastfailed = SaveLastFailed(loaded, rs, its)
           /\ \A d : [Saved(its, rs) EXCEPT !.durations = d].lastfailed = SaveLastFailed(loaded, rs, its)
<1>1. Saved(its, rs).lastfailed = SaveLastFailed(loaded, rs, its)
  BY DEF Saved, CacheShape
<1> DEFINE s == Saved(its, rs)
<1>2. DOMAIN s = {"lastfailed", "nodeids", "resume", "durations"}
  BY SavedShape DEF CacheShape
<1> HIDE DEF s
<1>3. \A d : [s EXCEPT !.durations = d].lastfailed = s.lastfailed
  BY <1>2
<1> QED
  BY <1>1, <1>3 DEF s

LEMMA LastKept ==
    ASSUME HooksOK, ListsOK, ListsOK', CachesOK, HandleCollectionErrors \/ HandleNoTests \/ FinishSession
    PROVE  KeptOK'
<1>1. IsSeq(reports) /\ IsSeq(reports') /\ CacheShape(loaded)
  BY DEF ListsOK, ReportsOK, CachesOK
<1>2. CASE HandleCollectionErrors
  <2>1. \/ cache' = Saved(items, reports')
        \/ \E code : End(code, <<>>)
        \/ stage' # "ended"
    BY <1>2 DEF HandleCollectionErrors
  <2>2. items' = items /\ loaded' = loaded /\ stage = "errors"
    BY <1>2 DEF HandleCollectionErrors, chosen
  <2>3. IsSeq(events) /\ "save" \notin ToSet(events)
    BY <2>2, BegunFacts DEF HooksOK
  <2>4. ASSUME stage' # "ended" PROVE KeptOK'
    BY <2>4 DEF KeptOK, Ended
  <2>5. ASSUME cache' = Saved(items, reports') PROVE KeptOK'
    <3>1. cache'.lastfailed = SaveLastFailed(loaded, reports', items)
      BY <1>1, <2>5, SavedFacts
    <3> QED
      BY <2>2, <3>1 DEF KeptOK
  <2> QED
    BY <2>1, <2>3, <2>4, <2>5, NotKeptHooks
<1>3. CASE HandleNoTests
  <2>1. cache' = Saved(items, reports) /\ items' = items /\ loaded' = loaded /\ reports' = reports
    BY <1>3 DEF HandleNoTests, chosen
  <2>2. cache'.lastfailed = SaveLastFailed(loaded, reports, items)
    BY <1>1, <2>1, SavedFacts
  <2> QED
    BY <2>1, <2>2 DEF KeptOK
<1>4. CASE FinishSession
  <2>1. /\ \E d : cache' = [Saved(items, reports) EXCEPT !.durations = d]
        /\ items' = items /\ loaded' = loaded /\ reports' = reports
    BY <1>4 DEF FinishSession, chosen
  <2>2. cache'.lastfailed = SaveLastFailed(loaded, reports, items)
    BY <1>1, <2>1, SavedFacts
  <2> QED
    BY <2>1, <2>2 DEF KeptOK
<1> QED
  BY <1>2, <1>3, <1>4

LEMMA KeptNext == HooksOK /\ ListsOK /\ ListsOK' /\ CachesOK /\ KeptOK /\ [Next]_vars => KeptOK'
<1> SUFFICES ASSUME HooksOK, ListsOK, ListsOK', CachesOK, KeptOK, [Next]_vars PROVE KeptOK'
  OBVIOUS
<1>1. CASE UNCHANGED vars
  BY <1>1 DEF vars, KeptOK, Ended
<1> QED
  BY <1>1, EarlyKept, MiddleKept, LastKept DEF Next, Over

(* What was remembered before, without the files that can be collected     *)
(* again.                                                                  *)
LEMMA RecoveredFacts ==
    ASSUME CacheShape(loaded), NEW rs, NEW its
    PROVE  \E kept : /\ IsSeq(kept) /\ SaveLastFailed(loaded, rs, its) = Remembered(kept, rs)
                     /\ \A n : n.name # "" => (n \in ToSet(kept) <=> n \in ToSet(loaded.lastfailed))
<1> DEFINE Recovered(n) == n.name = "" /\ \E it \in ToSet(its) : it.mod = n.mod
           S == {n \in ToSet(loaded.lastfailed) : ~Recovered(n)}
           kept == Kept(loaded.lastfailed, S)
<1>1. Where(loaded.lastfailed, LAMBDA n : ~Recovered(n)) = kept
  BY DEF Where
<1>2. SaveLastFailed(loaded, rs, its) = Remembered(kept, rs)
  BY <1>1 DEF SaveLastFailed, Remembered
<1>3. \A n : n.name # "" => (n \in S <=> n \in ToSet(loaded.lastfailed))
  OBVIOUS
<1> HIDE DEF S
<1>4. IsSeq(kept) /\ ToSet(kept) = ToSet(loaded.lastfailed) \cap S
  BY KeptFacts DEF CacheShape
<1> HIDE DEF kept
<1> QED
  BY <1>2, <1>3, <1>4

(* LastFailedTrue of one node.                                             *)
RememberedRight(n) ==
    /\ n \in Ran /\ verdict[n] = "failed" => Contains(cache.lastfailed, n) \/ Excuses(n, reports)
    /\ n \in Ran /\ verdict[n] = "passed" => ~Contains(cache.lastfailed, n)
    /\ n \notin Ran /\ n.name # "" => (Contains(cache.lastfailed, n) <=> Contains(loaded.lastfailed, n))

LEMMA RightTrue ==
    ASSUME IsSeq(reports), Ended /\ Happened("save") => \A n : RememberedRight(n)
    PROVE  LastFailedTrue
<1> DEFINE Excused(n) == \E i, j \in DOMAIN reports :
                             /\ i < j /\ reports[i].node = n /\ reports[j].node = n
                             /\ reports[i].outcome = "failed" /\ reports[j].outcome = "xfailed"
<1>1. DOMAIN reports = 1..Len(reports)
  BY SeqFacts
<1>2. ASSUME NEW n, Excuses(n, reports) PROVE Excused(n)
  <2>1. PICK i \in 1..Len(reports), j \in 1..Len(reports) :
            /\ i < j /\ reports[i].node = n /\ reports[j].node = n
            /\ reports[i].outcome = "failed" /\ reports[j].outcome = "xfailed"
    BY <1>2 DEF Excuses
  <2> QED
    BY <1>1, <2>1
<1> HIDE DEF Excused
<1>3. Ended /\ Happened("save") =>
          \A n \in DOMAIN verdict \cup ToSet(loaded.lastfailed) :
              LET remembered == Contains(cache.lastfailed, n)
              IN  /\ n \in Ran /\ verdict[n] = "failed" => remembered \/ Excused(n)
                  /\ n \in Ran /\ verdict[n] = "passed" => ~remembered
                  /\ n \notin Ran /\ n.name # "" => (remembered <=> Contains(loaded.lastfailed, n))
  BY <1>2 DEF RememberedRight
<1> QED
  BY <1>3, Zenon DEF LastFailedTrue, Excused

LEMMA LastFailedFollows ==
    ASSUME HooksOK, ListsOK, CachesOK, TruthOK, KeptOK
    PROVE  LastFailedTrue
<1> SUFFICES ASSUME Ended, Happened("save"), NEW n
             PROVE  RememberedRight(n)
  BY RightTrue DEF ListsOK, ReportsOK
<1>1. IsSeq(reports) /\ CacheShape(loaded) /\ CacheShape(cache) /\ IsSeq(events)
  BY DEF ListsOK, ReportsOK, CachesOK, HooksOK
<1>2. "save" \in ToSet(events)
  BY <1>1, ContainsIn DEF Happened
<1>3. PICK kept : /\ IsSeq(kept) /\ SaveLastFailed(loaded, reports, items) = Remembered(kept, reports)
                  /\ n.name # "" => (n \in ToSet(kept) <=> n \in ToSet(loaded.lastfailed))
  BY <1>1, RecoveredFacts
<1>4. cache.lastfailed = Remembered(kept, reports)
  BY <1>2, <1>3 DEF KeptOK
<1>5. /\ Contains(cache.lastfailed, n) <=> n \in ToSet(cache.lastfailed)
      /\ Contains(loaded.lastfailed, n) <=> n \in ToSet(loaded.lastfailed)
  BY <1>1, ContainsIn DEF CacheShape
<1>6. /\ Fatal(n, reports) => n \in ToSet(cache.lastfailed)
      /\ Clears(n, reports) => n \notin ToSet(cache.lastfailed)
      /\ (\A r \in ToSet(reports) : r.node # n) => (n \in ToSet(cache.lastfailed) <=> n \in ToSet(kept))
  BY <1>1, <1>3, <1>4, RememberedTrue
<1>7. ASSUME n \in Ran PROVE Honest(verdict[n], n, reports)
  BY <1>7 DEF TruthOK
<1>8. ASSUME n \notin Ran, n.name # "" PROVE \A r \in ToSet(reports) : r.node # n
  BY <1>8 DEF TruthOK
<1> QED
  BY <1>3, <1>5, <1>6, <1>7, <1>8 DEF Honest, RememberedRight

(* The failures of the tests that ran are remembered, after all reruns and *)
(* unless a later phase excuses them; tests that passed or were skipped    *)
(* are forgotten; of the others nothing changes.                           *)
THEOREM LastFailedHolds == Spec => []LastFailedTrue
<1> DEFINE Inv == /\ HooksOK /\ RunsOK /\ ColOK /\ ListsOK /\ LoopOK /\ CachesOK
                  /\ TruthOK /\ KeptOK
<1>1. Init => Inv
  <2>1. Init => KeptOK
    BY DEF Init, KeptOK, Ended
  <2> QED
    BY <2>1, HooksInit, RunsInit, ColInit, ListsInit, LoopInit, CachesInit, TruthInit
<1>2. Inv /\ [Next]_vars => Inv'
  <2> SUFFICES ASSUME Inv, [Next]_vars PROVE Inv'
    OBVIOUS
  <2>1. HooksOK' /\ RunsOK' /\ ColOK' /\ ListsOK'
    BY HooksNext, RunsNext, ColNext, ListsNext
  <2>2. LoopOK'
    BY <2>1, LoopNext
  <2>3. CachesOK' /\ TruthOK' /\ KeptOK'
    BY <2>1, CachesNext, TruthNext, KeptNext
  <2> QED
    BY <2>1, <2>2, <2>3
<1>3. Inv => LastFailedTrue
  BY LastFailedFollows
<1> QED
  BY <1>1, <1>2, <1>3, PTL DEF Spec
=============================================================================
