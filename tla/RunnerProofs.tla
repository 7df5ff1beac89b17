---------------------------- MODULE RunnerProofs ----------------------------
(***************************************************************************)
(* Theorems about the run loop (Runner), for every test list, every        *)
(* outcome of user code and either loop: the properties of Runner that the *)
(* runs check, that the fixture engine implements FixtureLife, and what    *)
(* FixtureLife promises.                                                   *)
(*                                                                         *)
(* The argument is one of homes: everything that is held, a pending        *)
(* finalizer or a cached value, belongs to a node of the current item, or  *)
(* a teardown that takes it is on the agenda (Nested, ParamsNested), the   *)
(* narrow ones first (TasksOK).  On this stand what a key says of its      *)
(* value (KeysNested, KeptOnce), what a record of what a value rests on    *)
(* says (RecsOK, RestsOK, LiveOK), and the order in which values were made *)
(* (Numbered, BuiltBelow).                                                 *)
(***************************************************************************)
EXTENDS Runner, FiniteSetTheorems, SequenceTheorems, WellFoundedInduction, TLAPS

(* s is a sequence.                                                        *)
IsSeq(s) == \E S : s \in Seq(S)

LEMMA SeqFacts ==
    ASSUME NEW s, IsSeq(s)
    PROVE  /\ Len(s) \in Nat /\ DOMAIN s = 1..Len(s)
           /\ s = <<>> <=> Len(s) = 0
  BY LenProperties, EmptySeq DEF IsSeq

LEMMA EmptyFacts == IsSeq(<<>>) /\ Len(<<>>) = 0
  BY EmptySeq DEF IsSeq

LEMMA AppendFacts ==
    ASSUME NEW s, IsSeq(s), NEW e
    PROVE  /\ IsSeq(Append(s, e)) /\ Len(Append(s, e)) = Len(s) + 1
           /\ \A i \in 1..Len(s) : Append(s, e)[i] = s[i]
           /\ Append(s, e)[Len(s) + 1] = e
<1>1. PICK S : s \in Seq(S)
  BY DEF IsSeq
<1> DEFINE U == S \cup {e}
<1>2. s \in Seq(U) /\ e \in U
  BY <1>1, SeqMonotonic
<1> HIDE DEF U
<1>3. /\ Append(s, e) \in Seq(U) /\ Len(Append(s, e)) = Len(s) + 1
      /\ \A i \in 1..Len(s) : Append(s, e)[i] = s[i]
      /\ Append(s, e)[Len(s) + 1] = e
  BY <1>2, AppendProperties
<1> QED
  BY <1>3 DEF IsSeq

LEMMA TailFacts ==
    ASSUME NEW s, IsSeq(s), s # <<>>
    PROVE  /\ IsSeq(Tail(s)) /\ Len(Tail(s)) = Len(s) - 1 /\ Len(s) >= 1
           /\ \A i \in 1..Len(s) - 1 : Tail(s)[i] = s[i + 1]
           /\ Head(s) = s[1]
<1>1. PICK S : s \in Seq(S)
  BY DEF IsSeq
<1>2. Len(s) \in Nat /\ Len(s) # 0
  BY <1>1, SeqFacts
<1>3. /\ Tail(s) \in Seq(S) /\ Len(Tail(s)) = Len(s) - 1
      /\ \A i \in 1..Len(Tail(s)) : Tail(s)[i] = s[i + 1]
  BY <1>1, HeadTailProperties
<1> QED
  BY <1>2, <1>3 DEF IsSeq

LEMMA RemoveAtFacts ==
    ASSUME NEW s, IsSeq(s), NEW k \in 1..Len(s)
    PROVE  /\ IsSeq(RemoveAt(s, k)) /\ Len(RemoveAt(s, k)) = Len(s) - 1
           /\ \A i \in 1..Len(s) - 1 : RemoveAt(s, k)[i] = IF i < k THEN s[i] ELSE s[i + 1]
<1>1. PICK S : s \in Seq(S)
  BY DEF IsSeq
<1>2. Len(s) \in Nat
  BY <1>1, LenProperties
<1> DEFINE n == Len(s)
           a == SubSeq(s, 1, k - 1)
           b == SubSeq(s, k + 1, n)
<1>3. \A i \in 1..n : s[i] \in S
  BY <1>1, ElementOfSeq
<1>4. /\ a \in Seq(S) /\ Len(a) = k - 1
      /\ \A i \in 1..k - 1 : a[i] = s[i]
  <2>1. k - 1 \in Int /\ 1 \in Int /\ \A i \in 1..k - 1 : s[i] \in S
    BY <1>2, <1>3
  <2>2. /\ a \in Seq(S) /\ Len(a) = IF 1 <= k - 1 THEN (k - 1) - 1 + 1 ELSE 0
        /\ \A i \in 1..(k - 1) - 1 + 1 : a[i] = s[1 + i - 1]
    BY <2>1, SubSeqProperties
  <2> HIDE DEF a
  <2>3. \A i \in 1..k - 1 : i \in 1..(k - 1) - 1 + 1 /\ 1 + i - 1 = i
    BY <1>2
  <2> QED
    BY <2>2, <2>3, <1>2
<1>5. /\ b \in Seq(S) /\ Len(b) = n - k
      /\ \A i \in 1..n - k : b[i] = s[i + k]
  <2>1. k + 1 \in Int /\ n \in Int /\ \A i \in k + 1..n : s[i] \in S
    BY <1>2, <1>3
  <2>2. /\ b \in Seq(S) /\ Len(b) = IF k + 1 <= n THEN n - (k + 1) + 1 ELSE 0
        /\ \A i \in 1..n - (k + 1) + 1 : b[i] = s[(k + 1) + i - 1]
    BY <2>1, SubSeqProperties
  <2> HIDE DEF b
  <2>3. \A i \in 1..n - k : i \in 1..n - (k + 1) + 1 /\ (k + 1) + i - 1 = i + k
    BY <1>2
  <2> QED
    BY <2>2, <2>3, <1>2
<1> HIDE DEF a, b
<1>6. /\ a \o b \in Seq(S) /\ Len(a \o b) = Len(a) + Len(b)
      /\ \A i \in 1..Len(a) + Len(b) : (a \o b)[i] = IF i <= Len(a) THEN a[i] ELSE b[i - Len(a)]
  BY <1>4, <1>5, ConcatProperties
<1>7. \A i \in 1..n - 1 : (a \o b)[i] = IF i < k THEN s[i] ELSE s[i + 1]
  <2> TAKE i \in 1..n - 1
  <2>1. i \in 1..Len(a) + Len(b)
    BY <1>2, <1>4, <1>5
  <2>2. CASE i < k
    <3>1. i <= Len(a) /\ i \in 1..k - 1
      BY <1>2, <1>4, <2>2
    <3> QED
      BY <1>4, <1>6, <2>1, <2>2, <3>1
  <2>3. CASE ~(i < k)
    <3>1. ~(i <= Len(a)) /\ i - Len(a) = i - k + 1 /\ i - k + 1 \in 1..n - k /\ (i - k + 1) + k = i + 1
      BY <1>2, <1>4, <2>3
    <3> QED
      BY <1>5, <1>6, <2>1, <2>3, <3>1
  <2> QED
    BY <2>2, <2>3
<1>8. RemoveAt(s, k) = a \o b
  BY DEF RemoveAt, a, b
<1>9. Len(a) + Len(b) = n - 1
  BY <1>2, <1>4, <1>5
<1> QED
  BY <1>6, <1>7, <1>8, <1>9 DEF IsSeq

LEMMA FrontFacts ==
    ASSUME NEW s, IsSeq(s), s # <<>>
    PROVE  /\ IsSeq(Front(s)) /\ Len(Front(s)) = Len(s) - 1 /\ Len(s) >= 1
           /\ \A i \in 1..Len(s) - 1 : Front(s)[i] = s[i]
           /\ Last(s) = s[Len(s)]
<1>1. PICK S : s \in Seq(S)
  BY DEF IsSeq
<1>2. Len(s) \in Nat /\ Len(s) >= 1
  BY <1>1, SeqFacts
<1>3. \A i \in 1..Len(s) - 1 : s[i] \in S
  BY <1>1, <1>2, ElementOfSeq
<1> DEFINE n == Len(s) - 1
           a == SubSeq(s, 1, n)
<1>4. /\ a \in Seq(S) /\ Len(a) = IF 1 <= n THEN n - 1 + 1 ELSE 0
      /\ \A i \in 1..n - 1 + 1 : a[i] = s[1 + i - 1]
  BY <1>2, <1>3, SubSeqProperties
<1>5. \A i \in 1..n : i \in 1..n - 1 + 1 /\ 1 + i - 1 = i
  BY <1>2
<1>6. Front(s) = a
  BY DEF Front
<1> HIDE DEF a
<1> QED
  BY <1>2, <1>4, <1>5, <1>6 DEF IsSeq, Last

LEMMA ExceptFacts ==
    ASSUME NEW s, IsSeq(s), NEW k, NEW e, NEW t, t = [s EXCEPT ![k] = e]
    PROVE  /\ IsSeq(t) /\ Len(t) = Len(s)
           /\ \A i \in 1..Len(s) : t[i] = IF i = k THEN e ELSE s[i]
<1>1. PICK S : s \in Seq(S)
  BY DEF IsSeq
<1> DEFINE U == S \cup {e}
<1>2. s \in Seq(U) /\ e \in U
  BY <1>1, SeqMonotonic
<1> HIDE DEF U
<1>3. CASE k \in 1..Len(s)
  <2>1. /\ t \in Seq(U) /\ Len(t) = Len(s)
        /\ \A j \in 1..Len(s) : t[j] = IF j = k THEN e ELSE s[j]
    BY <1>2, <1>3, ExceptSeq
  <2> QED
    BY <2>1 DEF IsSeq
<1>4. CASE k \notin 1..Len(s)
  <2>1. DOMAIN s = 1..Len(s) /\ s = [i \in DOMAIN s |-> s[i]]
    BY <1>1, LenProperties
  <2>2. t = s
    BY <1>4, <2>1
  <2> QED
    BY <1>4, <2>2 DEF IsSeq
<1> QED
  BY <1>3, <1>4

LEMMA MaxFacts ==
    ASSUME NEW n \in Nat, NEW S \in SUBSET (1..n), S # {}
    PROVE  Max(S) \in S /\ \A y \in S : y <= Max(S)
<1> DEFINE D == {m \in Nat : \E x \in S : m = n - x}
<1>1. \A x \in S : x \in Nat /\ n - x \in D
  OBVIOUS
<1>2. PICK m \in D : \A k \in D : <<k, m>> \notin OpToRel(<, Nat)
  <2>1. D \subseteq Nat /\ D # {}
    BY <1>1
  <2> HIDE DEF D
  <2> QED
    BY <2>1, NatLessThanWellFounded, WFMin
<1>3. m \in Nat /\ \A k \in D : k \in Nat /\ ~(k < m)
  BY <1>2 DEF OpToRel
<1>4. PICK x \in S : m = n - x
  BY <1>2
<1>5. \A y \in S : x >= y
  <2> TAKE y \in S
  <2>1. n - y \in Nat /\ ~(n - y < m) /\ x \in Nat /\ y \in Nat
    BY <1>1, <1>3
  <2> QED
    BY <1>4, <2>1
<1>6. Max(S) \in S /\ \A y \in S : Max(S) >= y
  BY <1>4, <1>5 DEF Max
<1> QED
  BY <1>1, <1>6
---------------------------------------------------------------------------
(* Types and control: what the other invariants need to know of every      *)
(* state.  A set is torn down in four places only; the attempts at an item *)
(* are counted from 0.                                                     *)
IsRecord(r) == r = [id |-> r.id, name |-> r.name, par |-> r.par, scope |-> r.scope,
                    moves |-> r.moves, hidden |-> r.hidden]
IsFrame(f) == f = [def |-> f.def, todo |-> f.todo, res |-> f.res]
IdsBelow(rs, n) == \A r \in rs : IsRecord(r) /\ r.id \in Nat /\ r.id < n

RunOK == /\ run.suite \in DOMAIN Suites /\ run.mode \in {"local", "worker"}
         /\ run.rerun \in Nat /\ run.maxfail \in Nat

FramesOK ==
    /\ IsSeq(frames)
    /\ \A f \in 1..Len(frames) : /\ IsFrame(frames[f])
                                /\ \E k \in 1..Len(Defs) : frames[f].def = Defs[k]
                                /\ IdsBelow(frames[f].res, next)

ControlOK ==
    /\ pc \in Pcs /\ pos \in 1..N + 1
    /\ pc \notin {"pick", "final", "done"} => pos <= N
    /\ IsSeq(agenda) /\ (agenda # <<>> => pc \in {"between", "teardown", "params", "final"})
    /\ attempt \in Nat /\ (attempt <= 1 \/ attempt <= run.rerun)
    /\ pc = "between" => attempt = 0
    /\ pc = "setup" => attempt = 0 \/ attempt < run.rerun

PendOK ==
    /\ IsSeq(pend)
    /\ \A i \in 1..Len(pend) : /\ pend[i].id \in Nat \ {0} /\ pend[i].id < next
                              /\ pend[i].scope \in Scopes

CacheOK == \A c \in cache : /\ c.err \in BOOLEAN /\ IdsBelow(c.res, next)
                            /\ c.scope \in Scopes

CountsOK ==
    /\ next \in 1..MaxValue + 1
    /\ faults \in 0..MaxFaults /\ failed \in Nat
    /\ bad \in BOOLEAN /\ stop \in BOOLEAN /\ errs \in BOOLEAN
    /\ tdrep \in [1..N -> {"none", "passed", "failed"}]
    /\ saw \in [1..N -> {"none", "passed", "failed"}] /\ heldHook \in 0..N

Types == RunOK /\ FramesOK /\ ControlOK /\ PendOK /\ CacheOK /\ CountsOK

\* The list of a run and its registry are sequences.
LEMMA RunFacts ==
    ASSUME RunOK
    PROVE  /\ N \in Nat /\ DOMAIN Items = 1..N
           /\ Len(Defs) \in Nat /\ DOMAIN Defs = 1..Len(Defs)
           /\ \A k \in 1..Len(Defs) : Defs[k].scope \in Scopes /\ Defs[k].loop \in Scopes
           /\ \A i \in 1..N :
                /\ Items[i].loop \in Scopes /\ IsFiniteSet(DOMAIN Items[i].par)
                /\ DOMAIN Items[i].par \cap DOMAIN Items[i].direct = {}
                /\ \A n \in DOMAIN Items[i].par : Items[i].par[n] # "none"
                /\ \A n \in DOMAIN Items[i].direct : Items[i].direct[n] # "none"
                /\ \A n \in DOMAIN Items[i].keys : Items[i].keys[n] \in Scopes \ {"function"}
           /\ \A i, j \in 1..N :
                /\ Items[i].cls = Items[j].cls => Items[i].mod = Items[j].mod
                /\ Items[i].mod = Items[j].mod =>
                      Items[i].pkg = Items[j].pkg /\ Items[i].parent = Items[j].parent
                /\ Items[i].mod # Items[j].parent
<1>1. run.suite \in DOMAIN Suites
  BY DEF RunOK
<1>2. PICK defs, items : defs = Suites[run.suite].defs /\ items = Suites[run.suite].items
  OBVIOUS
<1>3. Defs = defs /\ Items = items /\ N = Len(items)
  BY <1>2 DEF N, Items, Defs
<1>4. /\ Len(items) \in Nat /\ DOMAIN items = 1..Len(items)
      /\ Len(defs) \in Nat /\ DOMAIN defs = 1..Len(defs)
  BY <1>1, <1>2, SuitesAssumption
<1>5. \A k \in DOMAIN defs : defs[k].scope \in Scopes /\ defs[k].loop \in Scopes
  BY <1>1, <1>2, SuitesAssumption
<1>6. \A i \in DOMAIN items :
        /\ items[i].loop \in Scopes /\ IsFiniteSet(DOMAIN items[i].par)
        /\ DOMAIN items[i].par \cap DOMAIN items[i].direct = {}
        /\ \A n \in DOMAIN items[i].par : items[i].par[n] # "none"
        /\ \A n \in DOMAIN items[i].direct : items[i].direct[n] # "none"
        /\ \A n \in DOMAIN items[i].keys : items[i].keys[n] \in Scopes \ {"function"}
  BY <1>1, <1>2, SuitesAssumption
<1>7. \A i, j \in DOMAIN items :
        /\ items[i].cls = items[j].cls => items[i].mod = items[j].mod
        /\ items[i].mod = items[j].mod =>
              items[i].pkg = items[j].pkg /\ items[i].parent = items[j].parent
        /\ items[i].mod # items[j].parent
  BY <1>1, <1>2, SuitesAssumption
<1> QED
  BY <1>3, <1>4, <1>5, <1>6, <1>7

LEMMA TypesImplyTypeOK == Types => TypeOK
<1> SUFFICES ASSUME Types PROVE TypeOK
  OBVIOUS
<1>1. attempt \in 0..Max({1, run.rerun})
  <2>1. run.rerun \in Nat /\ attempt \in Nat /\ (attempt <= 1 \/ attempt <= run.rerun)
    BY DEF Types, RunOK, ControlOK
  <2> DEFINE S == {1, run.rerun}
  <2>2. \E x \in S : \A y \in S : x >= y
    BY <2>1
  <2>3. Max(S) \in S /\ \A y \in S : Max(S) >= y
    BY <2>2 DEF Max
  <2>4. Max(S) \in Nat /\ Max(S) >= 1 /\ Max(S) >= run.rerun
    BY <2>1, <2>3
  <2> QED
    BY <2>1, <2>4
<1>2. N \in Nat
  BY RunFacts DEF Types
<1> QED
  BY <1>1, <1>2 DEF Types, ControlOK, PendOK, CacheOK, CountsOK, IdsBelow, TypeOK

LEMMA InitTypes == Init => Types
<1> SUFFICES ASSUME Init PROVE Types
  OBVIOUS
<1>1. RunOK
  BY RunnerAssumption DEF Init, RunOK
<1>2. N \in Nat
  BY <1>1, RunFacts
<1>3. FramesOK /\ PendOK /\ CacheOK
  BY EmptyFacts DEF Init, FramesOK, PendOK, CacheOK
<1>4. ControlOK
  BY <1>1, <1>2, EmptyFacts DEF Init, ControlOK, Pcs, RunOK
<1>5. CountsOK
  <2>1. tdrep = [i \in 1..N |-> "none"] /\ saw = [i \in 1..N |-> "none"]
    BY DEF Init, Items, N
  <2>2. /\ next = 1 /\ faults = 0 /\ failed = 0 /\ bad = FALSE /\ stop = FALSE /\ errs = FALSE
        /\ heldHook = 0
    BY DEF Init
  <2>3. MaxFaults \in Nat /\ MaxValue \in Nat
    BY RunnerAssumption
  <2>4. /\ tdrep \in [1..N -> {"none", "passed", "failed"}]
        /\ saw \in [1..N -> {"none", "passed", "failed"}]
    BY <2>1
  <2>5. next \in 1..MaxValue + 1 /\ faults \in 0..MaxFaults /\ failed \in Nat /\ heldHook \in 0..N
    BY <1>2, <2>2, <2>3
  <2> QED
    BY <2>2, <2>4, <2>5 DEF CountsOK
<1> QED
  BY <1>1, <1>3, <1>4, <1>5 DEF Types

\* A run keeps its list and options.
LEMMA SameRun ==
    ASSUME run' = run
    PROVE  /\ RunOK' = RunOK /\ N' = N /\ Items' = Items /\ Defs' = Defs /\ Local' = Local
  BY DEF RunOK, N, Items, Defs, Local

LEMMA FaultFacts ==
    ASSUME Types, Fault
    PROVE  faults' \in 0..MaxFaults
  BY RunnerAssumption DEF Types, CountsOK, Fault

\* One teardown.
LEMMA OneTask ==
    ASSUME NEW t
    PROVE  IsSeq(<<t>>) /\ Len(<<t>>) = 1 /\ <<t>>[1] = t
<1>1. <<t>> \in Seq({t})
  OBVIOUS
<1> QED
  BY <1>1 DEF IsSeq

LEMMA TwoTasks ==
    ASSUME NEW t, NEW u
    PROVE  IsSeq(<<t, u>>) /\ Len(<<t, u>>) = 2
<1>1. <<t, u>> \in Seq({t, u})
  OBVIOUS
<1> QED
  BY <1>1 DEF IsSeq

LEMMA ThreeTasks ==
    ASSUME NEW t, NEW u, NEW v
    PROVE  IsSeq(<<t, u, v>>) /\ Len(<<t, u, v>>) = 3
<1>1. <<t, u, v>> \in Seq({t, u, v})
  OBVIOUS
<1> QED
  BY <1>1 DEF IsSeq

LEMMA FourTasks ==
    ASSUME NEW t, NEW u, NEW v, NEW w
    PROVE  IsSeq(<<t, u, v, w>>) /\ Len(<<t, u, v, w>>) = 4
<1>1. <<t, u, v, w>> \in Seq({t, u, v, w})
  OBVIOUS
<1> QED
  BY <1>1 DEF IsSeq

LEMMA FiveTasks ==
    ASSUME NEW t, NEW u, NEW v, NEW w, NEW x
    PROVE  IsSeq(<<t, u, v, w, x>>) /\ Len(<<t, u, v, w, x>>) = 5
<1>1. <<t, u, v, w, x>> \in Seq({t, u, v, w, x})
  OBVIOUS
<1> QED
  BY <1>1 DEF IsSeq

\* The teardowns at the end are a sequence.
LEMMA FinalShape ==
    ASSUME NEW i
    PROVE  LET At(s) == ScopeTask(s, InstanceAt(Items[i], s))
               session == ScopeTask("session", SessionInstance)
           IN  /\ IsSeq(FinalTasks(i))
               /\ i = 0 => FinalTasks(i) = <<session>>
               /\ i # 0 /\ Local => FinalTasks(i) = <<At("class"), At("module"), At("package"),
                                                        PackageTask(Items[i]), session>>
               /\ i # 0 /\ ~Local => FinalTasks(i) = <<At("class"), At("module"), session>>
<1> DEFINE At(s) == ScopeTask(s, InstanceAt(Items[i], s))
           session == ScopeTask("session", SessionInstance)
<1>1. PICK c : c = At("class")
  OBVIOUS
<1>2. PICK m : m = At("module")
  OBVIOUS
<1>3. PICK k : k = At("package")
  OBVIOUS
<1>4. PICK z : z = session
  OBVIOUS
<1>5. PICK h : h = PackageTask(Items[i])
  OBVIOUS
<1>7. /\ i = 0 => FinalTasks(i) = <<z>>
      /\ i # 0 /\ Local => FinalTasks(i) = <<c, m, k, h, z>>
      /\ i # 0 /\ ~Local => FinalTasks(i) = <<c, m, z>>
  BY <1>1, <1>2, <1>3, <1>4, <1>5 DEF FinalTasks
<1>8. IsSeq(FinalTasks(i))
  BY <1>7, OneTask, ThreeTasks, FiveTasks
<1> QED
  BY <1>1, <1>2, <1>3, <1>4, <1>5, <1>7, <1>8

LEMMA SessionShape ==
    ASSUME RunOK, NEW i \in 1..N
    PROVE  IsSeq(SessionParams(i))
<1> DEFINE Ends(n) == /\ Known(Defs, n, Items[i]) /\ Lookup(Defs, n, Items[i]).scope = "session"
                      /\ i = N \/ ~(n \in DOMAIN Items[i + 1].par
                                    /\ Items[i + 1].par[n] = Items[i].par[n])
           ended == {n \in DOMAIN Items[i].par : Ends(n)}
           task(k) == ScopeTask("session", <<SetToSeq(ended)[k], Items[i].par[SetToSeq(ended)[k]]>>)
<1>1. IsFiniteSet(ended)
  BY RunFacts, FS_Subset
<1>2. Cardinality(ended) \in Nat
  BY <1>1, FS_CardinalityType
<1>3. SessionParams(i) = [k \in 1..Cardinality(ended) |-> task(k)]
  BY DEF SessionParams
<1> HIDE DEF ended, task
<1> DEFINE U == {task(k) : k \in 1..Cardinality(ended)}
<1>4. SessionParams(i) \in [1..Cardinality(ended) -> U]
  BY <1>3
<1>5. SessionParams(i) \in Seq(U)
  BY <1>2, <1>4, SeqDef
<1> QED
  BY <1>5 DEF IsSeq

\* What a step leaves alone keeps its type.
LEMMA Kept ==
    ASSUME Types, run' = run
    PROVE  /\ RunOK'
           /\ UNCHANGED <<frames, next>> => FramesOK'
           /\ UNCHANGED <<pend, next>> => PendOK'
           /\ UNCHANGED <<cache, next>> => CacheOK'
           /\ UNCHANGED <<next, faults, failed, bad, stop, errs, hooks>> => CountsOK'
<1>1. RunOK' /\ N' = N /\ Defs' = Defs
  BY SameRun DEF Types
<1>2. UNCHANGED <<frames, next>> => FramesOK'
  BY <1>1 DEF Types, FramesOK, IdsBelow
<1>3. UNCHANGED <<pend, next>> => PendOK'
  BY DEF Types, PendOK
<1>4. UNCHANGED <<cache, next>> => CacheOK'
  BY DEF Types, CacheOK, IdsBelow
<1>5. UNCHANGED <<next, faults, failed, bad, stop, errs, hooks>> => CountsOK'
  BY <1>1 DEF Types, CountsOK, hooks
<1> QED
  BY <1>1, <1>2, <1>3, <1>4, <1>5

LEMMA PickTypes == Types /\ Pick => Types'
<1> SUFFICES ASSUME Types, Pick PROVE Types'
  OBVIOUS
<1> USE DEF work, hooks
<1>1. run' = run /\ UNCHANGED <<frames, pend, cache, next, want, faults, failed, stop, errs, hooks>>
  BY DEF Pick
<1>2. RunOK' /\ N' = N /\ FramesOK' /\ PendOK' /\ CacheOK'
  BY <1>1, Kept, SameRun DEF Types
<1>3. CountsOK'
  BY <1>1, <1>2 DEF Types, CountsOK, Pick
<1>4. pos \in 1..N + 1 /\ N \in Nat
  BY RunFacts DEF Types, ControlOK
<1>5. IsSeq(agenda')
  BY EmptyFacts, FinalShape, FourTasks, TwoTasks DEF Pick, LocalBoundary, WorkerBoundary
<1>6. ControlOK'
  <2>1. pc' \in {"final", "between"} /\ pos' = pos /\ attempt' = 0 /\ want' = want
    BY DEF Pick
  <2>2. pc' = "between" => pos <= N
    BY <1>4 DEF Pick, Leaves
  <2> QED
    BY <1>1, <1>2, <1>4, <1>5, <2>1, <2>2 DEF ControlOK, Pcs
<1> QED
  BY <1>2, <1>3, <1>6 DEF Types

\* The youngest finalizer that matches a teardown.
LEMMA YoungestFacts ==
    ASSUME IsSeq(pend), NEW task
    PROVE  LET hits == {i \in 1..Len(pend) : Matches(task, pend[i])}
               i == Youngest(hits)
           IN  hits # {} => /\ i \in 1..Len(pend) /\ Matches(task, pend[i])
                            /\ \A j \in 1..Len(pend) : Matches(task, pend[j]) => j <= i
<1> DEFINE hits == {i \in 1..Len(pend) : Matches(task, pend[i])}
<1>1. Len(pend) \in Nat /\ hits \in SUBSET (1..Len(pend))
  BY SeqFacts
<1>2. hits # {} => Max(hits) \in hits /\ \A y \in hits : y <= Max(hits)
  BY <1>1, MaxFacts
<1> QED
  BY <1>2 DEF Youngest

\* What running a finalizer does: one that matches is gone.
LEMMA FinalizerFacts ==
    ASSUME Types, RunFinalizer
    PROVE  \E i \in 1..Len(pend) :
               /\ Matches(agenda[1], pend[i])
               /\ \A j \in 1..Len(pend) : Matches(agenda[1], pend[j]) => j <= i
               /\ IsSeq(pend') /\ Len(pend') = Len(pend) - 1
               /\ \A j \in 1..Len(pend) - 1 : pend'[j] = IF j < i THEN pend[j] ELSE pend[j + 1]
<1> DEFINE hits == {i \in 1..Len(pend) : Matches(Head(agenda), pend[i])}
<1>1. IsSeq(pend) /\ IsSeq(agenda) /\ agenda # <<>>
  BY DEF Types, PendOK, ControlOK, RunFinalizer
<1>2. Head(agenda) = agenda[1]
  BY <1>1, TailFacts
<1>3. PICK i : i = Youngest(hits)
  OBVIOUS
<1>4. hits # {} /\ pend' = RemoveAt(pend, i)
  BY <1>3 DEF RunFinalizer
<1>5. /\ i \in 1..Len(pend) /\ Matches(agenda[1], pend[i])
      /\ \A j \in 1..Len(pend) : Matches(agenda[1], pend[j]) => j <= i
  BY <1>1, <1>2, <1>3, <1>4, YoungestFacts
<1> QED
  BY <1>1, <1>4, <1>5, RemoveAtFacts

LEMMA FinalizerTypes == Types /\ RunFinalizer => Types'
<1> SUFFICES ASSUME Types, RunFinalizer PROVE Types'
  OBVIOUS
<1> USE DEF work, hooks, counts
<1>1. /\ run' = run
      /\ UNCHANGED <<frames, cache, next, want, failed, bad, attempt, stop, hooks, pc, pos, agenda>>
  BY DEF RunFinalizer
<1>2. RunOK' /\ N' = N /\ FramesOK' /\ CacheOK'
  BY <1>1, Kept, SameRun DEF Types
<1>3. PendOK'
  <2>1. PICK i \in 1..Len(pend) :
               /\ IsSeq(pend') /\ Len(pend') = Len(pend) - 1
               /\ \A j \in 1..Len(pend) - 1 : pend'[j] = IF j < i THEN pend[j] ELSE pend[j + 1]
    BY FinalizerFacts
  <2>2. PendOK /\ Len(pend) \in Nat
    BY SeqFacts DEF Types, PendOK
  <2>3. \A j \in 1..Len(pend') : \E k \in 1..Len(pend) : pend'[j] = pend[k]
    BY <2>1, <2>2
  <2> QED
    BY <1>1, <2>1, <2>2, <2>3 DEF PendOK
<1>4. errs' \in BOOLEAN /\ faults' \in 0..MaxFaults
  BY FaultFacts DEF RunFinalizer, Types, CountsOK
<1>5. CountsOK'
  BY <1>1, <1>2, <1>4 DEF Types, CountsOK
<1>6. ControlOK'
  BY <1>1, <1>2 DEF Types, ControlOK, RunOK
<1> QED
  BY <1>2, <1>3, <1>5, <1>6 DEF Types

\* What the end of a teardown does: nothing matched it any more.
LEMMA EndTaskFacts ==
    ASSUME Types, EndTask
    PROVE  /\ \A i \in 1..Len(pend) : ~Matches(agenda[1], pend[i])
           /\ cache' = {c \in cache : ~Matches(agenda[1], c)} /\ pend' = pend
           /\ IsSeq(agenda') /\ Len(agenda) >= 1 /\ Len(agenda') = Len(agenda) - 1
           /\ \A k \in 1..Len(agenda) - 1 : agenda'[k] = agenda[k + 1]
<1>1. IsSeq(agenda) /\ agenda # <<>>
  BY DEF Types, ControlOK, EndTask
<1>2. Head(agenda) = agenda[1]
  BY <1>1, TailFacts
<1> QED
  BY <1>1, <1>2, TailFacts DEF EndTask

LEMMA EndTaskTypes == Types /\ EndTask => Types'
<1> SUFFICES ASSUME Types, EndTask PROVE Types'
  OBVIOUS
<1> USE DEF work, hooks, counts
<1>1. /\ run' = run
      /\ UNCHANGED <<frames, pend, next, want, bad, attempt, stop, faults, pc, pos, heldHook>>
  BY DEF EndTask
<1>2. RunOK' /\ N' = N /\ FramesOK' /\ PendOK'
  BY <1>1, Kept, SameRun DEF Types
<1>3. CacheOK'
  <2>1. cache' \subseteq cache
    BY DEF EndTask
  <2> QED
    BY <1>1, <2>1 DEF Types, CacheOK, IdsBelow
<1>4. CountsOK'
  <2>1. errs' \in BOOLEAN
    BY DEF EndTask, Types, CountsOK
  <2>2. /\ failed' \in Nat
        /\ tdrep' \in [1..N -> {"none", "passed", "failed"}]
        /\ saw' \in [1..N -> {"none", "passed", "failed"}]
    BY DEF EndTask, ScopeFailure, Types, CountsOK
  <2> QED
    BY <1>1, <1>2, <2>1, <2>2 DEF Types, CountsOK
<1>5. agenda # <<>> /\ IsSeq(agenda')
  BY EndTaskFacts DEF EndTask
<1>6. ControlOK'
  BY <1>1, <1>2, <1>5 DEF Types, ControlOK, RunOK
<1> QED
  BY <1>2, <1>3, <1>4, <1>6 DEF Types

LEMMA FlushTypes ==
    ASSUME Types, Flush
    PROVE  saw' \in [1..N -> {"none", "passed", "failed"}] /\ heldHook' = 0
<1>1. heldHook = 0 \/ heldHook \in 1..N
  BY RunFacts DEF Types, CountsOK
<1>2. heldHook \in 1..N => tdrep[heldHook] \in {"none", "passed", "failed"}
  BY DEF Types, CountsOK
<1> QED
  BY <1>1, <1>2 DEF Flush, Types, CountsOK

LEMMA StartTypes == Types /\ Start => Types'
<1> SUFFICES ASSUME Types, Start PROVE Types'
  OBVIOUS
<1> USE DEF work, hooks, counts
<1>1. /\ run' = run
      /\ UNCHANGED <<frames, pend, cache, next, want, failed, bad, attempt, stop, faults, pos, errs,
                     tdrep, agenda>>
  BY DEF Start
<1>2. RunOK' /\ N' = N /\ FramesOK' /\ PendOK' /\ CacheOK'
  BY <1>1, Kept, SameRun DEF Types
<1>3. CountsOK'
  <2>1. saw' \in [1..N -> {"none", "passed", "failed"}] /\ heldHook' = 0
    BY FlushTypes DEF Start
  <2> QED
    BY <1>1, <1>2, <2>1, RunFacts DEF Types, CountsOK
<1>4. ControlOK'
  BY <1>1, <1>2 DEF Types, ControlOK, Start, Pcs
<1> QED
  BY <1>2, <1>3, <1>4 DEF Types

LEMMA BeginSetupTypes == Types /\ BeginSetup => Types'
<1> SUFFICES ASSUME Types, BeginSetup PROVE Types'
  OBVIOUS
<1> USE DEF work, hooks, counts
<1>1. /\ run' = run
      /\ UNCHANGED <<pend, next, failed, stop, faults, pos, errs, tdrep, saw, heldHook, agenda>>
  BY DEF BeginSetup
<1>2. RunOK' /\ N' = N /\ PendOK'
  BY <1>1, Kept, SameRun DEF Types
<1>3. FramesOK'
  BY <1>2, EmptyFacts DEF BeginSetup, FramesOK
<1>4. CacheOK'
  BY <1>1 DEF BeginSetup, Types, CacheOK, IdsBelow
<1>5. CountsOK'
  BY <1>1, <1>2 DEF BeginSetup, Types, CountsOK
<1>7. ControlOK'
  BY <1>1, <1>2 DEF BeginSetup, Types, ControlOK, Pcs, RunOK
<1> QED
  BY <1>2, <1>3, <1>4, <1>5, <1>7 DEF Types

LEMMA SetupDoneTypes == Types /\ SetupDone => Types'
<1> SUFFICES ASSUME Types, SetupDone PROVE Types'
  OBVIOUS
<1> USE DEF work, hooks, counts
<1>1. /\ run' = run
      /\ UNCHANGED <<frames, pend, cache, next, want, failed, bad, attempt, stop, faults, pos, errs,
                     tdrep, saw, heldHook, agenda>>
  BY DEF SetupDone
<1>2. RunOK' /\ N' = N /\ FramesOK' /\ PendOK' /\ CacheOK' /\ CountsOK'
  BY <1>1, Kept, SameRun DEF Types
<1>3. ControlOK'
  BY <1>1, <1>2 DEF Types, ControlOK, SetupDone, Pcs
<1> QED
  BY <1>2, <1>3 DEF Types

LEMMA CallTypes == Types /\ Call => Types'
<1> SUFFICES ASSUME Types, Call PROVE Types'
  OBVIOUS
<1> USE DEF work, hooks, counts
<1>1. /\ run' = run
      /\ UNCHANGED <<frames, pend, cache, next, want, failed, attempt, pos, errs, tdrep, saw, heldHook>>
  BY DEF Call
<1>2. RunOK' /\ N' = N /\ FramesOK' /\ PendOK' /\ CacheOK'
  BY <1>1, Kept, SameRun DEF Types
<1>3. CountsOK'
  <2>1. faults' \in 0..MaxFaults /\ bad' \in BOOLEAN /\ stop' \in BOOLEAN
    BY FaultFacts DEF Call, Types, CountsOK
  <2> QED
    BY <1>1, <1>2, <2>1 DEF Types, CountsOK
<1>4. IsSeq(agenda')
  BY OneTask DEF Call
<1>5. ControlOK'
  BY <1>1, <1>2, <1>4 DEF Types, ControlOK, Call, Pcs
<1> QED
  BY <1>2, <1>3, <1>5 DEF Types

LEMMA EndItemTypes == Types /\ EndItem => Types'
<1> SUFFICES ASSUME Types, EndItem PROVE Types'
  OBVIOUS
<1> USE DEF work, hooks, counts
<1>1. /\ run' = run
      /\ UNCHANGED <<frames, pend, cache, next, want, attempt, pos, faults, stop, agenda>>
  BY DEF EndItem
<1>2. RunOK' /\ N' = N /\ FramesOK' /\ PendOK' /\ CacheOK'
  BY <1>1, Kept, SameRun DEF Types
<1>3. CountsOK'
  <2>1. errs' \in BOOLEAN /\ bad' \in BOOLEAN
    BY DEF EndItem, Types, CountsOK
  <2>2. failed' \in Nat
    BY DEF EndItem, Types, CountsOK
  <2>3. /\ tdrep' \in [1..N -> {"none", "passed", "failed"}]
        /\ saw' \in [1..N -> {"none", "passed", "failed"}]
    BY DEF EndItem, ReportTeardown, Types, CountsOK
  <2>4. heldHook' = heldHook \/ heldHook' = pos
    BY DEF EndItem, ReportTeardown
  <2>5. heldHook' \in 0..N
    BY <2>4, RunFacts DEF Types, CountsOK, ControlOK, EndItem
  <2> QED
    BY <1>1, <1>2, <2>1, <2>2, <2>3, <2>5 DEF Types, CountsOK
<1>4. ControlOK'
  <2>1. pc = "teardown" /\ agenda = <<>> /\ pc' \in {"setup", "after"}
    BY DEF EndItem
  <2>2. pc' = "setup" => attempt < run.rerun
    BY DEF EndItem, AnotherAttempt
  <2> QED
    BY <1>1, <1>2, <2>1, <2>2 DEF Types, ControlOK, Pcs
<1> QED
  BY <1>2, <1>3, <1>4 DEF Types

LEMMA AfterTypes == Types /\ After => Types'
<1> SUFFICES ASSUME Types, After PROVE Types'
  OBVIOUS
<1> USE DEF work, hooks, counts
<1>1. /\ run' = run
      /\ UNCHANGED <<frames, pend, cache, next, want, failed, bad, attempt, stop, faults, errs,
                     tdrep, saw, heldHook>>
  BY DEF After
<1>2. RunOK' /\ N' = N /\ FramesOK' /\ PendOK' /\ CacheOK' /\ CountsOK'
  BY <1>1, Kept, SameRun DEF Types
<1>3. pos \in 1..N /\ N \in Nat
  BY RunFacts DEF Types, ControlOK, After
<1>4. IsSeq(agenda')
  BY <1>3, FinalShape, SessionShape DEF After, Types, ControlOK
<1>5. ControlOK'
  <2>1. pc' \in {"final", "params"} \/ (pc' = "pick" /\ agenda' = agenda)
    <3>1. CASE run.sw /\ bad
      BY <3>1 DEF After
    <3>2. CASE ~(run.sw /\ bad) /\ Local
      BY <3>2 DEF After
    <3>3. CASE ~(run.sw /\ bad) /\ ~Local
      BY <3>3 DEF After
    <3> QED
      BY <3>1, <3>2, <3>3
  <2>2. pos' \in 1..N + 1 /\ (pc' = "params" => pos' = pos)
    BY <1>3 DEF After
  <2>3. agenda = <<>>
    BY DEF After, Types, ControlOK
  <2> QED
    BY <1>1, <1>2, <1>3, <1>4, <2>1, <2>2, <2>3 DEF Types, ControlOK, Pcs, RunOK
<1> QED
  BY <1>2, <1>5 DEF Types

LEMMA NextItemTypes == Types /\ NextItem => Types'
<1> SUFFICES ASSUME Types, NextItem PROVE Types'
  OBVIOUS
<1> USE DEF work, hooks, counts
<1>1. /\ run' = run
      /\ UNCHANGED <<frames, pend, cache, next, want, failed, bad, attempt, stop, faults, errs,
                     tdrep, saw, heldHook, agenda>>
  BY DEF NextItem
<1>2. RunOK' /\ N' = N /\ FramesOK' /\ PendOK' /\ CacheOK' /\ CountsOK'
  BY <1>1, Kept, SameRun DEF Types
<1>3. pos \in 1..N /\ N \in Nat
  BY RunFacts DEF Types, ControlOK, NextItem
<1>4. ControlOK'
  BY <1>1, <1>2, <1>3 DEF Types, ControlOK, NextItem, Pcs
<1> QED
  BY <1>2, <1>4 DEF Types

LEMMA FinishTypes == Types /\ Finish => Types'
<1> SUFFICES ASSUME Types, Finish PROVE Types'
  OBVIOUS
<1> USE DEF work, hooks, counts
<1>1. /\ run' = run
      /\ UNCHANGED <<frames, pend, cache, next, want, failed, bad, attempt, stop, faults, pos, errs,
                     tdrep, agenda>>
  BY DEF Finish
<1>2. RunOK' /\ N' = N /\ FramesOK' /\ PendOK' /\ CacheOK'
  BY <1>1, Kept, SameRun DEF Types
<1>3. CountsOK'
  <2>1. saw' \in [1..N -> {"none", "passed", "failed"}] /\ heldHook' = 0
    BY FlushTypes DEF Finish
  <2> QED
    BY <1>1, <1>2, <2>1, RunFacts DEF Types, CountsOK
<1>4. ControlOK'
  BY <1>1, <1>2 DEF Types, ControlOK, Finish, Pcs
<1> QED
  BY <1>2, <1>3, <1>4 DEF Types

LEMMA FrameUpdate ==
    ASSUME NEW f, IsFrame(f), NEW x
    PROVE  /\ [f EXCEPT !.res = x] = [def |-> f.def, todo |-> f.todo, res |-> x]
           /\ [f EXCEPT !.todo = x] = [def |-> f.def, todo |-> x, res |-> f.res]
<1>1. PICK d, t, r : d = f.def /\ t = f.todo /\ r = f.res
  OBVIOUS
<1>2. f = [def |-> d, todo |-> t, res |-> r]
  BY <1>1 DEF IsFrame
<1>3. /\ [f EXCEPT !.res = x] = [def |-> d, todo |-> t, res |-> x]
      /\ [f EXCEPT !.todo = x] = [def |-> d, todo |-> x, res |-> r]
  BY <1>2
<1> QED
  BY <1>1, <1>3

\* Handing a value over changes the results of the fixture on top, or got.
LEMMA HandOverFacts ==
    ASSUME NEW fs, IsSeq(fs), \A i \in 1..Len(fs) : IsFrame(fs[i]), NEW rs, HandOver(fs, rs)
    PROVE  /\ IsSeq(frames') /\ Len(frames') = Len(fs)
           /\ \A i \in 1..Len(fs) : /\ IsFrame(frames'[i])
                                    /\ frames'[i].def = fs[i].def /\ frames'[i].todo = fs[i].todo
                                    /\ frames'[i].res = IF i = Len(fs) THEN fs[i].res \cup rs
                                                                      ELSE fs[i].res
           /\ IF fs = <<>> THEN got' = got \cup rs ELSE got' = got
<1>1. Len(fs) \in Nat /\ (fs = <<>> <=> Len(fs) = 0)
  BY SeqFacts
<1>2. CASE fs = <<>>
  BY <1>1, <1>2, EmptyFacts DEF HandOver
<1>3. CASE fs # <<>>
  <2>1. PICK n : n = Len(fs)
    OBVIOUS
  <2>2. n \in 1..Len(fs)
    BY <1>1, <1>3, <2>1
  <2>3. PICK top : top = [def |-> fs[n].def, todo |-> fs[n].todo, res |-> fs[n].res \cup rs]
    OBVIOUS
  <2>4. frames' = [fs EXCEPT ![n] = [fs[n] EXCEPT !.res = fs[n].res \cup rs]] /\ got' = got
    BY <1>3, <2>1 DEF HandOver
  <2>5. [fs[n] EXCEPT !.res = fs[n].res \cup rs] = top
    BY <2>2, <2>3, FrameUpdate
  <2>6. /\ top.def = fs[n].def /\ top.todo = fs[n].todo /\ top.res = fs[n].res \cup rs
        /\ IsFrame(top)
    BY <2>3 DEF IsFrame
  <2>7. frames' = [fs EXCEPT ![n] = top]
    BY <2>4, <2>5
  <2>8. PICK t : t = frames'
    OBVIOUS
  <2>9. IsSeq(t) /\ Len(t) = Len(fs)
        /\ \A i \in 1..Len(fs) : t[i] = IF i = n THEN top ELSE fs[i]
    <3>1. t = [fs EXCEPT ![n] = top]
      BY <2>7, <2>8
    <3>2. IsSeq(t) /\ Len(t) = Len(fs)
      BY <3>1, ExceptFacts
    <3>3. \A i \in 1..Len(fs) : t[i] = IF i = n THEN top ELSE fs[i]
      BY <3>1, ExceptFacts
    <3> QED
      BY <3>2, <3>3
  <2>10. ASSUME NEW i \in 1..Len(fs)
         PROVE  /\ IsFrame(t[i]) /\ t[i].def = fs[i].def /\ t[i].todo = fs[i].todo
                /\ t[i].res = IF i = Len(fs) THEN fs[i].res \cup rs ELSE fs[i].res
    <3>1. CASE i = n
      BY <2>1, <2>6, <2>9, <3>1
    <3>2. CASE i # n
      BY <2>1, <2>9, <3>2
    <3> QED
      BY <3>1, <3>2
  <2> QED
    BY <1>3, <2>4, <2>8, <2>9, <2>10
<1> QED
  BY <1>2, <1>3

\* A stack with the next request of its top frame taken off.
LEMMA PoppedFacts ==
    ASSUME FramesOK, frames # <<>>
    PROVE  LET popped == [frames EXCEPT ![Len(frames)].todo = Tail(@)]
           IN  /\ IsSeq(popped) /\ Len(popped) = Len(frames)
               /\ \A i \in 1..Len(frames) :
                    /\ IsFrame(popped[i])
                    /\ popped[i].def = frames[i].def /\ popped[i].res = frames[i].res
                    /\ popped[i].todo = IF i = Len(frames) THEN Tail(frames[i].todo) ELSE frames[i].todo
<1>1. PICK n : n = Len(frames)
  OBVIOUS
<1>2. IsSeq(frames) /\ n \in Nat /\ n \in 1..Len(frames)
  BY <1>1, SeqFacts DEF FramesOK
<1>3. PICK top : top = [def |-> frames[n].def, todo |-> Tail(frames[n].todo), res |-> frames[n].res]
  OBVIOUS
<1>4. [frames[n] EXCEPT !.todo = Tail(frames[n].todo)] = top
  BY <1>2, <1>3, FrameUpdate DEF FramesOK
<1>5. PICK t : t = [frames EXCEPT ![Len(frames)].todo = Tail(@)]
  OBVIOUS
<1>6. t = [frames EXCEPT ![n] = top]
  BY <1>1, <1>4, <1>5
<1>7. /\ top.def = frames[n].def /\ top.todo = Tail(frames[n].todo) /\ top.res = frames[n].res
      /\ IsFrame(top)
  BY <1>3 DEF IsFrame
<1>8. /\ IsSeq(t) /\ Len(t) = Len(frames)
      /\ \A i \in 1..Len(frames) : t[i] = IF i = n THEN top ELSE frames[i]
  <2>1. IsSeq(t) /\ Len(t) = Len(frames)
    BY <1>2, <1>6, ExceptFacts
  <2>2. \A i \in 1..Len(frames) : t[i] = IF i = n THEN top ELSE frames[i]
    BY <1>2, <1>6, ExceptFacts
  <2> QED
    BY <2>1, <2>2
<1>9. ASSUME NEW i \in 1..Len(frames)
      PROVE  /\ IsFrame(t[i]) /\ t[i].def = frames[i].def /\ t[i].res = frames[i].res
             /\ t[i].todo = IF i = Len(frames) THEN Tail(frames[i].todo) ELSE frames[i].todo
  <2>1. CASE i = n
    BY <1>1, <1>7, <1>8, <2>1
  <2>2. CASE i # n
    BY <1>1, <1>8, <2>2 DEF FramesOK
  <2> QED
    BY <2>1, <2>2
<1> QED
  BY <1>5, <1>8, <1>9

\* fs is the stack, but for what its frames still have to ask for.
SameFrames(fs) ==
    /\ IsSeq(fs) /\ Len(fs) = Len(frames)
    /\ \A i \in 1..Len(frames) : /\ IsFrame(fs[i])
                                 /\ fs[i].def = frames[i].def /\ fs[i].res = frames[i].res

Hits(d) == {c \in cache : c.key = CacheKey(d, Item)}

\* The definition d was asked for and not refused.
Asked(d, fs) ==
    /\ \E k \in 1..Len(Defs) : d = Defs[k]
    /\ SameFrames(fs)
    /\ \A i \in 1..Len(frames) : frames[i].def # d
    /\ \A p \in Requesting : ~Wider(p.scope, d.scope)
    /\ UNCHANGED <<bad, pc, agenda>>
    /\ \A c \in Hits(d) : ~c.err
    /\ \/ Hits(d) # {} /\ HandOver(fs, UNION {c.res : c \in Hits(d)})
       \/ Hits(d) = {} /\ frames' = Append(fs, Frame(d)) /\ got' = got

LEMMA AskFacts ==
    ASSUME NEW k \in 1..Len(Defs), NEW fs, SameFrames(fs), NEW rest, Ask(Defs[k], fs, rest)
    PROVE  Abort \/ Asked(Defs[k], fs)
<1>1. PICK d : d = Defs[k]
  OBVIOUS
<1>2. SUFFICES ASSUME ~Abort PROVE Asked(d, fs)
  BY <1>1
<1>3. PICK hit : hit = Hits(d)
  OBVIOUS
<1>4. Ask(d, fs, rest)
  BY <1>1
<1> DEFINE refused == \/ \E i \in 1..Len(frames) : frames[i].def = d
                      \/ \E p \in Requesting : Wider(p.scope, d.scope)
                      \/ d.par /\ d.name \notin DOMAIN Item.par \cup DOMAIN Item.direct
<1>5. ~refused /\ ~(\E c \in hit : c.err)
  BY <1>2, <1>3, <1>4 DEF Ask, Hits
<1>6. /\ UNCHANGED <<bad, pc, agenda>>
      /\ IF hit # {} THEN HandOver(fs, UNION {c.res : c \in hit})
                     ELSE frames' = Append(fs, Frame(d)) /\ UNCHANGED got
  BY <1>2, <1>3, <1>4, <1>5 DEF Ask, Hits
<1> QED
  BY <1>1, <1>3, <1>5, <1>6 DEF Asked

LEMMA CandidateFacts ==
    ASSUME RunOK, NEW S \in SUBSET (DOMAIN Defs), S # {}
    PROVE  Max(S) \in S /\ Max(S) \in 1..Len(Defs) /\ \A k \in S : k <= Max(S)
  BY RunFacts, MaxFacts

\* A parameter of the test itself was asked for.
AskedArgument(n, fs) ==
    /\ n \in DOMAIN Item.direct /\ SameFrames(fs) /\ UNCHANGED <<bad, pc, agenda>>
    /\ HandOver(fs, {ArgumentValue(n)})

LEMMA RequestFacts ==
    ASSUME Types, NEW n, NEW fs, SameFrames(fs), NEW rest, Request(n, fs, rest)
    PROVE  Abort \/ AskedArgument(n, fs) \/ \E d : Asked(d, fs)
<1>1. PICK above : above = {i \in 1..Len(frames) : frames[i].def.name = n}
  OBVIOUS
<1>2. PICK cands : cands = IF above = {} THEN Candidates(Defs, n, Item)
                                         ELSE Overridden(Defs, frames[Max(above)].def, Item)
  OBVIOUS
<1>3. IF n \in DOMAIN Item.direct
      THEN HandOver(fs, {ArgumentValue(n)}) /\ UNCHANGED <<bad, pc, agenda>>
      ELSE IF cands = {} THEN Abort ELSE Ask(Defs[Max(cands)], fs, rest)
  BY <1>1, <1>2 DEF Request
<1>4. cands \subseteq DOMAIN Defs
  BY <1>2 DEF Overridden, Candidates
<1>5. cands # {} => Max(cands) \in 1..Len(Defs)
  BY <1>4, CandidateFacts DEF Types
<1>6. cands # {} /\ Ask(Defs[Max(cands)], fs, rest) => Abort \/ \E d : Asked(d, fs)
  BY <1>5, AskFacts
<1> QED
  BY <1>3, <1>6 DEF AskedArgument

LEMMA ResolveFacts ==
    ASSUME Types, Resolve
    PROVE  \/ Abort
           \/ SameFrames(frames') /\ UNCHANGED <<bad, pc, agenda, got>>
           \/ \E n, fs : AskedArgument(n, fs)
           \/ \E d, fs : Asked(d, fs)
<1>0. RunOK /\ FramesOK
  BY DEF Types
<1>1. CASE AskForItem
  <2>1. Request(Head(want), frames, Tail(want))
    BY <1>1 DEF AskForItem
  <2>2. SameFrames(frames)
    BY <1>0 DEF SameFrames, FramesOK
  <2> QED
    BY <2>1, <2>2, RequestFacts
<1>2. CASE AskForFixture
  <2>1. PICK fs : fs = [frames EXCEPT ![Len(frames)].todo = Tail(@)]
    OBVIOUS
  <2>2. SameFrames(fs)
    BY <1>0, <1>2, <2>1, PoppedFacts DEF AskForFixture, SameFrames
  <2>3. PICK n : n = Head(Last(frames).todo)
    OBVIOUS
  <2>4. CASE n = "request"
    BY <1>2, <2>1, <2>2, <2>3, <2>4 DEF AskForFixture
  <2>5. CASE n # "request"
    <3>1. Request(n, fs, want)
      BY <1>2, <2>1, <2>3, <2>5 DEF AskForFixture
    <3> QED
      BY <2>2, <3>1, RequestFacts
  <2> QED
    BY <2>4, <2>5
<1> QED
  BY <1>1, <1>2 DEF Resolve

\* A setup that ends early leaves its item for the teardown.
LEMMA AbortTypes ==
    ASSUME Types, pc \in {"early", "resolve"}, Abort, UNCHANGED <<run, pos, attempt>>
    PROVE  FramesOK' /\ ControlOK' /\ bad' = TRUE
<1>1. RunOK' /\ N' = N
  BY SameRun DEF Types
<1>2. FramesOK'
  BY EmptyFacts DEF Abort, FramesOK
<1>3. IsSeq(agenda')
  BY OneTask DEF Abort
<1>4. pos \in 1..N + 1 /\ pos <= N /\ attempt \in Nat /\ (attempt <= 1 \/ attempt <= run.rerun)
  BY DEF Types, ControlOK
<1> QED
  BY <1>1, <1>2, <1>3, <1>4 DEF Abort, ControlOK, Pcs

LEMMA ResolveTypes == Types /\ Resolve => Types'
<1> SUFFICES ASSUME Types, Resolve PROVE Types'
  OBVIOUS
<1> USE DEF work, hooks, counts
<1>1. /\ run' = run
      /\ UNCHANGED <<pos, errs, cache, pend, next, failed, attempt, stop, faults, tdrep, heldHook, saw>>
      /\ pc \in {"early", "resolve"}
  BY DEF Resolve, Resolving
<1>2. RunOK' /\ N' = N /\ Defs' = Defs /\ PendOK' /\ CacheOK'
  BY <1>1, Kept, SameRun DEF Types
<1>3. bad' \in BOOLEAN => CountsOK'
  BY <1>1, <1>2 DEF Types, CountsOK
<1>4. CASE Abort
  BY <1>1, <1>2, <1>3, <1>4, AbortTypes DEF Types
<1>5. CASE SameFrames(frames') /\ UNCHANGED <<bad, pc, agenda, got>>
  <2>1. FramesOK'
    BY <1>1, <1>2, <1>5 DEF Types, FramesOK, SameFrames
  <2>2. ControlOK'
    BY <1>1, <1>2, <1>5 DEF Types, ControlOK
  <2> QED
    BY <1>2, <1>3, <1>5, <2>1, <2>2 DEF Types, CountsOK
<1>7. ASSUME NEW fs, SameFrames(fs), NEW rs, IdsBelow(rs, next), HandOver(fs, rs) PROVE FramesOK'
  <2>1. /\ IsSeq(frames') /\ Len(frames') = Len(fs)
        /\ \A i \in 1..Len(fs) : /\ IsFrame(frames'[i]) /\ frames'[i].def = fs[i].def
                                 /\ frames'[i].res = IF i = Len(fs) THEN fs[i].res \cup rs ELSE fs[i].res
    <3>1. IsSeq(fs) /\ (\A i \in 1..Len(fs) : IsFrame(fs[i])) /\ HandOver(fs, rs)
      BY <1>7 DEF SameFrames
    <3>2. IsSeq(frames') /\ Len(frames') = Len(fs)
      BY <3>1, HandOverFacts
    <3>3. \A i \in 1..Len(fs) : IsFrame(frames'[i]) /\ frames'[i].def = fs[i].def
      BY <3>1, HandOverFacts
    <3>4. \A i \in 1..Len(fs) : frames'[i].res = IF i = Len(fs) THEN fs[i].res \cup rs ELSE fs[i].res
      BY <3>1, HandOverFacts
    <3> QED
      BY <3>2, <3>3, <3>4
  <2>2. ASSUME NEW i \in 1..Len(frames)
        PROVE  IsFrame(frames'[i]) /\ (\E k \in 1..Len(Defs) : frames'[i].def = Defs[k])
               /\ IdsBelow(frames'[i].res, next)
    <3>1. IsFrame(frames'[i]) /\ frames'[i].def = frames[i].def
      BY <1>7, <2>1 DEF SameFrames
    <3>2. (\E k \in 1..Len(Defs) : frames[i].def = Defs[k]) /\ IdsBelow(frames[i].res, next)
      BY DEF Types, FramesOK
    <3>3. frames'[i].res = frames[i].res \/ frames'[i].res = frames[i].res \cup rs
      BY <1>7, <2>1 DEF SameFrames
    <3>4. IdsBelow(frames'[i].res, next)
      BY <1>7, <3>2, <3>3 DEF IdsBelow
    <3> QED
      BY <3>1, <3>2, <3>4
  <2> QED
    BY <1>1, <1>2, <1>7, <2>1, <2>2 DEF FramesOK, SameFrames
<1>8. ASSUME NEW n, NEW fs, AskedArgument(n, fs) PROVE Types'
  <2>1. UNCHANGED <<bad, pc, agenda>> /\ SameFrames(fs) /\ HandOver(fs, {ArgumentValue(n)})
    BY <1>8 DEF AskedArgument
  <2>2. PICK v : v = ArgumentValue(n)
    OBVIOUS
  <2>3. IsRecord(v) /\ v.id = 0
    BY <2>2 DEF ArgumentValue, IsRecord
  <2>4. IdsBelow({v}, next)
    BY <2>3 DEF Types, CountsOK, IdsBelow
  <2>5. FramesOK'
    BY <1>7, <2>1, <2>2, <2>4
  <2>6. ControlOK'
    BY <1>1, <1>2, <2>1 DEF Types, ControlOK
  <2>7. CountsOK'
    BY <1>3, <2>1 DEF Types, CountsOK
  <2> QED
    BY <1>2, <2>5, <2>6, <2>7 DEF Types
<1>6. ASSUME NEW d, NEW fs, Asked(d, fs) PROVE Types'
  <2>1. UNCHANGED <<bad, pc, agenda>> /\ SameFrames(fs) /\ \E k \in 1..Len(Defs) : d = Defs[k]
    BY <1>6 DEF Asked
  <2>2. ControlOK'
    BY <1>1, <1>2, <2>1 DEF Types, ControlOK
  <2>b. bad' \in BOOLEAN
    BY <2>1 DEF Types, CountsOK
  <2>c. CountsOK'
    BY <1>3, <2>b
  <2>3. FramesOK
    BY DEF Types
  <2>4. CASE Hits(d) # {} /\ HandOver(fs, UNION {c.res : c \in Hits(d)})
    <3>1. PICK rs : rs = UNION {c.res : c \in Hits(d)}
      OBVIOUS
    <3>2. IdsBelow(rs, next)
      BY <3>1 DEF Types, CacheOK, Hits, IdsBelow
    <3>3. FramesOK'
      BY <1>7, <2>1, <2>4, <3>1, <3>2
    <3> QED
      BY <1>2, <2>2, <2>c, <3>3 DEF Types
  <2>5. CASE frames' = Append(fs, Frame(d))
    <3>1. PICK top : top = Frame(d)
      OBVIOUS
    <3>2. IsFrame(top) /\ top.def = d /\ top.res = {}
      BY <3>1 DEF Frame, IsFrame
    <3>3. /\ IsSeq(frames') /\ Len(frames') = Len(fs) + 1
          /\ \A i \in 1..Len(fs) : frames'[i] = fs[i]
          /\ frames'[Len(fs) + 1] = top
      BY <2>1, <2>5, <3>1, AppendFacts DEF SameFrames
    <3>4. Len(fs) \in Nat /\ Len(fs) = Len(frames)
      BY <2>1, SeqFacts DEF SameFrames
    <3>5. ASSUME NEW i \in 1..Len(frames')
          PROVE  IsFrame(frames'[i]) /\ (\E k \in 1..Len(Defs) : frames'[i].def = Defs[k])
                 /\ IdsBelow(frames'[i].res, next)
      <4>1. CASE i \in 1..Len(fs)
        BY <2>1, <2>3, <3>3, <3>4, <4>1 DEF FramesOK, SameFrames
      <4>2. CASE i = Len(fs) + 1
        BY <2>1, <3>2, <3>3, <4>2 DEF IdsBelow
      <4> QED
        BY <3>3, <3>4, <4>1, <4>2
    <3>6. FramesOK'
      BY <1>1, <1>2, <3>3, <3>5 DEF FramesOK
    <3> QED
      BY <1>2, <2>2, <2>c, <3>6 DEF Types
  <2> QED
    BY <1>6, <2>4, <2>5 DEF Asked
<1> QED
  BY <1>4, <1>5, <1>6, <1>8, ResolveFacts

\* Where a value is kept.
LEMMA CacheScopeFacts ==
    ASSUME RunOK, NEW i \in 1..N, NEW k \in 1..Len(Defs)
    PROVE  /\ CacheScope(Defs[k], Items[i]) \in Scopes
           /\ LET it == Items[i]
                  n == Defs[k].name
              IN  \/ CacheScope(Defs[k], it) = Defs[k].scope
                  \/ /\ n \in DOMAIN it.par /\ n \in DOMAIN it.keys
                     /\ CacheScope(Defs[k], it) = it.keys[n] /\ Wider(it.keys[n], Defs[k].scope)
<1>1. PICK it : it = Items[i]
  OBVIOUS
<1>2. PICK d : d = Defs[k]
  OBVIOUS
<1>3. d.scope \in Scopes /\ \A n \in DOMAIN it.keys : it.keys[n] \in Scopes \ {"function"}
  BY <1>1, <1>2, RunFacts
<1>4. \/ CacheScope(d, it) = d.scope
      \/ /\ d.name \in DOMAIN it.par /\ d.name \in DOMAIN it.keys
         /\ CacheScope(d, it) = it.keys[d.name] /\ Wider(it.keys[d.name], d.scope)
  BY DEF CacheScope
<1>5. CacheScope(d, it) \in Scopes
  BY <1>3, <1>4
<1> QED
  BY <1>1, <1>2, <1>4, <1>5

\* What Execute stores and hands over.
Binds(d) == Prepared[run.suite][pos].binds[d]
Rests(d, res) == RestsOn(d, Binds(d), res)
Own(d) == [id |-> next, name |-> d.name, par |-> CacheKey(d, Item).par,
           scope |-> CacheScope(d, Item), moves |-> Moves(d, Binds(d)), hidden |-> FALSE]
RunsOn(d) == IF d.kind = "aio" THEN Loop(d.loop, Item) ELSE NoLoop
EntryOf(d, err, rs) ==
    [key |-> CacheKey(d, Item), scope |-> CacheScope(d, Item), inst |-> CacheInstance(d, Item),
     binds |-> Binds(d), err |-> err, res |-> rs]
PendingOf(d, rs) ==
    [scope |-> CacheScope(d, Item), inst |-> CacheInstance(d, Item), binds |-> Binds(d), id |-> next,
     res |-> rs, loop |-> RunsOn(d), key |-> CacheKey(d, Item)]

\* The body of the fixture on top returns a value.
Stores(d, all) ==
    /\ cache' = Stored(EntryOf(d, FALSE, all)) /\ HandOver(Front(frames), all)
    /\ UNCHANGED <<bad, want, pc, agenda, faults>>

ExecutedPlain(d, rs) ==
    d.kind = "value" /\ Stores(d, rs) /\ UNCHANGED <<pend, built, next>>
ExecutedYield(d, rs) ==
    /\ d.kind # "value" /\ Stores(d, rs \cup {Own(d)})
    /\ pend' = Append(pend, PendingOf(d, rs)) /\ Build({r.id : r \in {q \in rs : ~q.hidden}} \ {0})
ExecutedFault(d) ==
    /\ Fault /\ Abort /\ UNCHANGED <<pend, built, next>>
    /\ cache' = IF d.kind = "aio" THEN cache ELSE Stored(EntryOf(d, TRUE, {}))

LEMMA ExecuteFacts ==
    ASSUME Types, Execute
    PROVE  /\ frames # <<>> /\ Len(frames) >= 1 /\ pc \in {"early", "resolve"}
           /\ \E d, rs : /\ d = frames[Len(frames)].def /\ rs = Rests(d, frames[Len(frames)].res)
                         /\ (\E k \in 1..Len(Defs) : d = Defs[k])
                         /\ loops' = IF d.kind = "aio" THEN loops \cup {RunsOn(d)} ELSE loops
                         /\ ExecutedPlain(d, rs) \/ ExecutedYield(d, rs) \/ ExecutedFault(d)
           /\ UNCHANGED <<run, pos, errs, xdone, curMod, failed, attempt, stop, hooks>>
<1>1. frames # <<>> /\ pc \in {"early", "resolve"}
  BY DEF Execute, Resolving
<1>2. IsSeq(frames) /\ Len(frames) >= 1 /\ Last(frames) = frames[Len(frames)]
  BY <1>1, FrontFacts DEF Types, FramesOK
<1>3. PICK d : d = Last(frames).def
  OBVIOUS
<1>4. PICK rs : rs = Rests(d, Last(frames).res)
  OBVIOUS
<1>5. \E k \in 1..Len(Defs) : d = Defs[k]
  BY <1>2, <1>3 DEF Types, FramesOK
<1>6. PICK binds : binds = Binds(d)
  OBVIOUS
<1>7. rs = RestsOn(d, binds, Last(frames).res)
  BY <1>4, <1>6 DEF Rests
<1>8. PICK own : own = {Own(d)}
  OBVIOUS
<1>9. own = {[id |-> next, name |-> d.name, par |-> CacheKey(d, Item).par,
              scope |-> CacheScope(d, Item), moves |-> Moves(d, binds), hidden |-> FALSE]}
  BY <1>6, <1>8 DEF Own
<1>10. PICK loop : loop = RunsOn(d)
  OBVIOUS
<1>11. loop = IF d.kind = "aio" THEN Loop(d.loop, Item) ELSE NoLoop
  BY <1>10 DEF RunsOn
<1>12. PICK pending : pending = PendingOf(d, rs)
  OBVIOUS
<1>13. pending = [scope |-> CacheScope(d, Item), inst |-> CacheInstance(d, Item),
                  binds |-> binds, id |-> next, res |-> rs, loop |-> loop, key |-> CacheKey(d, Item)]
  BY <1>6, <1>10, <1>12 DEF PendingOf
<1> DEFINE Entry(err, us) == [key |-> CacheKey(d, Item), scope |-> CacheScope(d, Item),
                              inst |-> CacheInstance(d, Item), binds |-> binds, err |-> err, res |-> us]
<1>14. \A err, us : Entry(err, us) = EntryOf(d, err, us)
  BY <1>6 DEF EntryOf
<1> HIDE DEF Entry
<1>15. /\ loops' = IF d.kind = "aio" THEN loops \cup {loop} ELSE loops
       /\ \/ /\ LET all == IF d.kind = "value" THEN rs ELSE rs \cup own
                IN  cache' = Stored(Entry(FALSE, all)) /\ HandOver(Front(frames), all)
             /\ IF d.kind = "value" THEN UNCHANGED <<pend, built, next>>
                ELSE /\ pend' = Append(pend, pending)
                     /\ Build({r.id : r \in {q \in rs : ~q.hidden}} \ {0})
             /\ UNCHANGED <<bad, want, pc, agenda, faults>>
          \/ /\ Fault /\ Abort
             /\ cache' = IF d.kind = "aio" THEN cache ELSE Stored(Entry(TRUE, {}))
             /\ UNCHANGED <<pend, built, next>>
  BY <1>3, <1>6, <1>7, <1>9, <1>11, <1>13 DEF Execute, Entry, Binds
<1>16. ExecutedPlain(d, rs) \/ ExecutedYield(d, rs) \/ ExecutedFault(d)
  BY <1>8, <1>12, <1>14, <1>15 DEF ExecutedPlain, ExecutedYield, ExecutedFault, Stores
<1> QED
  BY <1>1, <1>2, <1>3, <1>4, <1>5, <1>10, <1>15, <1>16 DEF Execute

\* What a value built on others rests on: the same values, some now hidden.
LEMMA HiddenUpdate ==
    ASSUME NEW r, IsRecord(r), NEW h
    PROVE  [r EXCEPT !.hidden = h] = [id |-> r.id, name |-> r.name, par |-> r.par, scope |-> r.scope,
                                      moves |-> r.moves, hidden |-> h]
<1>1. PICK a, b, c, d, e, f : /\ a = r.id /\ b = r.name /\ c = r.par /\ d = r.scope
                              /\ e = r.moves /\ f = r.hidden
  OBVIOUS
<1>2. r = [id |-> a, name |-> b, par |-> c, scope |-> d, moves |-> e, hidden |-> f]
  BY <1>1 DEF IsRecord
<1>3. [r EXCEPT !.hidden = h] = [id |-> a, name |-> b, par |-> c, scope |-> d, moves |-> e, hidden |-> h]
  BY <1>2
<1> QED
  BY <1>1, <1>3

LEMMA RestsFacts ==
    ASSUME NEW d, NEW res, \A r \in res : IsRecord(r), NEW q \in Rests(d, res)
    PROVE  \E r \in res :
              /\ IsRecord(q) /\ q.id = r.id /\ q.name = r.name /\ q.par = r.par
              /\ q.scope = r.scope /\ q.moves = r.moves
              /\ ~q.hidden => /\ ~r.hidden /\ ~Wider(CacheScope(d, Item), r.scope)
                              /\ CacheScope(d, Item) = "function" \/ r.moves \subseteq Binds(d)
<1>1. PICK r \in res : q = [r EXCEPT !.hidden =
                              \/ r.hidden \/ Wider(CacheScope(d, Item), r.scope)
                              \/ CacheScope(d, Item) # "function" /\ ~(r.moves \subseteq Binds(d))]
  BY DEF Rests, RestsOn
<1>2. PICK h : h = (\/ r.hidden \/ Wider(CacheScope(d, Item), r.scope)
                    \/ CacheScope(d, Item) # "function" /\ ~(r.moves \subseteq Binds(d)))
  OBVIOUS
<1>3. q = [id |-> r.id, name |-> r.name, par |-> r.par, scope |-> r.scope,
           moves |-> r.moves, hidden |-> h]
  BY <1>1, <1>2, HiddenUpdate
<1>4. /\ q.id = r.id /\ q.name = r.name /\ q.par = r.par /\ q.scope = r.scope /\ q.moves = r.moves
      /\ q.hidden = h
  BY <1>3
<1>5. IsRecord(q)
  BY <1>3, <1>4 DEF IsRecord
<1>6. ~h => /\ ~r.hidden /\ ~Wider(CacheScope(d, Item), r.scope)
            /\ CacheScope(d, Item) = "function" \/ r.moves \subseteq Binds(d)
  BY <1>2
<1> QED
  BY <1>4, <1>5, <1>6

\* A new value is newer than all the others.
LEMMA BuildTypes ==
    ASSUME Types, NEW on, Build(on)
    PROVE  next \in 1..MaxValue /\ next' \in 1..MaxValue + 1 /\ next' = next + 1 /\ next \in Nat
  BY RunnerAssumption DEF Types, CountsOK, Build

LEMMA IdsGrow ==
    ASSUME NEW n \in Nat, NEW m \in Nat, n <= m, NEW rs, IdsBelow(rs, n)
    PROVE  IdsBelow(rs, m)
  BY DEF IdsBelow

LEMMA ExecuteTypes == Types /\ Execute => Types'
<1> SUFFICES ASSUME Types, Execute PROVE Types'
  OBVIOUS
<1> USE DEF work, hooks, counts
<1>1. PICK d, rs :
        /\ d = frames[Len(frames)].def /\ rs = Rests(d, frames[Len(frames)].res)
        /\ (\E k \in 1..Len(Defs) : d = Defs[k])
        /\ ExecutedPlain(d, rs) \/ ExecutedYield(d, rs) \/ ExecutedFault(d)
  BY ExecuteFacts
<1>2. /\ frames # <<>> /\ Len(frames) >= 1 /\ pc \in {"early", "resolve"}
      /\ run' = run
      /\ UNCHANGED <<pos, errs, failed, attempt, stop, tdrep, heldHook, saw>>
  BY ExecuteFacts
<1>3. RunOK' /\ N' = N /\ Defs' = Defs /\ RunOK /\ FramesOK /\ PendOK /\ CacheOK
  BY <1>2, Kept, SameRun DEF Types
<1>4. pos \in 1..N /\ next \in Nat
  BY <1>2, RunnerAssumption DEF Types, ControlOK, CountsOK
<1>5. CacheScope(d, Item) \in Scopes
  BY <1>1, <1>3, <1>4, CacheScopeFacts DEF Item
<1>6. IdsBelow(rs, next)
  <2>1. Len(frames) \in 1..Len(frames)
    BY <1>2, SeqFacts DEF FramesOK, Types
  <2>2. IdsBelow(frames[Len(frames)].res, next)
    BY <2>1, <1>3 DEF FramesOK
  <2>3. \A r \in frames[Len(frames)].res : IsRecord(r)
    BY <2>2 DEF IdsBelow
  <2>4. \A q \in rs : \E r \in frames[Len(frames)].res : IsRecord(q) /\ q.id = r.id
    BY <1>1, <2>3, RestsFacts
  <2> QED
    BY <2>2, <2>4 DEF IdsBelow
<1>7. ControlOK' \/ Abort
  <2>1. Abort \/ UNCHANGED <<pc, agenda>>
    BY <1>1 DEF ExecutedPlain, ExecutedYield, ExecutedFault, Stores
  <2> QED
    BY <1>2, <1>3, <2>1 DEF Types, ControlOK
<1>8. ASSUME NEW all, NEW n \in Nat, next <= n, IdsBelow(all, n), HandOver(Front(frames), all), next' = n
      PROVE  FramesOK'
  <2>1. PICK fs : fs = Front(frames)
    OBVIOUS
  <2>2. /\ IsSeq(fs) /\ Len(fs) = Len(frames) - 1
        /\ \A i \in 1..Len(frames) - 1 : fs[i] = frames[i]
    BY <1>2, <1>3, <2>1, FrontFacts DEF FramesOK
  <2>3. Len(frames) \in Nat
    BY <1>3, SeqFacts DEF FramesOK
  <2>4. ASSUME NEW i \in 1..Len(fs)
        PROVE  /\ IsFrame(fs[i]) /\ (\E k \in 1..Len(Defs) : fs[i].def = Defs[k])
               /\ IdsBelow(fs[i].res, n)
    <3>1. i \in 1..Len(frames) /\ fs[i] = frames[i]
      BY <2>2, <2>3
    <3> QED
      BY <1>3, <1>4, <1>8, <3>1, IdsGrow DEF FramesOK
  <2>5. HandOver(fs, all)
    BY <1>8, <2>1
  <2>6. IsSeq(frames') /\ Len(frames') = Len(fs)
    BY <2>2, <2>4, <2>5, HandOverFacts
  <2>7. \A i \in 1..Len(fs) : IsFrame(frames'[i]) /\ frames'[i].def = fs[i].def
    BY <2>2, <2>4, <2>5, HandOverFacts
  <2>8. \A i \in 1..Len(fs) : frames'[i].res = IF i = Len(fs) THEN fs[i].res \cup all ELSE fs[i].res
    BY <2>2, <2>4, <2>5, HandOverFacts
  <2>9. \A i \in 1..Len(fs) : IdsBelow(frames'[i].res, n)
    BY <1>8, <2>4, <2>8 DEF IdsBelow
  <2> QED
    BY <1>3, <1>8, <2>4, <2>6, <2>7, <2>9 DEF FramesOK
<1>9. ASSUME NEW err \in BOOLEAN, NEW all, NEW n \in Nat, next <= n, IdsBelow(all, n), next' = n,
             cache' = Stored(EntryOf(d, err, all))
      PROVE  CacheOK'
  <2>1. PICK e : e = EntryOf(d, err, all)
    OBVIOUS
  <2>2. e.err = err /\ e.res = all /\ e.scope = CacheScope(d, Item)
    BY <2>1 DEF EntryOf
  <2>3. \A c \in cache' : c \in cache \/ c = e
    BY <1>9, <2>1 DEF Stored
  <2>4. \A c \in cache : c.err \in BOOLEAN /\ IdsBelow(c.res, n) /\ c.scope \in Scopes
    BY <1>3, <1>4, <1>9, IdsGrow DEF CacheOK
  <2> QED
    BY <1>5, <1>9, <2>2, <2>3, <2>4 DEF CacheOK
<1>10. CASE ExecutedPlain(d, rs)
  <2>1. /\ next' = next /\ pend' = pend /\ UNCHANGED <<bad, pc, agenda, faults>>
        /\ cache' = Stored(EntryOf(d, FALSE, rs)) /\ HandOver(Front(frames), rs)
    BY <1>10 DEF ExecutedPlain, Stores
  <2>2. FramesOK' /\ CacheOK'
    <3>1. PICK n \in Nat : n = next
      BY <1>4
    <3>2. next <= n /\ next' = n /\ IdsBelow(rs, n) /\ FALSE \in BOOLEAN
      BY <1>6, <2>1, <3>1
    <3>3. FramesOK'
      BY <1>8, <2>1, <3>2
    <3>4. CacheOK'
      BY <1>9, <2>1, <3>2
    <3> QED
      BY <3>3, <3>4
  <2>3. ControlOK' /\ PendOK' /\ CountsOK'
    BY <1>2, <1>3, <2>1, Kept DEF Types, ControlOK
  <2> QED
    BY <1>3, <2>2, <2>3 DEF Types
<1>11. CASE ExecutedYield(d, rs)
  <2>1. /\ pend' = Append(pend, PendingOf(d, rs)) /\ UNCHANGED <<bad, pc, agenda, faults>>
        /\ cache' = Stored(EntryOf(d, FALSE, rs \cup {Own(d)}))
        /\ HandOver(Front(frames), rs \cup {Own(d)})
        /\ Build({r.id : r \in {q \in rs : ~q.hidden}} \ {0})
    BY <1>11 DEF ExecutedYield, Stores
  <2>2. next \in Nat /\ next' \in Nat /\ next <= next' /\ next' = next + 1 /\ next' \in 1..MaxValue + 1
    BY <2>1, BuildTypes
  <2>3. PICK own : own = Own(d)
    OBVIOUS
  <2>4. IsRecord(own) /\ own.id = next
    BY <2>3 DEF Own, IsRecord
  <2>5. IdsBelow(rs, next')
    BY <1>6, <2>2, IdsGrow
  <2>6. PICK all : all = rs \cup {Own(d)}
    OBVIOUS
  <2>7. IdsBelow(all, next')
    BY <2>2, <2>3, <2>4, <2>5, <2>6 DEF IdsBelow
  <2>8. FramesOK' /\ CacheOK'
    BY <1>8, <1>9, <2>1, <2>2, <2>6, <2>7
  <2>9. PendOK'
    <3>1. PICK p : p = PendingOf(d, rs)
      OBVIOUS
    <3>2. p.id = next /\ p.scope = CacheScope(d, Item)
      BY <3>1 DEF PendingOf
    <3>3. IsSeq(pend') /\ Len(pend') = Len(pend) + 1
      BY <1>3, <2>1, <3>1, AppendFacts DEF PendOK
    <3>4. (\A i \in 1..Len(pend) : pend'[i] = pend[i]) /\ pend'[Len(pend) + 1] = p
      BY <1>3, <2>1, <3>1, AppendFacts DEF PendOK
    <3>5. Len(pend) \in Nat
      BY <1>3, SeqFacts DEF PendOK
    <3>6. ASSUME NEW i \in 1..Len(pend')
          PROVE  pend'[i].id \in Nat \ {0} /\ pend'[i].id < next' /\ pend'[i].scope \in Scopes
      <4>1. CASE i \in 1..Len(pend)
        BY <1>3, <2>2, <3>4, <4>1 DEF PendOK
      <4>2. CASE i = Len(pend) + 1
        <5>1. pend'[i] = p
          BY <3>4, <4>2
        <5>2. next >= 1
          BY DEF Types, CountsOK
        <5> QED
          BY <1>5, <2>2, <3>2, <5>1, <5>2
      <4> QED
        BY <3>3, <3>5, <4>1, <4>2
    <3> QED
      BY <3>3, <3>6 DEF PendOK
  <2>10. ControlOK'
    BY <1>2, <1>3, <2>1 DEF Types, ControlOK
  <2>11. CountsOK'
    BY <1>2, <1>3, <2>1, <2>2 DEF Types, CountsOK
  <2> QED
    BY <1>3, <2>8, <2>9, <2>10, <2>11 DEF Types
<1>12. CASE ExecutedFault(d)
  <2>1. /\ Fault /\ Abort /\ UNCHANGED <<pend, next>>
        /\ cache' = IF d.kind = "aio" THEN cache ELSE Stored(EntryOf(d, TRUE, {}))
    BY <1>12 DEF ExecutedFault
  <2>2. FramesOK' /\ ControlOK' /\ bad' = TRUE
    BY <1>2, <2>1, AbortTypes
  <2>3. PendOK'
    BY <1>2, <2>1, Kept
  <2>4. CacheOK'
    <3>1. CASE d.kind = "aio"
      BY <1>2, <2>1, <3>1, Kept
    <3>2. CASE d.kind # "aio"
      <4>1. cache' = Stored(EntryOf(d, TRUE, {}))
        BY <2>1, <3>2
      <4>2. PICK n \in Nat : n = next
        BY <1>4
      <4>3. PICK none : none = {}
        OBVIOUS
      <4>4. IdsBelow(none, n) /\ next <= n /\ next' = n /\ TRUE \in BOOLEAN
        BY <2>1, <4>2, <4>3 DEF IdsBelow
      <4>5. cache' = Stored(EntryOf(d, TRUE, none))
        BY <4>1, <4>3
      <4> QED
        BY <1>9, <4>4, <4>5
    <3> QED
      BY <3>1, <3>2
  <2>5. CountsOK'
    <3>1. faults' \in 0..MaxFaults
      BY <2>1, FaultFacts
    <3> QED
      BY <1>2, <1>3, <2>1, <2>2, <3>1 DEF Types, CountsOK
  <2> QED
    BY <1>3, <2>2, <2>3, <2>4, <2>5 DEF Types
<1> QED
  BY <1>1, <1>10, <1>11, <1>12

\* What EnsureXunit can do: go on when nothing is left to do, run the next
\* setup_module, or end the setup.
XunitTodo == {m \in XunitNames(Item) : XunitDue(m) \/ XunitFailed(m)}
XunitFirst == IF Item.parent \in XunitTodo THEN Item.parent ELSE Item.mod
XunitGoesOn == pc' \in {"early", "resolve"} /\ UNCHANGED <<agenda, frames, got, bad>>

LEMMA XunitFirstFacts ==
    XunitTodo # {} => XunitFirst \in XunitTodo
  BY DEF XunitTodo, XunitFirst, XunitNames

LEMMA EnsureXunitFacts ==
    ASSUME Types, EnsureXunit
    PROVE  /\ pc = "early" /\ frames = <<>>
           /\ UNCHANGED <<run, pos, errs, cache, loops, curMod, failed, attempt, stop, hooks>>
           /\ \/ /\ Abort \/ (XunitTodo = {} /\ XunitGoesOn /\ pc' = "resolve")
                 /\ UNCHANGED <<xdone, pend, built, next, faults>>
              \/ /\ XunitFirst \in XunitTodo /\ XunitGoesOn /\ pc' = "early" /\ UNCHANGED faults
                 /\ xdone' = xdone \cup {[mod |-> XunitFirst, ok |-> TRUE]}
                 /\ pend' = Append(pend, Xid(XunitFirst)) /\ Build({})
              \/ /\ XunitFirst \in XunitTodo /\ Abort /\ Fault /\ UNCHANGED <<pend, built, next>>
                 /\ xdone' = xdone \cup {[mod |-> XunitFirst, ok |-> FALSE]}
<1>1. PICK todo : todo = XunitTodo
  OBVIOUS
<1>2. PICK first : first = XunitFirst
  OBVIOUS
<1>3. /\ pc = "early" /\ frames = <<>>
      /\ UNCHANGED <<run, pos, errs, cache, loops, curMod, failed, attempt, stop, hooks>>
  BY DEF EnsureXunit
<1>4. IF todo = {}
      THEN /\ pc' = "resolve" /\ want' = Prepared[run.suite][pos].names
           /\ UNCHANGED <<agenda, frames, got, bad, xdone, pend, built, next, faults>>
      ELSE IF XunitFailed(first)
      THEN Abort /\ UNCHANGED <<xdone, pend, built, next, faults>>
      ELSE SetupModule(first)
  BY <1>1, <1>2 DEF EnsureXunit, XunitTodo, XunitFirst
<1>5. CASE todo = {}
  BY <1>1, <1>3, <1>4, <1>5 DEF XunitGoesOn
<1>6. CASE todo # {} /\ XunitFailed(first)
  BY <1>3, <1>4, <1>6
<1>7. CASE todo # {} /\ ~XunitFailed(first)
  BY <1>1, <1>2, <1>3, <1>4, <1>7, XunitFirstFacts DEF SetupModule, XunitGoesOn
<1> QED
  BY <1>5, <1>6, <1>7

LEMMA EnsureXunitTypes == Types /\ EnsureXunit => Types'
<1> SUFFICES ASSUME Types, EnsureXunit PROVE Types'
  OBVIOUS
<1> USE DEF work, hooks, counts
<1>1. /\ pc = "early" /\ run' = run
      /\ UNCHANGED <<pos, errs, cache, failed, attempt, stop, tdrep, heldHook, saw>>
  BY EnsureXunitFacts
<1>2. RunOK' /\ N' = N /\ Defs' = Defs /\ RunOK /\ FramesOK /\ PendOK /\ CacheOK
  BY <1>1, Kept, SameRun DEF Types
<1>3. Abort => FramesOK' /\ ControlOK' /\ bad' = TRUE
  BY <1>1, AbortTypes
<1>4. XunitGoesOn => ControlOK' /\ frames' = frames /\ bad' = bad
  BY <1>1, <1>2 DEF XunitGoesOn, Types, ControlOK, Pcs
<1>5. CASE (Abort \/ XunitGoesOn) /\ UNCHANGED <<pend, next, faults>>
  <2>1. FramesOK' /\ ControlOK'
    BY <1>1, <1>3, <1>4, <1>5, Kept
  <2>2. PendOK' /\ CacheOK'
    BY <1>1, <1>5, Kept
  <2>3. bad' \in BOOLEAN
    BY <1>3, <1>4, <1>5 DEF Types, CountsOK
  <2>4. CountsOK'
    BY <1>1, <1>2, <1>5, <2>3 DEF Types, CountsOK
  <2> QED
    BY <1>2, <2>1, <2>2, <2>4 DEF Types
<1>6. CASE XunitGoesOn /\ UNCHANGED faults /\ pend' = Append(pend, Xid(XunitFirst)) /\ Build({})
  <2>1. next \in Nat /\ next' \in Nat /\ next <= next' /\ next' = next + 1 /\ next' \in 1..MaxValue + 1
    BY <1>6, BuildTypes
  <2>2. FramesOK'
    BY <1>2, <1>4, <1>6, <2>1, IdsGrow DEF FramesOK
  <2>3. CacheOK'
    BY <1>1, <1>2, <2>1, IdsGrow DEF CacheOK
  <2>4. PendOK'
    <3>1. PICK p : p = Xid(XunitFirst)
      OBVIOUS
    <3>2. p.id = next /\ p.scope = "module"
      BY <3>1 DEF Xid
    <3>3. IsSeq(pend') /\ Len(pend') = Len(pend) + 1
      BY <1>2, <1>6, <3>1, AppendFacts DEF PendOK
    <3>4. (\A i \in 1..Len(pend) : pend'[i] = pend[i]) /\ pend'[Len(pend) + 1] = p
      BY <1>2, <1>6, <3>1, AppendFacts DEF PendOK
    <3>5. Len(pend) \in Nat
      BY <1>2, SeqFacts DEF PendOK
    <3>6. "module" \in Scopes
      BY DEF Scopes, Rank
    <3>7. ASSUME NEW i \in 1..Len(pend')
          PROVE  pend'[i].id \in Nat \ {0} /\ pend'[i].id < next' /\ pend'[i].scope \in Scopes
      <4>1. CASE i \in 1..Len(pend)
        BY <1>2, <2>1, <3>4, <4>1 DEF PendOK
      <4>2. CASE i = Len(pend) + 1
        <5>1. pend'[i] = p
          BY <3>4, <4>2
        <5>2. next >= 1
          BY DEF Types, CountsOK
        <5> QED
          BY <2>1, <3>2, <3>6, <5>1, <5>2
      <4> QED
        BY <3>3, <3>5, <4>1, <4>2
    <3> QED
      BY <3>3, <3>7 DEF PendOK
  <2>5. CountsOK'
    BY <1>1, <1>2, <1>4, <1>6, <2>1 DEF Types, CountsOK
  <2> QED
    BY <1>2, <1>4, <1>6, <2>2, <2>3, <2>4, <2>5 DEF Types
<1>7. CASE Abort /\ Fault /\ UNCHANGED <<pend, next>>
  <2>1. faults' \in 0..MaxFaults
    BY <1>7, FaultFacts
  <2>2. PendOK' /\ CacheOK'
    BY <1>1, <1>7, Kept
  <2>3. CountsOK'
    BY <1>1, <1>2, <1>3, <1>7, <2>1 DEF Types, CountsOK
  <2> QED
    BY <1>2, <1>3, <1>7, <2>2, <2>3 DEF Types
<1> QED
  BY <1>5, <1>6, <1>7, EnsureXunitFacts

LEMMA StutterTypes == Types /\ UNCHANGED vars => Types'
<1> SUFFICES ASSUME Types, UNCHANGED vars PROVE Types'
  OBVIOUS
<1> USE DEF vars, hooks
<1>1. RunOK' /\ N' = N /\ FramesOK' /\ PendOK' /\ CacheOK' /\ CountsOK'
  BY Kept, SameRun DEF Types
<1>2. ControlOK'
  BY <1>1 DEF Types, ControlOK
<1> QED
  BY <1>1, <1>2 DEF Types

LEMMA StepTypes == Types /\ [Next]_vars => Types'
  BY PickTypes, FinalizerTypes, EndTaskTypes, StartTypes, BeginSetupTypes, EnsureXunitTypes,
     ResolveTypes, ExecuteTypes, SetupDoneTypes, CallTypes, EndItemTypes, AfterTypes, NextItemTypes,
     FinishTypes, StutterTypes DEF Next

LEMMA TypesInvariant == Spec => []Types
  BY InitTypes, StepTypes, PTL DEF Spec

(* Every variable keeps its shape and the bounded counters their range: no *)
(* more values than MaxValue, no more attempts than the protocol hook      *)
(* makes, and an item index that never leaves the list.                    *)
THEOREM RunnerTypes == Spec => []TypeOK
  BY TypesInvariant, TypesImplyTypeOK, PTL
---------------------------------------------------------------------------
(* The teardown report of an item and the hook that is told of it.  Only   *)
(* the hook that is held back may not have seen the report as it is now,   *)
(* and a report that still says passed can only be that of the held one.   *)
HooksTold ==
    /\ \A i \in 1..N : i # heldHook /\ tdrep[i] # "none" => saw[i] = tdrep[i]
    /\ \A i \in 1..N : tdrep[i] # "none" => i < pos \/ (i = pos /\ pc \in {"after", "params"})
    /\ pc \in {"setup", "early", "resolve", "call", "teardown", "done"} => heldHook = 0
    /\ Local /\ pc \in {"after", "params"} /\ tdrep[pos] = "passed" => heldHook = pos
    /\ Local /\ pc \in {"pick", "between", "final"} /\ tdrep[pos - 1] = "passed" /\ pos > 1
          => heldHook = pos - 1
    /\ ~Local => heldHook = 0

LEMMA ToldInit == Init => HooksTold
<1> SUFFICES ASSUME Init PROVE HooksTold
  OBVIOUS
<1>1. N \in Nat /\ tdrep = [i \in 1..N |-> "none"] /\ heldHook = 0 /\ pc = "pick" /\ pos = 1
  BY InitTypes, RunFacts DEF Types, Init, N, Items
<1> QED
  BY <1>1 DEF HooksTold

LEMMA ToldStep == Types /\ HooksTold /\ [Next]_vars => HooksTold'
<1> SUFFICES ASSUME Types, HooksTold, [Next]_vars PROVE HooksTold'
  OBVIOUS
<1> USE DEF hooks, counts, work
<1>1. /\ N \in Nat /\ pos \in 1..N + 1 /\ (pc \notin {"pick", "final", "done"} => pos <= N)
      /\ tdrep \in [1..N -> {"none", "passed", "failed"}]
      /\ saw \in [1..N -> {"none", "passed", "failed"}] /\ heldHook \in 0..N
  BY RunFacts DEF Types, ControlOK, CountsOK
<1>2. CASE run' = run /\ UNCHANGED <<pos, hooks>> /\ pc' = pc
  BY <1>2, SameRun DEF HooksTold, Types
<1>3. CASE Pick
  <2>1. run' = run /\ UNCHANGED <<pos, hooks>> /\ pc = "pick" /\ pc' \in {"final", "between"}
    BY <1>3 DEF Pick
  <2>2. N' = N /\ Local' = Local
    BY <2>1, SameRun DEF Types
  <2> QED
    BY <2>1, <2>2 DEF HooksTold
<1>4. CASE RunFinalizer
  BY <1>2, <1>4 DEF RunFinalizer
<1>5. CASE EndTask
  <2>1. /\ run' = run /\ UNCHANGED <<pos, pc, heldHook>> /\ agenda # <<>>
        /\ pc \in {"between", "teardown", "params", "final"}
    BY <1>5 DEF EndTask, Types, ControlOK
  <2>2. N' = N /\ Local' = Local
    BY <2>1, SameRun DEF Types
  <2>3. CASE UNCHANGED <<tdrep, saw>>
    BY <1>2, <2>1, <2>3
  <2>4. CASE pc # "teardown" /\ ScopeFailure /\ Local
    <3>1. PICK last : last = IF pc = "between" \/ pc = "final" THEN pos - 1 ELSE pos
      OBVIOUS
    <3>2. /\ tdrep' = [tdrep EXCEPT ![last] = "failed"]
          /\ saw' = IF tdrep[last] = "passed" THEN saw ELSE [saw EXCEPT ![last] = "failed"]
      BY <2>4, <3>1 DEF ScopeFailure
    <3>3. last \in 0..N /\ (last = pos - 1 \/ (last = pos /\ pc = "params"))
      BY <1>1, <2>1, <2>4, <3>1
    <3>4. \A i \in 1..N : /\ tdrep'[i] = IF i = last THEN "failed" ELSE tdrep[i]
                          /\ saw'[i] = IF i = last /\ tdrep[last] # "passed" THEN "failed" ELSE saw[i]
      BY <1>1, <3>2
    <3>5. last \in 1..N /\ tdrep[last] = "passed" => heldHook = last
      BY <1>1, <2>1, <2>4, <3>1 DEF HooksTold
    <3>6. \A i \in 1..N : i # heldHook /\ tdrep'[i] # "none" => saw'[i] = tdrep'[i]
      BY <3>4, <3>5 DEF HooksTold
    <3>7. \A i \in 1..N : tdrep'[i] # "none" => i < pos \/ (i = pos /\ pc \in {"after", "params"})
      BY <1>1, <3>3, <3>4 DEF HooksTold
    <3>8. pc \in {"params"} => tdrep'[pos] = "failed"
      BY <1>1, <3>1, <3>4
    <3>9. pc \in {"between", "final"} /\ pos > 1 => tdrep'[pos - 1] = "failed"
      BY <1>1, <3>1, <3>4
    <3> QED
      BY <2>1, <2>2, <2>4, <3>6, <3>7, <3>8, <3>9 DEF HooksTold
  <2> QED
    BY <1>5, <2>3, <2>4 DEF EndTask, ScopeFailure
<1>6. CASE Start
  <2>1. run' = run /\ UNCHANGED <<pos, tdrep>> /\ pc = "between" /\ Flush /\ pc' \in {"after", "setup"}
    BY <1>6 DEF Start
  <2>2. N' = N /\ Local' = Local
    BY <2>1, SameRun DEF Types
  <2>3. heldHook' = 0 /\ \A i \in 1..N : tdrep[i] # "none" => saw'[i] = tdrep[i]
    BY <1>1, <2>1 DEF Flush, HooksTold
  <2>4. \A i \in 1..N : tdrep[i] # "none" => i < pos
    BY <2>1 DEF HooksTold
  <2>5. tdrep[pos] = "none"
    BY <1>1, <2>1, <2>4
  <2> QED
    BY <2>1, <2>2, <2>3, <2>4, <2>5 DEF HooksTold
<1>7. CASE BeginSetup
  <2>1. run' = run /\ UNCHANGED <<pos, hooks>> /\ pc = "setup" /\ pc' = "early"
    BY <1>7 DEF BeginSetup
  <2> QED
    BY <2>1, SameRun DEF HooksTold, Types
<1>8. CASE EnsureXunit
  <2>1. /\ run' = run /\ UNCHANGED <<pos, hooks>> /\ pc = "early" /\ pc' \in {"teardown", "early", "resolve"}
    BY <1>8, EnsureXunitFacts DEF Abort, XunitGoesOn
  <2> QED
    BY <2>1, SameRun DEF HooksTold, Types
<1>9. CASE Resolve
  <2>1. run' = run /\ UNCHANGED <<pos, hooks>> /\ pc \in {"early", "resolve"}
    BY <1>9 DEF Resolve, Resolving
  <2>2. pc' = pc \/ pc' = "teardown"
    BY <1>9, ResolveFacts DEF Abort, Asked, AskedArgument
  <2> QED
    BY <2>1, <2>2, SameRun DEF HooksTold, Types
<1>10. CASE Execute
  <2>1. run' = run /\ UNCHANGED <<pos, hooks>> /\ pc \in {"early", "resolve"}
    BY <1>10, ExecuteFacts
  <2>2. pc' = pc \/ pc' = "teardown"
    BY <1>10, ExecuteFacts DEF Abort, ExecutedPlain, ExecutedYield, ExecutedFault, Stores
  <2> QED
    BY <2>1, <2>2, SameRun DEF HooksTold, Types
<1>11. CASE SetupDone
  <2>1. run' = run /\ UNCHANGED <<pos, hooks>> /\ pc = "resolve" /\ pc' = "call"
    BY <1>11 DEF SetupDone
  <2> QED
    BY <2>1, SameRun DEF HooksTold, Types
<1>12. CASE Call
  <2>1. run' = run /\ UNCHANGED <<pos, hooks>> /\ pc = "call" /\ pc' = "teardown"
    BY <1>12 DEF Call
  <2> QED
    BY <2>1, SameRun DEF HooksTold, Types
<1>13. CASE EndItem
  <2>1. run' = run /\ pos' = pos /\ pc = "teardown" /\ pos \in 1..N
    BY <1>1, <1>13 DEF EndItem
  <2>2. N' = N /\ Local' = Local
    BY <2>1, SameRun DEF Types
  <2>3. CASE AnotherAttempt
    BY <1>13, <2>1, <2>2, <2>3 DEF EndItem, HooksTold
  <2>4. CASE ~AnotherAttempt
    <3>1. PICK outcome : outcome = IF errs THEN "failed" ELSE "passed"
      OBVIOUS
    <3>2. pc' = "after" /\ ReportTeardown(outcome) /\ outcome \in {"failed", "passed"}
      BY <1>13, <2>4, <3>1 DEF EndItem
    <3>3. \A i \in 1..N : tdrep'[i] = IF i = pos THEN outcome ELSE tdrep[i]
      BY <1>1, <3>2 DEF ReportTeardown
    <3>4. CASE Local
      BY <2>1, <2>2, <3>2, <3>3, <3>4 DEF ReportTeardown, HooksTold
    <3>5. CASE ~Local
      <4>1. \A i \in 1..N : saw'[i] = IF i = pos THEN outcome ELSE saw[i]
        BY <1>1, <3>2, <3>5 DEF ReportTeardown
      <4> QED
        BY <2>1, <2>2, <3>2, <3>3, <3>5, <4>1 DEF ReportTeardown, HooksTold
    <3> QED
      BY <3>4, <3>5
  <2> QED
    BY <2>3, <2>4
<1>14. CASE After
  <2>1. run' = run /\ UNCHANGED hooks /\ pc = "after" /\ pos \in 1..N
    BY <1>1, <1>14 DEF After
  <2>2. N' = N /\ Local' = Local
    BY <2>1, SameRun DEF Types
  <2>3. \/ pc' \in {"final", "pick"} /\ pos' = pos + 1
        \/ pc' = "params" /\ pos' = pos
    BY <1>14 DEF After
  <2>4. pos' = pos + 1 => pos' - 1 = pos
    BY <2>1
  <2> QED
    BY <1>1, <2>1, <2>2, <2>3, <2>4 DEF HooksTold
<1>15. CASE NextItem
  <2>1. run' = run /\ UNCHANGED hooks /\ pc = "params" /\ pos \in 1..N /\ pc' = "pick" /\ pos' = pos + 1
    BY <1>1, <1>15 DEF NextItem
  <2>2. N' = N /\ Local' = Local
    BY <2>1, SameRun DEF Types
  <2>3. pos' - 1 = pos
    BY <2>1
  <2> QED
    BY <1>1, <2>1, <2>2, <2>3 DEF HooksTold
<1>16. CASE Finish
  <2>1. run' = run /\ UNCHANGED <<pos, tdrep>> /\ pc = "final" /\ Flush /\ pc' = "done"
    BY <1>16 DEF Finish
  <2>2. N' = N /\ Local' = Local
    BY <2>1, SameRun DEF Types
  <2>3. heldHook' = 0 /\ \A i \in 1..N : tdrep[i] # "none" => saw'[i] = tdrep[i]
    BY <1>1, <2>1 DEF Flush, HooksTold
  <2> QED
    BY <2>1, <2>2, <2>3 DEF HooksTold
<1>17. CASE UNCHANGED vars
  BY <1>2, <1>17 DEF vars
<1> QED
  BY <1>3, <1>4, <1>5, <1>6, <1>7, <1>8, <1>9, <1>10, <1>11, <1>12, <1>13, <1>14, <1>15, <1>16, <1>17
  DEF Next

(* Whatever fails, and wherever the run stops, the hook of every item has  *)
(* been called with the outcome its teardown report ended with.            *)
THEOREM RunnerHookSawFinal == Spec => []HookSawFinal
<1>1. Types /\ HooksTold => HookSawFinal
  BY RunFacts DEF HooksTold, HookSawFinal, Types
<1> QED
  BY <1>1, TypesInvariant, ToldInit, ToldStep, PTL DEF Spec
---------------------------------------------------------------------------
(* Where held things belong.  What is held is what has a finalizer or is   *)
(* cached; every one of them has a scope and the node it was made for.     *)
Held == {pend[i] : i \in 1..Len(pend)} \cup cache

(* What setup_module of a package leaves is kept for the package, though    *)
(* its scope is the module; in a worker nothing tears it down.             *)
ParentNodes == {<<Items[i].parent>> : i \in 1..N} \ {SessionInstance}
OfParent(x) == x.scope = "module" /\ x.inst \in ParentNodes

HomeAt(x, i) == x.inst = IF OfParent(x) THEN <<Items[i].parent>> ELSE InstanceAt(Items[i], x.scope)
Due(x) == \E k \in 1..Len(agenda) : agenda[k] = ScopeTask(x.scope, x.inst)

(* The scopes a loop tears down when their node changes.                   *)
Torn == {"class", "module"} \cup (IF Local THEN {"package"} ELSE {})
IsTorn(x) == x.scope \in Torn /\ (OfParent(x) => Local)
AtItem == {"setup", "early", "resolve", "call", "teardown", "after", "params"}

TornHome(x) ==
    /\ pc \in AtItem => HomeAt(x, pos)
    /\ pc = "pick" => pos > 1 /\ HomeAt(x, pos - 1)
    /\ pc = "between" => pos > 1 /\ HomeAt(x, pos - 1) /\ (HomeAt(x, pos) \/ Due(x))
    /\ pc = "final" => Due(x)
    /\ pc # "done"

FunctionHome(x) ==
    /\ pc \in {"early", "resolve", "call", "teardown"} /\ HomeAt(x, pos)
    /\ pc = "teardown" => Due(x)

SessionHome(x) ==
    /\ x.inst = SessionInstance \/ Len(x.inst) = 2
    /\ x.inst = SessionInstance => pc # "done" /\ (pc = "final" => Due(x))

HomeOK(x) ==
    /\ x.scope \in Scopes
    /\ IsTorn(x) => TornHome(x)
    /\ x.scope = "function" => FunctionHome(x)
    /\ x.scope = "session" => SessionHome(x)

Nested == \A x \in Held : HomeOK(x)

\* A package's own node is not the session's.
LEMMA NamedNode ==
    ASSUME NEW m, m # ""
    PROVE  <<m>> # SessionInstance
<1>1. <<m>>[1] # SessionInstance[1]
  BY DEF SessionInstance
<1> QED
  BY <1>1

LEMMA ScopeTaskFacts ==
    ASSUME NEW scope, NEW inst, NEW x
    PROVE  /\ ScopeTask(scope, inst).by = "scope" /\ ScopeTask(scope, inst).scope = scope
           /\ ScopeTask(scope, inst).inst = inst
           /\ Matches(ScopeTask(scope, inst), x) <=> x.scope = scope /\ x.inst = inst
  BY DEF ScopeTask, Matches

\* What a step does to the things held.
LEMMA HeldSteps ==
    ASSUME Types
    PROVE  /\ UNCHANGED <<pend, cache>> => Held' = Held
           /\ RunFinalizer => Held' \subseteq Held
           /\ EndTask => \A x \in Held' : x \in Held /\ ~Matches(agenda[1], x)
           /\ BeginSetup => Held' \subseteq Held
           /\ EnsureXunit => \A x \in Held' :
                 x \in Held \/ (x = Xid(XunitFirst) /\ XunitFirst \in XunitTodo)
<1>0. IsSeq(pend) /\ Len(pend) \in Nat
  BY SeqFacts DEF Types, PendOK
<1>1. UNCHANGED <<pend, cache>> => Held' = Held
  BY DEF Held
<1>2. ASSUME RunFinalizer PROVE Held' \subseteq Held
  <2>1. PICK i \in 1..Len(pend) :
            /\ Len(pend') = Len(pend) - 1
            /\ \A j \in 1..Len(pend) - 1 : pend'[j] = IF j < i THEN pend[j] ELSE pend[j + 1]
    BY <1>2, FinalizerFacts
  <2>2. ASSUME NEW j \in 1..Len(pend') PROVE \E k \in 1..Len(pend) : pend'[j] = pend[k]
    <3>1. j \in 1..Len(pend) /\ j + 1 \in 1..Len(pend) /\ j \in 1..Len(pend) - 1
      BY <1>0, <2>1
    <3>2. pend'[j] = pend[j] \/ pend'[j] = pend[j + 1]
      BY <2>1, <3>1
    <3> QED
      BY <3>1, <3>2
  <2> QED
    BY <1>2, <2>2 DEF Held, RunFinalizer
<1>3. ASSUME EndTask PROVE \A x \in Held' : x \in Held /\ ~Matches(agenda[1], x)
  BY <1>3, EndTaskFacts DEF Held
<1>4. ASSUME BeginSetup PROVE Held' \subseteq Held
  BY <1>4 DEF Held, BeginSetup
<1>5. ASSUME EnsureXunit
      PROVE  \A x \in Held' : x \in Held \/ (x = Xid(XunitFirst) /\ XunitFirst \in XunitTodo)
  <2>1. /\ cache' = cache
        /\ pend' = pend \/ (pend' = Append(pend, Xid(XunitFirst)) /\ XunitFirst \in XunitTodo)
    BY <1>5, EnsureXunitFacts
  <2>2. CASE pend' = Append(pend, Xid(XunitFirst)) /\ XunitFirst \in XunitTodo
    <3>1. PICK p : p = Xid(XunitFirst)
      OBVIOUS
    <3>2. Len(pend') = Len(pend) + 1
      BY <1>0, <2>2, <3>1, AppendFacts
    <3>3. (\A i \in 1..Len(pend) : pend'[i] = pend[i]) /\ pend'[Len(pend) + 1] = p
      BY <1>0, <2>2, <3>1, AppendFacts
    <3>4. \A i \in 1..Len(pend') : pend'[i] = p \/ \E k \in 1..Len(pend) : pend'[i] = pend[k]
      BY <1>0, <3>2, <3>3
    <3> QED
      BY <2>1, <2>2, <3>1, <3>4 DEF Held
  <2> QED
    BY <2>1, <2>2 DEF Held
<1> QED
  BY <1>1, <1>2, <1>3, <1>4, <1>5

\* What setup_module leaves is at home at the item it was called for.
LEMMA HookFacts ==
    ASSUME Types, pos \in 1..N, XunitFirst \in XunitTodo, NEW x, x = Xid(XunitFirst)
    PROVE  /\ x.scope = "module" /\ x.inst = <<XunitFirst>> /\ x.binds = {} /\ x.res = {}
           /\ x.id = next /\ x.loop = NoLoop
           /\ x.key = [scope |-> "module", name |-> "xunit", base |-> XunitFirst,
                       inst |-> <<XunitFirst>>, par |-> "none"]
           /\ XunitFirst \in XunitNames(Item) /\ HomeAt(x, pos)
<1>1. PICK m : m = XunitFirst
  OBVIOUS
<1>2. x = Xid(m)
  BY <1>1
<1>3. /\ x.scope = "module" /\ x.inst = <<m>> /\ x.binds = {} /\ x.res = {}
      /\ x.id = next /\ x.loop = NoLoop
      /\ x.key = [scope |-> "module", name |-> "xunit", base |-> m, inst |-> <<m>>, par |-> "none"]
  BY <1>2 DEF Xid
<1>4. m \in XunitNames(Item)
  BY <1>1 DEF XunitTodo
<1>5. PICK it : it = Items[pos]
  OBVIOUS
<1>6. Item = it
  BY <1>5 DEF Item
<1>7. m = it.mod \/ (m = it.parent /\ m # "")
  BY <1>4, <1>6 DEF XunitNames
<1>8. \A i \in 1..N : it.mod # Items[i].parent
  BY <1>5, RunFacts DEF Types
<1>9. CASE m = it.mod
  <2>1. ~OfParent(x)
    BY <1>3, <1>8, <1>9 DEF OfParent, ParentNodes
  <2>2. InstanceAt(it, "module") = <<it.mod>>
    BY DEF InstanceAt
  <2> QED
    BY <1>1, <1>3, <1>4, <1>5, <1>9, <2>1, <2>2 DEF HomeAt
<1>10. CASE m = it.parent /\ m # ""
  <2>1. OfParent(x)
    BY <1>3, <1>5, <1>10, NamedNode DEF OfParent, ParentNodes
  <2> QED
    BY <1>1, <1>3, <1>4, <1>5, <1>10, <2>1 DEF HomeAt
<1> QED
  BY <1>7, <1>9, <1>10

\* x is kept where the definition d keeps its values now.
MadeBy(x, d) ==
    /\ \E k \in 1..Len(Defs) : d = Defs[k]
    /\ x.scope = CacheScope(d, Item) /\ x.inst = CacheInstance(d, Item) /\ x.binds = Binds(d)
    /\ x.key = CacheKey(d, Item)

LEMMA MadeNode ==
    ASSUME Types, pos \in 1..N, NEW x, NEW d, MadeBy(x, d)
    PROVE  ~OfParent(x)
<1> SUFFICES ASSUME OfParent(x) PROVE FALSE
  OBVIOUS
<1>1. PICK i \in 1..N : x.inst = <<Items[i].parent>>
  BY DEF OfParent, ParentNodes
<1>2. x.scope = "module" /\ x.inst = <<Item.mod>>
  BY DEF OfParent, MadeBy, CacheInstance, InstanceAt
<1> QED
  BY <1>1, <1>2, RunFacts DEF Types, Item

LEMMA HeldExecute ==
    ASSUME Types, Execute
    PROVE  \A x \in Held' : x \in Held \/ \E d : MadeBy(x, d)
<1>0. IsSeq(pend) /\ Len(pend) \in Nat
  BY SeqFacts DEF Types, PendOK
<1>1. PICK d, rs :
        /\ (\E k \in 1..Len(Defs) : d = Defs[k])
        /\ ExecutedPlain(d, rs) \/ ExecutedYield(d, rs) \/ ExecutedFault(d)
  BY ExecuteFacts
<1>2. ASSUME NEW err, NEW all
      PROVE  MadeBy(EntryOf(d, err, all), d)
  BY <1>1 DEF EntryOf, MadeBy
<1>3. \A c \in cache' : c \in cache \/ MadeBy(c, d)
  <2>1. \/ cache' = cache
        \/ \E err, all : cache' = Stored(EntryOf(d, err, all))
    BY <1>1 DEF ExecutedPlain, ExecutedYield, ExecutedFault, Stores
  <2> QED
    BY <1>2, <2>1 DEF Stored
<1>4. \A i \in 1..Len(pend') : MadeBy(pend'[i], d) \/ \E k \in 1..Len(pend) : pend'[i] = pend[k]
  <2>1. pend' = pend \/ pend' = Append(pend, PendingOf(d, rs))
    BY <1>1 DEF ExecutedPlain, ExecutedYield, ExecutedFault
  <2>2. CASE pend' = Append(pend, PendingOf(d, rs))
    <3>1. PICK p : p = PendingOf(d, rs)
      OBVIOUS
    <3>2. MadeBy(p, d)
      BY <1>1, <3>1 DEF PendingOf, MadeBy
    <3>3. Len(pend') = Len(pend) + 1
      BY <1>0, <2>2, <3>1, AppendFacts
    <3>4. (\A i \in 1..Len(pend) : pend'[i] = pend[i]) /\ pend'[Len(pend) + 1] = p
      BY <1>0, <2>2, <3>1, AppendFacts
    <3>5. \A i \in 1..Len(pend') : i \in 1..Len(pend) \/ i = Len(pend) + 1
      BY <1>0, <3>3
    <3> QED
      BY <3>2, <3>4, <3>5
  <2> QED
    BY <2>1, <2>2
<1> QED
  BY <1>3, <1>4 DEF Held

\* A teardown that is due is still due after another one.
LEMMA DueStays ==
    ASSUME Types, EndTask, NEW x, ~Matches(agenda[1], x), Due(x)
    PROVE  Due(x)'
<1>1. PICK k \in 1..Len(agenda) : agenda[k] = ScopeTask(x.scope, x.inst)
  BY DEF Due
<1>2. IsSeq(agenda) /\ Len(agenda) \in Nat
  BY SeqFacts DEF Types, ControlOK
<1>3. k # 1
  BY <1>1, ScopeTaskFacts
<1>4. k - 1 \in 1..Len(agenda) - 1 /\ (k - 1) + 1 = k
  BY <1>1, <1>2, <1>3
<1>5. /\ Len(agenda') = Len(agenda) - 1
      /\ \A j \in 1..Len(agenda) - 1 : agenda'[j] = agenda[j + 1]
  BY EndTaskFacts
<1>6. k - 1 \in 1..Len(agenda') /\ agenda'[k - 1] = ScopeTask(x.scope, x.inst)
  BY <1>1, <1>4, <1>5
<1> QED
  BY <1>6 DEF Due

LEMMA NestedInit == Init => Nested
  BY DEF Init, Nested, Held

\* What is held and does not belong to the next item is due between the two.
LEMMA PickDue ==
    ASSUME Types, Pick, pc' = "between", pos # 1, NEW x, IsTorn(x), HomeAt(x, pos - 1),
           ~HomeAt(x, pos)
    PROVE  Due(x)'
<1>1. PICK prev, it : prev = Items[pos - 1] /\ it = Items[pos]
  OBVIOUS
<1>2. PICK t : t = ScopeTask(x.scope, x.inst)
  OBVIOUS
<1>3. OfParent(x) =>
        PackageTask(prev) = t /\ prev.parent # it.parent /\ Local
  <2> SUFFICES ASSUME OfParent(x) PROVE PackageTask(prev) = t /\ prev.parent # it.parent /\ Local
    OBVIOUS
  <2>1. x.inst = <<prev.parent>> /\ x.inst # <<it.parent>> /\ x.scope = "module" /\ Local
    BY <1>1 DEF HomeAt, IsTorn, OfParent
  <2>2. x.inst # <<"">>
    BY DEF OfParent, ParentNodes, SessionInstance
  <2> QED
    BY <1>2, <2>1, <2>2 DEF PackageTask
<1>4. ~OfParent(x) =>
        InstanceAt(prev, x.scope) # InstanceAt(it, x.scope) /\ Boundary(x.scope, prev, it) = t
  BY <1>1, <1>2 DEF HomeAt, Boundary
<1>5. CASE Local
  <2>1. PICK c, m, p, h : /\ c = Boundary("class", prev, it) /\ m = Boundary("module", prev, it)
                          /\ p = Boundary("package", prev, it)
                          /\ h = IF prev.parent # it.parent THEN PackageTask(prev) ELSE EndedTask({})
    OBVIOUS
  <2>2. agenda' = <<c, m, p, h>>
    BY <1>1, <1>5, <2>1 DEF Pick, LocalBoundary, Item
  <2>3. x.scope \in {"class", "module", "package"}
    BY <1>5 DEF Torn, IsTorn
  <2>4. t \in {c, m, p, h}
    BY <1>3, <1>4, <2>1, <2>3
  <2>5. \E k \in 1..4 : agenda'[k] = t
    BY <2>2, <2>4
  <2>6. Len(agenda') = 4
    BY <2>2
  <2> QED
    BY <1>2, <2>5, <2>6 DEF Due
<1>6. CASE ~Local
  <2>1. x.scope \in {"class", "module"} /\ ~OfParent(x)
    BY <1>6 DEF Torn, IsTorn
  <2>2. PICK Left : Left = [s \in {"class", "module"} |->
                              IF InstanceAt(prev, s) # InstanceAt(it, s)
                              THEN Boundary(s, prev, it) ELSE EndedTask({})]
    OBVIOUS
  <2>3. PICK c, m : c = Left["class"] /\ m = Left["module"]
    OBVIOUS
  <2>4. agenda' = <<c, m>>
    BY <1>1, <1>6, <2>2, <2>3 DEF Pick, WorkerBoundary, Item
  <2>5. t \in {c, m}
    BY <1>4, <2>1, <2>2, <2>3
  <2>6. \E k \in 1..2 : agenda'[k] = t
    BY <2>4, <2>5
  <2>7. Len(agenda') = 2
    BY <2>4
  <2> QED
    BY <1>2, <2>6, <2>7 DEF Due
<1> QED
  BY <1>5, <1>6

\* The last teardowns are due for all that belongs to the last item, or to
\* the session.
LEMMA FinalDue ==
    ASSUME NEW i \in Nat, NEW x, agenda' = FinalTasks(i),
           \/ i # 0 /\ IsTorn(x) /\ HomeAt(x, i)
           \/ x.scope = "session" /\ x.inst = SessionInstance
    PROVE  Due(x)'
<1>1. PICK c, m, p, h, z : /\ c = ScopeTask("class", InstanceAt(Items[i], "class"))
                           /\ m = ScopeTask("module", InstanceAt(Items[i], "module"))
                           /\ p = ScopeTask("package", InstanceAt(Items[i], "package"))
                           /\ h = PackageTask(Items[i])
                           /\ z = ScopeTask("session", SessionInstance)
  OBVIOUS
<1>2. /\ i = 0 => agenda' = <<z>>
      /\ i # 0 /\ Local => agenda' = <<c, m, p, h, z>>
      /\ i # 0 /\ ~Local => agenda' = <<c, m, z>>
  BY <1>1, FinalShape
<1>3. PICK t : t = ScopeTask(x.scope, x.inst)
  OBVIOUS
<1>4. IsTorn(x) /\ HomeAt(x, i) /\ OfParent(x) => Local /\ t = h
  <2> SUFFICES ASSUME IsTorn(x), HomeAt(x, i), OfParent(x) PROVE Local /\ t = h
    OBVIOUS
  <2>1. x.inst = <<Items[i].parent>> /\ x.scope = "module" /\ x.inst # <<"">> /\ Local
    BY DEF HomeAt, OfParent, ParentNodes, SessionInstance, IsTorn
  <2> QED
    BY <1>1, <1>3, <2>1 DEF PackageTask
<1>5. \/ t = z
      \/ i # 0 /\ Local /\ t \in {c, m, p, h}
      \/ i # 0 /\ ~Local /\ t \in {c, m}
  BY <1>1, <1>3, <1>4 DEF Torn, IsTorn, HomeAt
<1>6. CASE i = 0
  <2>1. agenda' = <<z>> /\ t = z
    BY <1>2, <1>5, <1>6
  <2>2. 1 \in 1..Len(agenda') /\ agenda'[1] = t
    BY <2>1
  <2> QED
    BY <1>3, <2>2 DEF Due
<1>7. CASE i # 0 /\ Local
  <2>1. agenda' = <<c, m, p, h, z>> /\ t \in {c, m, p, h, z}
    BY <1>2, <1>5, <1>7
  <2>2. Len(agenda') = 5 /\ \E k \in 1..5 : agenda'[k] = t
    BY <2>1
  <2> QED
    BY <1>3, <2>2 DEF Due
<1>8. CASE i # 0 /\ ~Local
  <2>1. agenda' = <<c, m, z>> /\ t \in {c, m, z}
    BY <1>2, <1>5, <1>8
  <2>2. Len(agenda') = 3 /\ \E k \in 1..3 : agenda'[k] = t
    BY <2>1
  <2> QED
    BY <1>3, <2>2 DEF Due
<1> QED
  BY <1>6, <1>7, <1>8

LEMMA NestedStep == Types /\ Nested /\ [Next]_vars => Nested'
<1> SUFFICES ASSUME Types, Nested, [Next]_vars, NEW x \in Held' PROVE HomeOK(x)'
  BY DEF Nested
<1> USE DEF hooks, counts, work
<1>1. /\ N \in Nat /\ pos \in 1..N + 1 /\ (pc \notin {"pick", "final", "done"} => pos <= N)
      /\ pc \in Pcs
  BY RunFacts DEF Types, ControlOK
<1>2. run' = run
  BY DEF Next, Pick, RunFinalizer, EndTask, Start, BeginSetup, EnsureXunit, Resolve, Execute,
         SetupDone, Call, EndItem, After, NextItem, Finish, vars
<1>3. /\ Items' = Items /\ N' = N /\ Local' = Local /\ Item = Items[pos]
      /\ IsTorn(x)' = IsTorn(x) /\ OfParent(x)' = OfParent(x)
  BY <1>2, SameRun DEF Types, Torn, Item, IsTorn, OfParent, ParentNodes
<1>4. \A i : HomeAt(x, i)' <=> HomeAt(x, i)
  BY <1>3 DEF HomeAt
<1>5. x \in Held /\ UNCHANGED <<pos, pc, agenda>> => HomeOK(x)'
  BY <1>3, <1>4 DEF Nested, HomeOK, TornHome, FunctionHome, SessionHome, HomeAt, Due
<1>6. CASE Pick
  <2>1. x \in Held /\ pos' = pos /\ pc = "pick" /\ pc' \in {"final", "between"}
    BY <1>6, HeldSteps DEF Pick
  <2>2. HomeOK(x)
    BY <2>1 DEF Nested
  <2>3. ASSUME IsTorn(x) PROVE TornHome(x)'
    <3>1. pos > 1 /\ HomeAt(x, pos - 1)
      BY <2>1, <2>2, <2>3 DEF HomeOK, TornHome
    <3>2. CASE pc' = "final"
      <4>1. agenda' = FinalTasks(pos - 1) /\ pos - 1 \in Nat /\ pos - 1 # 0
        BY <1>1, <1>6, <3>1, <3>2 DEF Pick
      <4>2. Due(x)'
        BY <2>3, <3>1, <4>1, FinalDue
      <4> QED
        BY <3>2, <4>2 DEF TornHome, AtItem
    <3>3. CASE pc' = "between"
      <4>1. HomeAt(x, pos)' \/ Due(x)'
        BY <1>1, <1>3, <1>6, <2>1, <2>3, <3>1, <3>3, PickDue DEF HomeAt
      <4>2. HomeAt(x, pos - 1)' /\ (pos > 1)'
        BY <1>3, <2>1, <3>1 DEF HomeAt
      <4> QED
        BY <3>3, <4>1, <4>2 DEF TornHome, AtItem
    <3> QED
      BY <2>1, <3>2, <3>3
  <2>4. x.scope # "function"
    BY <2>1, <2>2 DEF HomeOK, FunctionHome
  <2>5. ASSUME x.scope = "session" PROVE SessionHome(x)'
    <3>1. x.inst = SessionInstance \/ Len(x.inst) = 2
      BY <2>2, <2>5 DEF HomeOK, SessionHome
    <3>2. x.inst = SessionInstance /\ pc' = "final" => Due(x)'
      <4>1. pc' = "final" => agenda' = FinalTasks(pos - 1) /\ pos - 1 \in Nat
        BY <1>1, <1>6 DEF Pick
      <4> QED
        BY <2>5, <4>1, FinalDue
    <3> QED
      BY <2>1, <3>1, <3>2 DEF SessionHome
  <2> QED
    BY <1>3, <2>2, <2>3, <2>4, <2>5 DEF HomeOK
<1>7. CASE RunFinalizer
  BY <1>5, <1>7, HeldSteps DEF RunFinalizer
<1>8. CASE EndTask
  <2>1. x \in Held /\ ~Matches(agenda[1], x) /\ UNCHANGED <<pos, pc>>
    BY <1>8, HeldSteps DEF EndTask
  <2>2. HomeOK(x) /\ (Due(x) => Due(x)')
    BY <1>8, <2>1, DueStays DEF Nested
  <2> QED
    BY <1>3, <1>4, <2>1, <2>2 DEF HomeOK, TornHome, FunctionHome, SessionHome, HomeAt
<1>9. CASE Start
  <2>1. x \in Held /\ pos' = pos /\ agenda = <<>> /\ pc = "between" /\ pc' \in {"after", "setup"}
    BY <1>9, HeldSteps DEF Start
  <2>2. HomeOK(x) /\ ~Due(x)
    BY <2>1, EmptyFacts DEF Nested, Due
  <2> QED
    BY <1>3, <1>4, <2>1, <2>2
    DEF HomeOK, TornHome, FunctionHome, SessionHome, HomeAt, AtItem
<1>10. CASE BeginSetup
  <2>1. x \in Held /\ pos' = pos /\ pc = "setup" /\ pc' = "early"
    BY <1>10, HeldSteps DEF BeginSetup
  <2>2. HomeOK(x)
    BY <2>1 DEF Nested
  <2> QED
    BY <1>3, <2>1, <2>2 DEF HomeOK, TornHome, FunctionHome, SessionHome, HomeAt, AtItem
<1>11. ASSUME pos' = pos, pc \in {"early", "resolve"},
              (pc' \in {"early", "resolve"} /\ agenda' = agenda) \/ Abort,
              x \in Held \/ (x.scope \in Scopes /\ \/ x.scope # "session" /\ HomeAt(x, pos)
                                                   \/ x.scope = "session" /\ Len(x.inst) = 2
                                                   \/ x.scope = "session" /\ x.inst = SessionInstance)
       PROVE  HomeOK(x)'
  <2>1. pc' \in {"early", "resolve"} \/ Abort
    BY <1>11
  <2>2. pc' \in {"early", "resolve", "teardown"} /\ (pc' = "teardown" => Abort)
    BY <1>11, <2>1 DEF Abort
  <2>3. HomeAt(x, pos)' <=> HomeAt(x, pos)
    BY <1>3, <1>11 DEF HomeAt
  <2>4. x \in Held => HomeOK(x)
    BY DEF Nested
  <2>5. x.scope \in Scopes
    BY <1>11, <2>4 DEF HomeOK
  <2>6. IsTorn(x) \/ x.scope = "function" => HomeAt(x, pos)
    BY <1>11, <2>4 DEF HomeOK, TornHome, FunctionHome, AtItem, IsTorn, Torn
  <2>7. x.scope = "session" => x.inst = SessionInstance \/ Len(x.inst) = 2
    BY <1>11, <2>4 DEF HomeOK, SessionHome
  <2>8. x.scope = "function" /\ pc' = "teardown" => Due(x)'
    <3> SUFFICES ASSUME x.scope = "function", pc' = "teardown" PROVE Due(x)'
      OBVIOUS
    <3>1. PICK t : t = ScopeTask("function", <<Item.id>>)
      OBVIOUS
    <3>2. agenda' = <<t>>
      BY <2>2, <3>1 DEF Abort
    <3>3. x.inst = <<Item.id>>
      BY <1>3, <2>6 DEF HomeAt, InstanceAt, OfParent
    <3>4. 1 \in 1..Len(agenda') /\ agenda'[1] = ScopeTask(x.scope, x.inst)
      BY <3>1, <3>2, <3>3
    <3> QED
      BY <3>4 DEF Due
  <2> QED
    BY <1>3, <2>2, <2>3, <2>5, <2>6, <2>7, <2>8
    DEF HomeOK, TornHome, FunctionHome, SessionHome, AtItem
<1>12. CASE EnsureXunit
  <2>1. /\ pos' = pos /\ pc = "early"
        /\ Abort \/ (pc' \in {"early", "resolve"} /\ agenda' = agenda)
    BY <1>12, EnsureXunitFacts DEF XunitGoesOn
  <2>2. x \in Held \/ (x = Xid(XunitFirst) /\ XunitFirst \in XunitTodo)
    BY <1>12, HeldSteps
  <2>3. pos \in 1..N
    BY <1>1, <2>1
  <2>4. x = Xid(XunitFirst) /\ XunitFirst \in XunitTodo => x.scope = "module" /\ HomeAt(x, pos)
    BY <2>3, HookFacts
  <2>5. "module" \in Scopes
    BY DEF Scopes, Rank
  <2> QED
    BY <1>11, <2>1, <2>2, <2>4, <2>5
<1>13. CASE Resolve
  <2>1. pos' = pos /\ pc \in {"early", "resolve"} /\ UNCHANGED <<pend, cache>>
    BY <1>13 DEF Resolve, Resolving
  <2>2. Abort \/ UNCHANGED <<pc, agenda>>
    BY <1>13, ResolveFacts DEF Asked, AskedArgument
  <2> QED
    BY <1>11, <2>1, <2>2, HeldSteps
<1>14. CASE Execute
  <2>1. pos' = pos /\ pc \in {"early", "resolve"} /\ (Abort \/ UNCHANGED <<pc, agenda>>)
    BY <1>14, ExecuteFacts DEF ExecutedPlain, ExecutedYield, ExecutedFault, Stores
  <2>2. CASE x \in Held
    BY <1>11, <2>1, <2>2
  <2>3. ASSUME NEW d, MadeBy(x, d) PROVE HomeOK(x)'
    <3>1. x.scope \in Scopes
      BY <1>1, <1>3, <2>1, <2>3, CacheScopeFacts DEF MadeBy, Types
    <3>2. x.scope # "session" => x.inst = InstanceAt(Item, x.scope)
      BY <2>3 DEF MadeBy, CacheInstance
    <3>3. x.scope = "session" =>
            x.inst = SessionInstance \/ x.inst = <<d.name, Item.par[d.name]>>
      BY <2>3 DEF MadeBy, CacheInstance
    <3>4. Len(<<d.name, Item.par[d.name]>>) = 2
      OBVIOUS
    <3>5. ~OfParent(x)
      BY <1>1, <2>1, <2>3, MadeNode
    <3> QED
      BY <1>3, <1>11, <2>1, <3>1, <3>2, <3>3, <3>4, <3>5 DEF HomeAt
  <2> QED
    BY <1>14, <2>2, <2>3, HeldExecute
<1>15. CASE SetupDone
  <2>1. x \in Held /\ pos' = pos /\ pc = "resolve" /\ pc' = "call"
    BY <1>15, HeldSteps DEF SetupDone
  <2>2. HomeOK(x)
    BY <2>1 DEF Nested
  <2> QED
    BY <1>3, <2>1, <2>2 DEF HomeOK, TornHome, FunctionHome, SessionHome, HomeAt, AtItem
<1>16. CASE Call
  <2>1. x \in Held /\ pos' = pos /\ pc = "call" /\ pc' = "teardown"
    BY <1>16, HeldSteps DEF Call
  <2>2. HomeOK(x)
    BY <2>1 DEF Nested
  <2>3. x.scope = "function" => Due(x)'
    <3> SUFFICES ASSUME x.scope = "function" PROVE Due(x)'
      OBVIOUS
    <3>1. PICK t : t = ScopeTask("function", <<Item.id>>)
      OBVIOUS
    <3>2. agenda' = <<t>>
      BY <1>16, <3>1 DEF Call
    <3>3. x.inst = <<Item.id>>
      BY <1>3, <2>1, <2>2 DEF HomeOK, FunctionHome, HomeAt, InstanceAt, OfParent
    <3>4. 1 \in 1..Len(agenda') /\ agenda'[1] = ScopeTask(x.scope, x.inst)
      BY <3>1, <3>2, <3>3
    <3> QED
      BY <3>4 DEF Due
  <2> QED
    BY <1>3, <2>1, <2>2, <2>3 DEF HomeOK, TornHome, FunctionHome, SessionHome, HomeAt, AtItem
<1>17. CASE EndItem
  <2>1. x \in Held /\ pos' = pos /\ pc = "teardown" /\ agenda = <<>> /\ pc' \in {"setup", "after"}
    BY <1>17, HeldSteps DEF EndItem
  <2>2. HomeOK(x) /\ ~Due(x)
    BY <2>1, EmptyFacts DEF Nested, Due
  <2> QED
    BY <1>3, <2>1, <2>2 DEF HomeOK, TornHome, FunctionHome, SessionHome, HomeAt, AtItem
<1>18. CASE After
  <2>1. x \in Held /\ pc = "after" /\ pos \in 1..N
    BY <1>1, <1>18, HeldSteps DEF After
  <2>2. HomeOK(x)
    BY <2>1 DEF Nested
  <2>3. x.scope # "function" /\ (IsTorn(x) => HomeAt(x, pos))
    BY <2>1, <2>2 DEF HomeOK, TornHome, FunctionHome, AtItem
  <2>4. CASE pc' = "final" /\ agenda' = FinalTasks(pos) /\ pos' = pos + 1
    <3>1. (IsTorn(x) \/ (x.scope = "session" /\ x.inst = SessionInstance)) => Due(x)'
      <4>1. pos \in Nat /\ pos # 0
        BY <2>1
      <4> QED
        BY <2>3, <2>4, <4>1, FinalDue
    <3> QED
      BY <1>3, <2>2, <2>3, <2>4, <3>1 DEF HomeOK, TornHome, SessionHome, AtItem
  <2>5. CASE pc' = "params" /\ pos' = pos
    BY <1>3, <1>4, <2>2, <2>3, <2>5 DEF HomeOK, TornHome, SessionHome, AtItem, HomeAt
  <2>6. CASE pc' = "pick" /\ pos' = pos + 1
    <3>1. pos' > 1 /\ pos' - 1 = pos
      BY <2>1, <2>6
    <3> QED
      BY <1>3, <2>2, <2>3, <2>6, <3>1 DEF HomeOK, TornHome, SessionHome, AtItem, HomeAt
  <2> QED
    BY <1>18, <2>4, <2>5, <2>6 DEF After
<1>19. CASE NextItem
  <2>1. x \in Held /\ pc = "params" /\ pos \in 1..N /\ pc' = "pick" /\ pos' = pos + 1
    BY <1>1, <1>19, HeldSteps DEF NextItem
  <2>2. HomeOK(x)
    BY <2>1 DEF Nested
  <2>3. pos' > 1 /\ pos' - 1 = pos
    BY <2>1
  <2> QED
    BY <1>3, <2>1, <2>2, <2>3 DEF HomeOK, TornHome, FunctionHome, SessionHome, AtItem, HomeAt
<1>20. CASE Finish
  <2>1. x \in Held /\ pc = "final" /\ agenda = <<>> /\ pc' = "done"
    BY <1>20, HeldSteps DEF Finish
  <2>2. HomeOK(x) /\ ~Due(x)
    BY <2>1, EmptyFacts DEF Nested, Due
  <2> QED
    BY <1>3, <2>1, <2>2 DEF HomeOK, TornHome, FunctionHome, SessionHome, AtItem
<1>21. CASE UNCHANGED vars
  BY <1>5, <1>21, HeldSteps DEF vars
<1> QED
  BY <1>6, <1>7, <1>8, <1>9, <1>10, <1>12, <1>13, <1>14, <1>15, <1>16, <1>17, <1>18, <1>19, <1>20,
     <1>21 DEF Next

LEMMA NestedInvariant == Spec => []Nested
  BY TypesInvariant, NestedInit, NestedStep, PTL DEF Spec

\* SetToSeq lists a finite set.
LEMMA SetToSeqFacts ==
    ASSUME NEW S, IsFiniteSet(S)
    PROVE  /\ SetToSeq(S) \in [1..Cardinality(S) -> S]
           /\ \A x \in S : \E k \in 1..Cardinality(S) : SetToSeq(S)[k] = x
<1> DEFINE n == Cardinality(S)
           f == SetToSeq(S)
<1>1. n \in Nat /\ ExistsBijection(1..n, S)
  BY FS_CardinalityType
<1>2. \E g \in [1..n -> S] : IsInjective(g)
  BY <1>1 DEF ExistsBijection, Bijection, Injection
<1>3. f \in [1..n -> S] /\ IsInjective(f)
  BY <1>2 DEF SetToSeq
<1> HIDE DEF f
<1>4. f \in Injection(1..n, S)
  BY <1>3 DEF Injection
<1>5. Cardinality(1..n) = n
  <2>1. n >= 1 => Cardinality(1..n) = n - 1 + 1
    BY <1>1, FS_Interval
  <2>2. n = 0 => 1..n = {}
    OBVIOUS
  <2>3. n = 0 => Cardinality(1..n) = 0
    BY <2>2, FS_EmptySet
  <2> QED
    BY <1>1, <2>1, <2>3
<1>6. f \in Surjection(1..n, S)
  BY <1>4, <1>5, FS_Injection
<1> QED
  BY <1>3, <1>6 DEF Surjection, f
---------------------------------------------------------------------------
(* The session-scoped parametrized values of the local loop: if            *)
(* parametrizations fit, what is held was made for the parameter of the    *)
(* current item, and what the next item does not use is due after it.      *)
SessionName(n) == \A k \in 1..Len(Defs) : Defs[k].name = n => Defs[k].scope = "session"
UsedBy(x, i) == \E n \in DOMAIN Items[i].par : SessionName(n) /\ x.inst = <<n, Items[i].par[n]>>
StoppedEarly == stop \/ MaxFailHit \/ run.sw

ParamHome(x) ==
    /\ pc \in {"pick", "between"} => pos <= N /\ UsedBy(x, pos)
    /\ pc \in AtItem => UsedBy(x, pos)
    /\ pc = "params" => Due(x) \/ (pos < N /\ UsedBy(x, pos + 1))
    /\ pc \in {"final", "done"} => StoppedEarly

ParamsNested ==
    Local /\ ParamsFit =>
        \A x \in Held : x.scope = "session" /\ x.inst # SessionInstance => ParamHome(x)

\* What the loop does after an item about a parameter that ends there.
LEMMA ParamsDue ==
    ASSUME Types, ParamsFit, pos \in 1..N, agenda' = SessionParams(pos),
           NEW x, x.scope = "session", UsedBy(x, pos), ~(pos < N /\ UsedBy(x, pos + 1))
    PROVE  Due(x)'
<1> DEFINE Ends(n) == /\ Known(Defs, n, Items[pos]) /\ Lookup(Defs, n, Items[pos]).scope = "session"
                      /\ pos = N \/ ~(n \in DOMAIN Items[pos + 1].par
                                      /\ Items[pos + 1].par[n] = Items[pos].par[n])
           ended == {n \in DOMAIN Items[pos].par : Ends(n)}
           task(k) == ScopeTask("session", <<SetToSeq(ended)[k], Items[pos].par[SetToSeq(ended)[k]]>>)
<1>1. PICK n \in DOMAIN Items[pos].par : SessionName(n) /\ x.inst = <<n, Items[pos].par[n]>>
  BY DEF UsedBy
<1>2. RunOK /\ N \in Nat
  BY RunFacts DEF Types
<1>3. n \in ended
  <2>1. Known(Defs, n, Items[pos])
    BY DEF ParamsFit
  <2>2. Lookup(Defs, n, Items[pos]).scope = "session"
    <3>1. PICK S : S = Candidates(Defs, n, Items[pos])
      OBVIOUS
    <3>2. S # {} /\ S \subseteq DOMAIN Defs /\ \A k \in S : Defs[k].name = n
      BY <2>1, <3>1 DEF Known, Candidates
    <3>3. Max(S) \in S /\ Max(S) \in 1..Len(Defs)
      BY <1>2, <3>2, CandidateFacts
    <3> QED
      BY <1>1, <3>1, <3>2, <3>3 DEF Lookup, SessionName
  <2>3. pos = N \/ ~(n \in DOMAIN Items[pos + 1].par /\ Items[pos + 1].par[n] = Items[pos].par[n])
    BY <1>1, <1>2 DEF UsedBy
  <2> QED
    BY <2>1, <2>2, <2>3
<1>4. IsFiniteSet(ended)
  BY <1>2, RunFacts, FS_Subset
<1>5. agenda' = [k \in 1..Cardinality(ended) |-> task(k)]
  BY DEF SessionParams
<1> HIDE DEF ended
<1>6. \E k \in 1..Cardinality(ended) : SetToSeq(ended)[k] = n
  BY <1>3, <1>4, SetToSeqFacts
<1>7. PICK k \in 1..Cardinality(ended) : SetToSeq(ended)[k] = n
  BY <1>6
<1>8. agenda'[k] = ScopeTask(x.scope, x.inst)
  BY <1>1, <1>5, <1>7
<1>9. Len(agenda') = Cardinality(ended)
  <2>1. Cardinality(ended) \in Nat
    BY <1>4, FS_CardinalityType
  <2>2. DOMAIN agenda' = 1..Cardinality(ended)
    BY <1>5
  <2>3. IsSeq(agenda')
    BY <1>2, SessionShape
  <2> QED
    BY <2>1, <2>2, <2>3, SeqFacts
<1> QED
  BY <1>7, <1>8, <1>9 DEF Due

LEMMA ParamsInit == Init => ParamsNested
  BY DEF Init, ParamsNested, Held

LEMMA ParamsStep == Types /\ Nested /\ ParamsNested /\ [Next]_vars => ParamsNested'
<1> SUFFICES ASSUME Types, Nested, ParamsNested, [Next]_vars, (Local /\ ParamsFit)',
                    NEW x \in Held', x.scope = "session", x.inst # SessionInstance
             PROVE  ParamHome(x)'
  BY DEF ParamsNested
<1> USE DEF hooks, counts, work
<1>1. /\ N \in Nat /\ pos \in 1..N + 1 /\ (pc \notin {"pick", "final", "done"} => pos <= N)
      /\ pc \in Pcs /\ RunOK /\ failed \in Nat
  BY RunFacts DEF Types, ControlOK, CountsOK
<1>2. run' = run
  BY DEF Next, Pick, RunFinalizer, EndTask, Start, BeginSetup, EnsureXunit, Resolve, Execute,
         SetupDone, Call, EndItem, After, NextItem, Finish, vars
<1>3. /\ Items' = Items /\ N' = N /\ Local /\ ParamsFit /\ Defs' = Defs /\ Item = Items[pos]
      /\ \A i : UsedBy(x, i)' <=> UsedBy(x, i)
  <2>1. Items' = Items /\ N' = N /\ Defs' = Defs /\ Local' = Local
    BY <1>1, <1>2, SameRun
  <2>2. ParamsFit' <=> ParamsFit
    BY <2>1 DEF ParamsFit
  <2>3. \A i : UsedBy(x, i)' <=> UsedBy(x, i)
    BY <2>1 DEF UsedBy, SessionName
  <2> QED
    BY <2>1, <2>2, <2>3 DEF Item
<1>4. x \in Held => ParamHome(x)
  BY <1>3 DEF ParamsNested
<1>5. x \in Held /\ UNCHANGED <<pos, pc, agenda, stop, failed>> => ParamHome(x)'
  BY <1>2, <1>3, <1>4 DEF ParamHome, Due, StoppedEarly, MaxFailHit
<1>6. CASE Pick
  <2>1. /\ x \in Held /\ pos' = pos /\ pc = "pick" /\ pc' \in {"final", "between"}
        /\ UNCHANGED <<stop, failed>> /\ (pc' = "final" => Leaves)
    BY <1>6, HeldSteps DEF Pick
  <2>2. pos <= N /\ UsedBy(x, pos)
    BY <1>4, <2>1 DEF ParamHome
  <2>3. Leaves => MaxFailHit \/ stop
    BY <1>1, <2>2 DEF Leaves
  <2>4. pc' = "final" => StoppedEarly'
    BY <1>2, <2>1, <2>3 DEF StoppedEarly, MaxFailHit
  <2> QED
    BY <1>3, <2>1, <2>2, <2>4 DEF ParamHome, AtItem
<1>7. CASE RunFinalizer
  BY <1>5, <1>7, HeldSteps DEF RunFinalizer
<1>8. CASE EndTask
  <2>1. x \in Held /\ ~Matches(agenda[1], x) /\ UNCHANGED <<pos, pc, stop>>
    BY <1>8, HeldSteps DEF EndTask
  <2>2. Due(x) => Due(x)'
    BY <1>8, <2>1, DueStays
  <2>3. failed' \in Nat /\ failed' >= failed
    BY <1>1, <1>8 DEF EndTask, ScopeFailure
  <2>4. StoppedEarly => StoppedEarly'
    <3>1. run.maxfail \in Nat
      BY <1>1 DEF RunOK
    <3> QED
      BY <1>1, <1>2, <2>1, <2>3, <3>1 DEF StoppedEarly, MaxFailHit
  <2> QED
    BY <1>3, <1>4, <2>1, <2>2, <2>4 DEF ParamHome
<1>9. CASE Start
  <2>1. x \in Held /\ pos' = pos /\ pc = "between" /\ pc' \in {"after", "setup"}
    BY <1>9, HeldSteps DEF Start
  <2> QED
    BY <1>3, <1>4, <2>1 DEF ParamHome, AtItem
<1>10. ASSUME pos' = pos, pc \in {"setup", "early", "resolve", "call", "teardown"},
              pc' \in {"setup", "early", "resolve", "call", "teardown", "after"},
              x \in Held \/ UsedBy(x, pos)
       PROVE  ParamHome(x)'
  <2>1. UsedBy(x, pos)
    BY <1>4, <1>10 DEF ParamHome, AtItem
  <2> QED
    BY <1>3, <1>10, <2>1 DEF ParamHome, AtItem
<1>11. CASE BeginSetup
  <2>1. x \in Held /\ pos' = pos /\ pc = "setup" /\ pc' = "early"
    BY <1>11, HeldSteps DEF BeginSetup
  <2> QED
    BY <1>10, <2>1
<1>12. CASE EnsureXunit
  <2>1. pos' = pos /\ pc = "early" /\ pc' \in {"teardown", "early", "resolve"}
    BY <1>12, EnsureXunitFacts DEF XunitGoesOn, Abort
  <2>2. x \in Held \/ x = Xid(XunitFirst)
    BY <1>12, HeldSteps
  <2>3. x # Xid(XunitFirst)
    BY DEF Xid
  <2> QED
    BY <1>10, <2>1, <2>2, <2>3
<1>13. CASE Resolve
  <2>1. pos' = pos /\ pc \in {"early", "resolve"} /\ x \in Held
    BY <1>13, HeldSteps DEF Resolve, Resolving
  <2>2. pc' = pc \/ pc' = "teardown"
    BY <1>13, ResolveFacts DEF Asked, AskedArgument, Abort
  <2> QED
    BY <1>10, <2>1, <2>2
<1>14. CASE Execute
  <2>1. pos' = pos /\ pc \in {"early", "resolve"} /\ (pc' = pc \/ pc' = "teardown")
    BY <1>14, ExecuteFacts DEF ExecutedPlain, ExecutedYield, ExecutedFault, Stores, Abort
  <2>2. ASSUME NEW d, MadeBy(x, d) PROVE UsedBy(x, pos)
    <3>1. PICK it : it = Items[pos]
      OBVIOUS
    <3>2. PICK k \in 1..Len(Defs) : d = Defs[k]
      BY <2>2 DEF MadeBy
    <3>3. CacheScope(d, it) = "session" /\ x.inst = CacheInstance(d, it)
      BY <1>3, <2>2, <3>1 DEF MadeBy
    <3>4. d.name \in DOMAIN it.par /\ x.inst = <<d.name, it.par[d.name]>>
      BY <3>3 DEF CacheInstance
    <3>5. KeyScope(it, d.name) = "session"
      <4>1. pos \in 1..N
        BY <1>1, <2>1
      <4>2. ~Wider(d.scope, KeyScope(it, d.name))
        BY <1>3, <3>1, <3>2, <3>4, <4>1 DEF ParamsFit
      <4>3. \/ d.scope = "session"
            \/ d.name \in DOMAIN it.keys /\ it.keys[d.name] = "session"
        BY <3>3 DEF CacheScope
      <4>4. KeyScope(it, d.name) \in Scopes
        BY <1>1, <3>1, <4>1, RunFacts DEF KeyScope, Scopes, Rank
      <4>5. d.scope = "session" => KeyScope(it, d.name) = "session"
        BY <4>2, <4>4 DEF Wider, Scopes, Rank
      <4> QED
        BY <4>3, <4>5 DEF KeyScope
    <3>6. SessionName(d.name)
      BY <1>1, <1>3, <2>1, <3>1, <3>4, <3>5, RunFacts DEF ParamsFit, SessionName
    <3> QED
      BY <3>1, <3>4, <3>6 DEF UsedBy
  <2> QED
    BY <1>10, <1>14, <2>1, <2>2, HeldExecute
<1>15. CASE SetupDone
  <2>1. x \in Held /\ pos' = pos /\ pc = "resolve" /\ pc' = "call"
    BY <1>15, HeldSteps DEF SetupDone
  <2> QED
    BY <1>10, <2>1
<1>16. CASE Call
  <2>1. x \in Held /\ pos' = pos /\ pc = "call" /\ pc' = "teardown"
    BY <1>16, HeldSteps DEF Call
  <2> QED
    BY <1>10, <2>1
<1>17. CASE EndItem
  <2>1. x \in Held /\ pos' = pos /\ pc = "teardown" /\ pc' \in {"setup", "after"}
    BY <1>17, HeldSteps DEF EndItem
  <2> QED
    BY <1>10, <2>1
<1>18. CASE After
  <2>1. x \in Held /\ pc = "after" /\ pos \in 1..N /\ UsedBy(x, pos) /\ UNCHANGED <<stop, failed>>
    BY <1>1, <1>4, <1>18, HeldSteps DEF After, ParamHome, AtItem
  <2>2. CASE run.sw /\ pc' = "final"
    BY <1>2, <2>1, <2>2 DEF ParamHome, StoppedEarly, AtItem
  <2>3. CASE pc' = "params" /\ pos' = pos /\ agenda' = SessionParams(pos)
    <3>1. Due(x)' \/ (pos < N /\ UsedBy(x, pos + 1))
      BY <1>3, <2>1, <2>3, ParamsDue
    <3> QED
      BY <1>3, <2>1, <2>3, <3>1 DEF ParamHome, AtItem
  <2> QED
    BY <1>3, <1>18, <2>2, <2>3 DEF After
<1>19. CASE NextItem
  <2>1. /\ x \in Held /\ pc = "params" /\ pc' = "pick" /\ pos' = pos + 1 /\ agenda = <<>>
        /\ pos \in 1..N
    BY <1>1, <1>19, HeldSteps DEF NextItem
  <2>2. pos < N /\ UsedBy(x, pos + 1)
    BY <1>4, <2>1, EmptyFacts DEF ParamHome, Due
  <2>3. pos' <= N' /\ UsedBy(x, pos)'
    BY <1>1, <1>3, <2>1, <2>2 DEF UsedBy, SessionName
  <2> QED
    BY <2>1, <2>3 DEF ParamHome, AtItem
<1>20. CASE Finish
  <2>1. x \in Held /\ pc = "final" /\ pc' = "done" /\ UNCHANGED <<stop, failed>>
    BY <1>20, HeldSteps DEF Finish
  <2> QED
    BY <1>2, <1>4, <2>1 DEF ParamHome, StoppedEarly, MaxFailHit, AtItem
<1>21. CASE UNCHANGED vars
  BY <1>5, <1>21, HeldSteps DEF vars
<1> QED
  BY <1>6, <1>7, <1>8, <1>9, <1>11, <1>12, <1>13, <1>14, <1>15, <1>16, <1>17, <1>18, <1>19, <1>20,
     <1>21 DEF Next

LEMMA ParamsInvariant == Spec => []ParamsNested
  BY TypesInvariant, NestedInvariant, ParamsInit, ParamsStep, PTL DEF Spec

(* When the run is over every finalizer has run, whatever failed, except   *)
(* what LeftBehind says the loops leave: the value of each scope instance  *)
(* is due when the last teardowns start, or was before.                    *)
THEOREM RunnerAllTornDown == Spec => []AllTornDown
<1>1. Types /\ Nested /\ ParamsNested => AllTornDown
  <2> SUFFICES ASSUME Types, Nested, ParamsNested, pc = "done", NEW i \in 1..Len(pend)
               PROVE  LeftBehind(pend[i])
    BY DEF AllTornDown
  <2>1. PICK p : p = pend[i]
    OBVIOUS
  <2>2. p \in Held /\ HomeOK(p)
    BY <2>1 DEF Held, Nested
  <2>3. p.scope \in {"package", "session"} \/ (OfParent(p) /\ ~Local)
    BY <2>2 DEF HomeOK, TornHome, FunctionHome, Torn, IsTorn, Scopes, Rank
  <2>4. p.scope = "package" => ~Local
    BY <2>2 DEF HomeOK, TornHome, Torn, IsTorn, OfParent
  <2>7. OfParent(p) => OfPackage(p)
    BY DEF OfParent, OfPackage, ParentNodes
  <2>5. p.scope = "session" => Len(p.inst) = 2 /\ p.inst # SessionInstance
    BY <2>2 DEF HomeOK, SessionHome
  <2>6. p.scope = "session" /\ Local /\ ParamsFit => StoppedEarly
    BY <2>2, <2>5 DEF ParamsNested, ParamHome
  <2> QED
    BY <2>1, <2>3, <2>4, <2>5, <2>6, <2>7 DEF LeftBehind, OfPackage, StoppedEarly
<1> QED
  BY <1>1, TypesInvariant, NestedInvariant, ParamsInvariant, PTL
---------------------------------------------------------------------------
(* The loop of an async fixture.  It carries the module of the item that   *)
(* set the fixture up, and that is the module of the node it is kept for.  *)
LoopOf(p) ==
    p.loop # NoLoop =>
        /\ p.loop.scope \in Scopes /\ ~OfParent(p)
        /\ p.loop.scope \in {"class", "module"} /\ p.scope \in {"class", "module"} =>
              \E k \in 1..N : HomeAt(p, k) /\ p.loop.mod = Items[k].mod
        /\ pc # "done" /\ ~Wider(p.scope, p.loop.scope) => p.loop \in loops

LoopsNested == \A i \in 1..Len(pend) : LoopOf(pend[i])

LEMMA LoopsInit == Init => LoopsNested
  BY DEF Init, LoopsNested

\* The finalizers after a step are those before it, and one that it added.
LEMMA PendSteps ==
    ASSUME Types, [Next]_vars, NEW i \in 1..Len(pend')
    PROVE  \/ \E k \in 1..Len(pend) : pend'[i] = pend[k]
           \/ EnsureXunit /\ pend'[i] = Xid(XunitFirst)
           \/ \E d, rs : /\ Execute /\ pend'[i] = PendingOf(d, rs)
                         /\ \E k \in 1..Len(Defs) : d = Defs[k]
                         /\ loops' = IF d.kind = "aio" THEN loops \cup {RunsOn(d)} ELSE loops
<1>0. IsSeq(pend) /\ Len(pend) \in Nat
  BY SeqFacts DEF Types, PendOK
<1> USE DEF work
<1>1. CASE pend' = pend
  BY <1>1
<1>2. CASE RunFinalizer
  <2>1. PICK j \in 1..Len(pend) :
            /\ Len(pend') = Len(pend) - 1
            /\ \A k \in 1..Len(pend) - 1 : pend'[k] = IF k < j THEN pend[k] ELSE pend[k + 1]
    BY <1>2, FinalizerFacts
  <2> QED
    BY <1>0, <2>1
<1>3. ASSUME NEW e, pend' = Append(pend, e)
      PROVE  pend'[i] = e \/ \E k \in 1..Len(pend) : pend'[i] = pend[k]
  <2>1. Len(pend') = Len(pend) + 1
    BY <1>0, <1>3, AppendFacts
  <2>2. (\A k \in 1..Len(pend) : pend'[k] = pend[k]) /\ pend'[Len(pend) + 1] = e
    BY <1>0, <1>3, AppendFacts
  <2> QED
    BY <1>0, <2>1, <2>2
<1>4. CASE EnsureXunit
  <2>1. pend' = pend \/ pend' = Append(pend, Xid(XunitFirst))
    BY <1>4, EnsureXunitFacts
  <2> QED
    BY <1>1, <1>3, <1>4, <2>1
<1>5. CASE Execute
  <2>1. PICK d, rs :
          /\ (\E k \in 1..Len(Defs) : d = Defs[k])
          /\ loops' = IF d.kind = "aio" THEN loops \cup {RunsOn(d)} ELSE loops
          /\ ExecutedPlain(d, rs) \/ ExecutedYield(d, rs) \/ ExecutedFault(d)
    BY <1>5, ExecuteFacts
  <2>2. pend' = pend \/ pend' = Append(pend, PendingOf(d, rs))
    BY <2>1 DEF ExecutedPlain, ExecutedYield, ExecutedFault
  <2> QED
    BY <1>1, <1>3, <1>5, <2>1, <2>2
<1>6. CASE Pick \/ EndTask \/ Start \/ BeginSetup \/ Resolve \/ SetupDone \/ Call \/ EndItem
           \/ After \/ NextItem \/ Finish \/ UNCHANGED vars
  <2>1. pend' = pend
    BY <1>6 DEF Pick, EndTask, Start, BeginSetup, Resolve, SetupDone, Call, EndItem, After, NextItem,
                Finish, vars
  <2> QED
    BY <1>1, <2>1
<1> QED
  BY <1>2, <1>4, <1>5, <1>6 DEF Next

LEMMA NotDoneBefore ==
    ASSUME Types, [Next]_vars, pc' # "done"
    PROVE  pc # "done"
<1> SUFFICES ASSUME pc = "done" PROVE FALSE
  OBVIOUS
<1>1. agenda = <<>>
  BY DEF Types, ControlOK
<1>2. CASE Pick \/ RunFinalizer \/ EndTask \/ Start \/ BeginSetup
  BY <1>1, <1>2 DEF Pick, RunFinalizer, EndTask, Start, BeginSetup
<1>3. CASE EnsureXunit \/ Resolve \/ Execute \/ SetupDone \/ Call
  BY <1>3 DEF EnsureXunit, Resolve, Execute, Resolving, SetupDone, Call
<1>4. CASE EndItem \/ After \/ NextItem \/ Finish
  BY <1>4 DEF EndItem, After, NextItem, Finish
<1>5. CASE UNCHANGED vars
  BY <1>5 DEF vars
<1> QED
  BY <1>2, <1>3, <1>4, <1>5 DEF Next

LEMMA LoopFacts ==
    ASSUME NEW scope \in Scopes, NEW it
    PROVE  /\ Loop(scope, it).scope = scope
           /\ scope \notin {"session", "package"} => Loop(scope, it).mod = it.mod
<1>1. PICK k : k = LoopKey(scope, it)
  OBVIOUS
<1>2. PICK m : m = it.mod
  OBVIOUS
<1>3. LoopAt(scope, it) = [scope |-> scope, key |-> k, mod |-> m]
  BY <1>1, <1>2 DEF LoopAt
<1> DEFINE f == [scope |-> scope, key |-> k, mod |-> m]
<1>4. [f EXCEPT !.mod = ""].scope = scope /\ f.scope = scope /\ f.mod = m
  OBVIOUS
<1>5. Loop(scope, it) = IF scope \in {"session", "package"} THEN [f EXCEPT !.mod = ""] ELSE f
  BY <1>3 DEF Loop
<1> QED
  BY <1>2, <1>4, <1>5

LEMMA LoopsStep == Types /\ Nested /\ LoopsNested /\ [Next]_vars => LoopsNested'
<1> SUFFICES ASSUME Types, Nested, LoopsNested, [Next]_vars,
                    NEW i \in 1..Len(pend'), NEW p, p = pend'[i]
             PROVE  LoopOf(p)'
  BY DEF LoopsNested
<1> USE DEF hooks, counts, work
<1>1. N \in Nat /\ RunOK /\ pos \in 1..N + 1 /\ (pc \notin {"pick", "final", "done"} => pos <= N)
  BY RunFacts DEF Types, ControlOK
<1>2. run' = run
  BY DEF Next, Pick, RunFinalizer, EndTask, Start, BeginSetup, EnsureXunit, Resolve, Execute,
         SetupDone, Call, EndItem, After, NextItem, Finish, vars
<1>3. Items' = Items /\ N' = N /\ Item = Items[pos] /\ OfParent(p)' = OfParent(p)
  BY <1>1, <1>2, SameRun DEF Item, OfParent, ParentNodes
<1>6. CASE \E k \in 1..Len(pend) : p = pend[k]
  <2>1. p \in Held /\ HomeOK(p) /\ LoopOf(p) /\ (p.loop # NoLoop => ~OfParent(p))
    BY <1>6 DEF Held, Nested, LoopsNested, LoopOf
  <2>2. SUFFICES ASSUME p.loop # NoLoop, p.loop \in loops, ~Wider(p.scope, p.loop.scope),
                        pc' # "done", p.loop \notin loops'
                 PROVE  FALSE
    <3>1. pc' # "done" => pc # "done"
      BY NotDoneBefore
    <3> QED
      BY <1>3, <2>1, <2>2, <3>1 DEF LoopOf, HomeAt
  <2>3. CASE BeginSetup
    <3>1. LeftLoop(p.loop) /\ curMod # <<Item.mod>> /\ pc = "setup"
      BY <2>2, <2>3 DEF BeginSetup
    <3>2. p.loop.scope \in {"class", "module"} /\ <<p.loop.mod>> = curMod
      BY <3>1 DEF LeftLoop
    <3>3. p.scope \in {"class", "module"}
      BY <2>1, <2>2, <3>1, <3>2 DEF HomeOK, FunctionHome, Wider, Scopes, Rank
    <3>4. HomeAt(p, pos)
      BY <2>1, <2>2, <3>1, <3>3 DEF HomeOK, TornHome, Torn, IsTorn, AtItem
    <3>5. PICK k \in 1..N : HomeAt(p, k) /\ p.loop.mod = Items[k].mod
      BY <2>1, <2>2, <3>2, <3>3 DEF LoopOf
    <3>6. Items[k].mod = Items[pos].mod
      <4>1. pos \in 1..N
        BY <1>1, <3>1
      <4>2. InstanceAt(Items[k], p.scope) = InstanceAt(Items[pos], p.scope)
        BY <2>1, <2>2, <3>4, <3>5 DEF HomeAt
      <4>3. Items[k].cls = Items[pos].cls \/ Items[k].mod = Items[pos].mod
        BY <3>3, <4>2 DEF InstanceAt
      <4> QED
        BY <1>1, <4>1, <4>3, RunFacts
    <3> QED
      BY <1>3, <3>1, <3>2, <3>5, <3>6
  <2>4. CASE EndItem
    <3>1. p.loop.scope = "function" /\ agenda = <<>> /\ pc = "teardown"
      BY <2>2, <2>4 DEF EndItem
    <3>2. p.scope = "function"
      BY <2>1, <2>2, <3>1 DEF HomeOK, Wider, Scopes, Rank
    <3> QED
      BY <2>1, <3>1, <3>2, EmptyFacts DEF HomeOK, FunctionHome, Due
  <2>5. CASE Finish
    BY <2>2, <2>5 DEF Finish
  <2>6. CASE Execute
    <3>1. loops \subseteq loops'
      BY <2>6, ExecuteFacts
    <3> QED
      BY <2>2, <3>1
  <2>7. CASE EnsureXunit
    BY <2>2, <2>7, EnsureXunitFacts
  <2>8. CASE Pick \/ RunFinalizer \/ EndTask \/ Start \/ Resolve \/ SetupDone \/ Call \/ After
             \/ NextItem \/ UNCHANGED vars
    <3>1. loops \subseteq loops'
      BY <2>8 DEF Pick, RunFinalizer, EndTask, Start, Resolve, SetupDone, Call, After, NextItem, vars
    <3> QED
      BY <2>2, <3>1
  <2> QED
    BY <2>3, <2>4, <2>5, <2>6, <2>7, <2>8 DEF Next
<1>7. CASE p = Xid(XunitFirst)
  <2>1. p.loop = NoLoop
    BY <1>7 DEF Xid
  <2> QED
    BY <2>1 DEF LoopOf
<1>8. ASSUME NEW d, NEW rs, Execute, p = PendingOf(d, rs), \E k \in 1..Len(Defs) : d = Defs[k],
             loops' = IF d.kind = "aio" THEN loops \cup {RunsOn(d)} ELSE loops
      PROVE  LoopOf(p)'
  <2>1. p.loop = RunsOn(d) /\ p.scope = CacheScope(d, Item) /\ p.inst = CacheInstance(d, Item)
    BY <1>8 DEF PendingOf
  <2>2. CASE d.kind # "aio"
    BY <2>1, <2>2 DEF RunsOn, LoopOf
  <2>3. CASE d.kind = "aio"
    <3>1. p.loop \in loops'
      BY <1>8, <2>1, <2>3
    <3>2. p.loop = Loop(d.loop, Item)
      BY <2>1, <2>3 DEF RunsOn
    <3>4. d.loop \in Scopes
      BY <1>1, <1>8, RunFacts
    <3>3. p.loop.scope = d.loop /\ (d.loop \in {"class", "module"} => p.loop.mod = Item.mod)
      BY <3>2, <3>4, LoopFacts
    <3>5. pos \in 1..N
      BY <1>1, <1>8, ExecuteFacts
    <3>8. ~OfParent(p)
      <4>1. MadeBy(p, d)
        BY <1>8 DEF PendingOf, MadeBy
      <4> QED
        BY <3>5, <4>1, MadeNode
    <3>6. p.scope # "session" => HomeAt(p, pos)
      BY <1>3, <2>1, <3>8 DEF CacheInstance, HomeAt
    <3>7. d.loop \in {"class", "module"} /\ p.scope \in {"class", "module"} =>
             \E k \in 1..N : HomeAt(p, k) /\ p.loop.mod = Items[k].mod
      BY <1>3, <3>3, <3>5, <3>6
    <3> QED
      BY <1>3, <3>1, <3>3, <3>4, <3>7, <3>8 DEF LoopOf, HomeAt
  <2> QED
    BY <2>2, <2>3
<1> QED
  BY <1>6, <1>7, <1>8, PendSteps

(* The finalizer of an async fixture finds the event loop it was given     *)
(* open: closing the loops of a module, or of an item, comes after the     *)
(* teardown of everything kept no longer than them.                        *)
THEOREM RunnerLoopsOutliveFixtures == Spec => []LoopsOutliveFixtures
<1>1. LoopsNested => LoopsOutliveFixtures
  BY DEF LoopsNested, LoopOf, LoopsOutliveFixtures
<1> QED
  BY <1>1, TypesInvariant, NestedInvariant, LoopsInit, LoopsStep, PTL DEF Spec
---------------------------------------------------------------------------
(* The teardowns that are due.  Between two items they are for the nodes   *)
(* that change, the narrow ones first; after an item for the function;     *)
(* then for the parameters of the session; at the end for what is left.    *)
TaskOK(t) ==
    /\ pc = "teardown" => t = ScopeTask("function", InstanceAt(Items[pos], "function"))
    /\ pc = "params" => t.by = "scope" /\ t.scope = "session" /\ t.inst # SessionInstance
    /\ pc = "between" /\ t.by = "scope" =>
          /\ pos > 1 /\ t.scope \in Torn
          /\ InstanceAt(Items[pos - 1], t.scope) # InstanceAt(Items[pos], t.scope)
          /\ \/ t.inst = InstanceAt(Items[pos - 1], t.scope)
             \/ /\ t.inst = <<Items[pos - 1].parent>>
                /\ Items[pos - 1].parent # Items[pos].parent
    /\ pc = "final" /\ t.by = "scope" =>
          /\ t.scope \in Torn \cup {"session"}
          /\ t.scope = "session" => t.inst = SessionInstance

\* A teardown of scopes, but that of a package's setup_module.
OfScope(t) == t.by = "scope" /\ ~OfParent(t)

NarrowFirst == pc \in {"between", "final"} => \A k, l \in 1..Len(agenda) :
    OfScope(agenda[k]) /\ OfScope(agenda[l]) /\ k < l =>
        Rank[agenda[k].scope] < Rank[agenda[l].scope]

TasksOK == (\A k \in 1..Len(agenda) : TaskOK(agenda[k])) /\ NarrowFirst

LEMMA TasksNext ==
    ASSUME \A k \in 1..Len(agenda') : \A t : t = agenda'[k] => TaskOK(t)', NarrowFirst'
    PROVE  TasksOK'
  BY DEF TasksOK, TaskOK

LEMMA PackageTaskFacts ==
    ASSUME NEW i \in 1..N, NEW t, t = PackageTask(Items[i]), t.by = "scope"
    PROVE  t.scope = "module" /\ t.inst = <<Items[i].parent>> /\ OfParent(t)
<1>1. Items[i].parent # ""
  BY DEF PackageTask, EndedTask
<1>2. t = ScopeTask("module", <<Items[i].parent>>)
  BY <1>1 DEF PackageTask
<1>3. t.scope = "module" /\ t.inst = <<Items[i].parent>>
  BY <1>2, ScopeTaskFacts
<1> QED
  BY <1>1, <1>3, NamedNode DEF OfParent, ParentNodes

\* The teardowns between two items, in their order.
LEMMA PickTasks ==
    ASSUME Types, Pick, pc' = "between"
    PROVE  TasksOK'
<1>1. /\ pos \in Nat /\ pos >= 1 /\ pos' = pos /\ run' = run /\ Items' = Items /\ Torn' = Torn /\ Local' = Local
      /\ N' = N /\ pc' \notin {"teardown", "params", "final"}
  BY SameRun DEF Types, ControlOK, Pick, counts, work, Torn
<1>4. pos \in 1..N /\ N \in Nat /\ \A t : OfParent(t)' <=> OfParent(t)
  <2>1. N \in Nat
    BY RunFacts DEF Types
  <2>2. pos <= N
    BY <1>1, <2>1 DEF Pick, Leaves
  <2>3. \A t : OfParent(t)' <=> OfParent(t)
    BY <1>1 DEF OfParent, ParentNodes
  <2> QED
    BY <1>1, <2>1, <2>2, <2>3
<1>2. CASE pos = 1
  <2>1. agenda' = <<>>
    BY <1>2 DEF Pick
  <2> QED
    BY <2>1, EmptyFacts DEF TasksOK, NarrowFirst
<1>3. CASE pos # 1
  <2> DEFINE a == Items[pos - 1]
             b == Items[pos]
             LeftOf(s) == IF InstanceAt(a, s) # InstanceAt(b, s) THEN Boundary(s, a, b) ELSE EndedTask({})
             For(t, s) == t.by = "scope" =>
                /\ t.scope = s /\ InstanceAt(a, s) # InstanceAt(b, s)
                /\ t.inst = InstanceAt(a, s) \/ (t.inst = <<a.parent>> /\ a.parent # b.parent)
  <2>1. \A s : For(Boundary(s, a, b), s)
    BY DEF Boundary, ScopeTask, EndedTask
  <2>2. \A s : For(LeftOf(s), s)
    BY <2>1 DEF EndedTask
  <2>3. PICK c : c = Boundary("class", a, b)
    OBVIOUS
  <2>4. PICK m : m = Boundary("module", a, b)
    OBVIOUS
  <2>5. PICK p : p = Boundary("package", a, b)
    OBVIOUS
  <2>14. PICK h : h = IF a.parent # b.parent THEN PackageTask(a) ELSE EndedTask({})
    OBVIOUS
  <2>15. h.by = "scope" => OfParent(h) /\ For(h, "module")
    <3> SUFFICES ASSUME h.by = "scope" PROVE OfParent(h) /\ For(h, "module")
      OBVIOUS
    <3>1. pos - 1 \in 1..N
      BY <1>1, <1>3, <1>4
    <3>2. a.parent # b.parent
      BY <2>14 DEF EndedTask
    <3>3. h = PackageTask(Items[pos - 1])
      BY <2>14, <3>2
    <3>4. h.scope = "module" /\ OfParent(h) /\ h.inst = <<a.parent>>
      BY <3>1, <3>3, PackageTaskFacts
    <3>5. a.mod # b.mod
      BY <1>4, <3>1, <3>2, RunFacts DEF Types
    <3> QED
      BY <3>2, <3>4, <3>5 DEF InstanceAt
  <2>6. PICK c2 : c2 = LeftOf("class")
    OBVIOUS
  <2>7. PICK m2 : m2 = LeftOf("module")
    OBVIOUS
  <2>8. For(c, "class") /\ For(m, "module") /\ For(p, "package") /\ For(c2, "class") /\ For(m2, "module")
        /\ For(h, "module")
    BY <2>1, <2>2, <2>3, <2>4, <2>5, <2>6, <2>7, <2>15
  <2>9. /\ Local => agenda' = <<c, m, p, h>>
        /\ ~Local => agenda' = <<c2, m2>>
    <3>1. agenda' = IF Local THEN LocalBoundary(a, b) ELSE WorkerBoundary(a, b)
      BY <1>3 DEF Pick, Item
    <3>2. LocalBoundary(a, b) = <<c, m, p, h>>
      BY <2>3, <2>4, <2>5, <2>14 DEF LocalBoundary
    <3>3. WorkerBoundary(a, b) = <<c2, m2>>
      BY <2>6, <2>7 DEF WorkerBoundary
    <3> QED
      BY <3>1, <3>2, <3>3
  <2>10. Rank["class"] < Rank["module"] /\ Rank["module"] < Rank["package"] /\ Rank["class"] < Rank["package"]
    BY DEF Rank
  <2>11. \A t, s : s \in Torn /\ For(t, s) => TaskOK(t)'
    BY <1>1, <1>3 DEF TaskOK
  <2> HIDE DEF LeftOf, a, b
  <2>12. CASE Local
    <3>1. /\ Len(agenda') = 4
          /\ agenda'[1] = c /\ agenda'[2] = m /\ agenda'[3] = p /\ agenda'[4] = h
      BY <2>9, <2>12
    <3>2. {"class", "module", "package"} \subseteq Torn
      BY <2>12 DEF Torn
    <3>3. \A k \in 1..Len(agenda') : \A t : t = agenda'[k] => TaskOK(t)'
      BY <2>8, <2>11, <3>1, <3>2
    <3>5. ~OfScope(h)'
      BY <1>4, <2>15 DEF OfScope
    <3>4. NarrowFirst'
      BY <2>8, <2>10, <3>1, <3>5 DEF NarrowFirst, OfScope
    <3> QED
      BY <3>3, <3>4, TasksNext
  <2>13. CASE ~Local
    <3>1. Len(agenda') = 2 /\ agenda'[1] = c2 /\ agenda'[2] = m2
      BY <2>9, <2>13
    <3>2. {"class", "module"} \subseteq Torn
      BY DEF Torn
    <3>3. \A k \in 1..Len(agenda') : \A t : t = agenda'[k] => TaskOK(t)'
      BY <2>8, <2>11, <3>1, <3>2
    <3>4. NarrowFirst'
      BY <2>8, <2>10, <3>1 DEF NarrowFirst, OfScope
    <3> QED
      BY <3>3, <3>4, TasksNext
  <2> QED
    BY <2>12, <2>13
<1> QED
  BY <1>2, <1>3

\* Those at the end.
LEMMA FinalTasksOK ==
    ASSUME Types, NEW i \in 0..N, agenda' = FinalTasks(i), pc' = "final", run' = run
    PROVE  TasksOK'
<1>1. PICK c, m, p, h, z : /\ c = ScopeTask("class", InstanceAt(Items[i], "class"))
                           /\ m = ScopeTask("module", InstanceAt(Items[i], "module"))
                           /\ p = ScopeTask("package", InstanceAt(Items[i], "package"))
                           /\ h = PackageTask(Items[i])
                           /\ z = ScopeTask("session", SessionInstance)
  OBVIOUS
<1>2. /\ i = 0 => agenda' = <<z>>
      /\ i # 0 /\ Local => agenda' = <<c, m, p, h, z>>
      /\ i # 0 /\ ~Local => agenda' = <<c, m, z>>
  BY <1>1, FinalShape
<1>3. /\ c.by = "scope" /\ c.scope = "class" /\ m.by = "scope" /\ m.scope = "module"
      /\ p.by = "scope" /\ p.scope = "package" /\ z.by = "scope" /\ z.scope = "session"
      /\ z.inst = SessionInstance
  BY <1>1 DEF ScopeTask
<1>4. Torn' = Torn /\ {"class", "module"} \subseteq Torn /\ (Local => "package" \in Torn)
  BY SameRun DEF Torn
<1>9. i # 0 /\ h.by = "scope" => h.scope = "module" /\ OfParent(h)
  <2>1. i # 0 => i \in 1..N
    BY RunFacts DEF Types
  <2> QED
    BY <1>1, <2>1, PackageTaskFacts
<1>10. i # 0 => ~OfScope(h)'
  BY <1>9, SameRun DEF OfScope, OfParent, ParentNodes
<1>5. \A t : /\ t \in {c, m, p} /\ t.scope \in Torn => TaskOK(t)'
             /\ t = z => TaskOK(t)'
             /\ i # 0 /\ t = h => TaskOK(t)'
  BY <1>3, <1>4, <1>9 DEF TaskOK
<1>6. /\ Rank["class"] < Rank["module"] /\ Rank["module"] < Rank["package"] /\ Rank["class"] < Rank["package"]
      /\ Rank["class"] < Rank["session"] /\ Rank["module"] < Rank["session"] /\ Rank["package"] < Rank["session"]
  BY DEF Rank
<1>7. \A k \in 1..Len(agenda') : \A t : t = agenda'[k] => TaskOK(t)'
  <2> SUFFICES ASSUME NEW k \in 1..Len(agenda'), NEW t, t = agenda'[k] PROVE TaskOK(t)'
    OBVIOUS
  <2>1. CASE i = 0
    BY <1>2, <1>5, <2>1
  <2>2. CASE i # 0 /\ Local
    <3>1. /\ Len(agenda') = 5 /\ agenda'[1] = c /\ agenda'[2] = m /\ agenda'[3] = p
          /\ agenda'[4] = h /\ agenda'[5] = z
      BY <1>2, <2>2
    <3>2. t \in {c, m, p, h, z}
      BY <3>1
    <3> QED
      BY <1>3, <1>4, <1>5, <2>2, <3>2
  <2>3. CASE i # 0 /\ ~Local
    <3>1. Len(agenda') = 3 /\ agenda'[1] = c /\ agenda'[2] = m /\ agenda'[3] = z
      BY <1>2, <2>3
    <3>2. t \in {c, m, z}
      BY <3>1
    <3> QED
      BY <1>3, <1>4, <1>5, <3>2
  <2> QED
    BY <2>1, <2>2, <2>3
<1>8. NarrowFirst'
  <2>1. CASE i = 0
    BY <1>2, <2>1 DEF NarrowFirst
  <2>2. CASE i # 0 /\ Local
    <3>1. /\ Len(agenda') = 5 /\ agenda'[1] = c /\ agenda'[2] = m /\ agenda'[3] = p
          /\ agenda'[4] = h /\ agenda'[5] = z
      BY <1>2, <2>2
    <3> QED
      BY <1>3, <1>6, <1>10, <2>2, <3>1 DEF NarrowFirst, OfScope
  <2>3. CASE i # 0 /\ ~Local
    <3>1. Len(agenda') = 3 /\ agenda'[1] = c /\ agenda'[2] = m /\ agenda'[3] = z
      BY <1>2, <2>3
    <3> QED
      BY <1>3, <1>6, <3>1 DEF NarrowFirst, OfScope
  <2> QED
    BY <2>1, <2>2, <2>3
<1> QED
  BY <1>7, <1>8, TasksNext

\* Those of an item.
LEMMA FunctionTasksOK ==
    ASSUME Types, agenda' = <<ScopeTask("function", <<Item.id>>)>>, pc' = "teardown", run' = run, pos' = pos
    PROVE  TasksOK'
<1>1. PICK t : t = ScopeTask("function", <<Item.id>>)
  OBVIOUS
<1>2. t = ScopeTask("function", InstanceAt(Items[pos], "function")) /\ Items' = Items
  BY <1>1, SameRun DEF InstanceAt, Item
<1>3. Len(agenda') = 1 /\ agenda'[1] = t
  BY <1>1, OneTask
<1>4. TaskOK(t)'
  BY <1>2 DEF TaskOK
<1>5. NarrowFirst'
  BY DEF NarrowFirst
<1> QED
  BY <1>3, <1>4, <1>5, TasksNext

\* Those after an item are for the session.
LEMMA SessionTasksOK ==
    ASSUME Types, pos \in 1..N, agenda' = SessionParams(pos), pc' = "params", run' = run
    PROVE  TasksOK'
<1> DEFINE Ends(n) == /\ Known(Defs, n, Items[pos]) /\ Lookup(Defs, n, Items[pos]).scope = "session"
                      /\ pos = N \/ ~(n \in DOMAIN Items[pos + 1].par
                                      /\ Items[pos + 1].par[n] = Items[pos].par[n])
           ended == {n \in DOMAIN Items[pos].par : Ends(n)}
           name(j) == SetToSeq(ended)[j]
           val(j) == Items[pos].par[SetToSeq(ended)[j]]
<1>1. agenda' = [j \in 1..Cardinality(ended) |-> ScopeTask("session", <<name(j), val(j)>>)]
  BY DEF SessionParams
<1> HIDE DEF ended, name, val
<1>2. IsSeq(agenda')
  BY SessionShape DEF Types
<1>3. ASSUME NEW k \in 1..Len(agenda'), NEW t0, t0 = agenda'[k] PROVE TaskOK(t0)'
  <2>1. k \in DOMAIN agenda'
    BY <1>2, SeqFacts
  <2>2. PICK u, v : u = name(k) /\ v = val(k)
    OBVIOUS
  <2>3. PICK t : t = ScopeTask("session", <<u, v>>)
    OBVIOUS
  <2>4. agenda'[k] = t
    BY <1>1, <2>1, <2>2, <2>3
  <2>5. <<u, v>> # <<"">>
    OBVIOUS
  <2>6. TaskOK(t)'
    BY <2>3, <2>5 DEF ScopeTask, TaskOK, SessionInstance
  <2> QED
    BY <1>3, <2>4, <2>6
<1>4. NarrowFirst'
  BY DEF NarrowFirst
<1> QED
  BY <1>3, <1>4, TasksNext

\* Where the process can go.
LEMMA ControlSteps ==
    ASSUME Types, [Next]_vars
    PROVE  /\ run' = run /\ pos' \in {pos, pos + 1}
           /\ pc \in AtItem => \/ pc' \in AtItem /\ pos' = pos
                               \/ pc' \in {"pick", "final"} /\ pos' = pos + 1
           /\ pc = "pick" => pc' \in {"pick", "between", "final"} /\ pos' = pos
           /\ pc = "between" => pc' \in {"between", "setup", "after"} /\ pos' = pos
           /\ pc \in {"final", "done"} => pc' \in {"final", "done"} /\ pos' = pos
<1> USE DEF hooks, counts, work, AtItem
<1>1. CASE Pick \/ Start \/ BeginSetup \/ SetupDone \/ Call \/ EndItem
  BY <1>1 DEF Pick, Start, BeginSetup, SetupDone, Call, EndItem
<1>2. CASE RunFinalizer \/ EndTask \/ UNCHANGED vars
  <2>1. UNCHANGED <<run, pc, pos>>
    BY <1>2 DEF RunFinalizer, EndTask, vars
  <2>2. pc \in Pcs
    BY DEF Types, ControlOK
  <2> QED
    BY <2>1, <2>2 DEF Pcs
<1>3. CASE EnsureXunit
  BY <1>3, EnsureXunitFacts DEF XunitGoesOn, Abort
<1>4. CASE Resolve
  <2>1. pc' \in {pc, "teardown"}
    BY <1>4, ResolveFacts DEF Abort, Asked, AskedArgument
  <2> QED
    BY <1>4, <2>1 DEF Resolve, Resolving
<1>5. CASE Execute
  <2>1. pc' \in {pc, "teardown"}
    BY <1>5, ExecuteFacts DEF Abort, ExecutedPlain, ExecutedYield, ExecutedFault, Stores
  <2> QED
    BY <1>5, <2>1, ExecuteFacts
<1>6. CASE After \/ NextItem \/ Finish
  BY <1>6 DEF After, NextItem, Finish
<1> QED
  BY <1>1, <1>2, <1>3, <1>4, <1>5, <1>6 DEF Next

LEMMA TasksStep == Types /\ TasksOK /\ [Next]_vars => TasksOK'
<1> SUFFICES ASSUME Types, TasksOK, [Next]_vars PROVE TasksOK'
  OBVIOUS
<1> USE DEF hooks, counts, work
<1>1. run' = run /\ Items' = Items /\ Torn' = Torn /\ \A t : OfScope(t)' = OfScope(t)
  <2>1. run' = run
    BY ControlSteps
  <2> QED
    BY <2>1, SameRun DEF Torn, OfScope, OfParent, ParentNodes
<1>2. N \in Nat /\ pos \in 1..N + 1 /\ (pc \notin {"pick", "final", "done"} => pos <= N)
  BY RunFacts DEF Types, ControlOK
<1>3. UNCHANGED <<pc, pos, agenda>> => TasksOK'
  BY <1>1 DEF TasksOK, TaskOK, NarrowFirst
<1>4. agenda' = <<>> => TasksOK'
  BY EmptyFacts DEF TasksOK, NarrowFirst
<1>5. Abort /\ UNCHANGED pos => TasksOK'
  BY <1>1, FunctionTasksOK DEF Abort
<1>6. CASE Pick
  <2>1. pos - 1 \in 0..N
    BY <1>2
  <2> QED
    BY <1>1, <1>6, <2>1, PickTasks, FinalTasksOK DEF Pick
<1>7. CASE EndTask
  <2>1. /\ Len(agenda) \in Nat /\ Len(agenda) >= 1 /\ Len(agenda') = Len(agenda) - 1
        /\ \A k \in 1..Len(agenda) - 1 : agenda'[k] = agenda[k + 1]
    BY <1>7, EndTaskFacts, SeqFacts DEF Types, ControlOK
  <2>2. UNCHANGED <<pc, pos>>
    BY <1>7 DEF EndTask
  <2>3. ASSUME NEW k \in 1..Len(agenda'), NEW t, t = agenda'[k] PROVE TaskOK(t)'
    <3>1. k + 1 \in 1..Len(agenda) /\ agenda'[k] = agenda[k + 1]
      BY <2>1
    <3>2. TaskOK(t)
      BY <2>3, <3>1 DEF TasksOK
    <3> QED
      BY <1>1, <2>2, <3>2 DEF TaskOK
  <2>4. NarrowFirst'
    <3> SUFFICES ASSUME pc \in {"between", "final"}, NEW k \in 1..Len(agenda'), NEW l \in 1..Len(agenda'),
                        OfScope(agenda'[k]), OfScope(agenda'[l]), k < l
                 PROVE  Rank[agenda'[k].scope] < Rank[agenda'[l].scope]
      BY <1>1, <2>2 DEF NarrowFirst
    <3>1. k + 1 \in 1..Len(agenda) /\ agenda'[k] = agenda[k + 1]
      BY <2>1
    <3>2. l + 1 \in 1..Len(agenda) /\ agenda'[l] = agenda[l + 1] /\ k + 1 < l + 1
      BY <2>1
    <3> QED
      BY <3>1, <3>2 DEF TasksOK, NarrowFirst
  <2> QED
    BY <2>3, <2>4, TasksNext
<1>8. CASE Start \/ Finish \/ NextItem \/ EndItem \/ BeginSetup \/ SetupDone
  <2>1. agenda' = agenda /\ agenda = <<>>
    BY <1>8 DEF Start, Finish, NextItem, EndItem, BeginSetup, SetupDone, Types, ControlOK
  <2> QED
    BY <1>4, <2>1
<1>9. CASE Call
  BY <1>1, <1>9, FunctionTasksOK DEF Call
<1>10. CASE EnsureXunit
  <2>1. agenda = <<>> /\ UNCHANGED pos
    BY <1>10, EnsureXunitFacts DEF Types, ControlOK
  <2> QED
    BY <1>4, <1>5, <1>10, <2>1, EnsureXunitFacts DEF XunitGoesOn
<1>11. CASE Resolve
  <2>1. UNCHANGED pos
    BY <1>11 DEF Resolve
  <2>2. Abort \/ UNCHANGED <<pc, agenda>>
    BY <1>11, ResolveFacts DEF Asked, AskedArgument
  <2> QED
    BY <1>3, <1>5, <2>1, <2>2
<1>12. CASE Execute
  <2>1. UNCHANGED pos
    BY <1>12, ExecuteFacts
  <2>2. Abort \/ UNCHANGED <<pc, agenda>>
    BY <1>12, ExecuteFacts DEF ExecutedPlain, ExecutedYield, ExecutedFault, Stores
  <2> QED
    BY <1>3, <1>5, <2>1, <2>2
<1>13. CASE After
  <2>1. agenda = <<>> /\ pos \in 1..N /\ pos \in 0..N
    BY <1>2, <1>13 DEF After, Types, ControlOK
  <2>2. \/ pc' = "params" /\ agenda' = SessionParams(pos)
        \/ pc' = "final" /\ agenda' = FinalTasks(pos)
        \/ agenda' = agenda
    BY <1>13 DEF After
  <2> QED
    BY <1>1, <1>4, <2>1, <2>2, SessionTasksOK, FinalTasksOK
<1>14. CASE RunFinalizer \/ UNCHANGED vars
  BY <1>3, <1>14 DEF RunFinalizer, vars
<1> QED
  BY <1>6, <1>7, <1>8, <1>9, <1>10, <1>11, <1>12, <1>13, <1>14 DEF Next

LEMMA TasksInvariant == Spec => []TasksOK
<1>1. Init => TasksOK
  BY EmptyFacts DEF Init, TasksOK, NarrowFirst
<1> QED
  BY <1>1, TasksStep, TypesInvariant, PTL DEF Spec
---------------------------------------------------------------------------
(* setup_module: its teardown_module is due only when the run leaves the   *)
(* file or the package.  What the record of one says holds while the run   *)
(* is in its first visit of it.                                            *)
FirstVisitAt(m, k) == \A i \in 1..k :
    m \in XunitNames(Items[i]) => \A j \in i..k : m \in XunitNames(Items[j])

XunitHeld(m) == \E i \in 1..Len(pend) :
    /\ pend[i].key.name = "xunit" /\ pend[i].binds = {}
    /\ pend[i].scope = "module" /\ pend[i].inst = <<m>>

OfHook(task, m) == task.by = "scope" /\ task.scope = "module" /\ task.inst = <<m>>
Around(m, i) == m \in XunitNames(Items[i])

RecordOf(x) ==
    /\ x.ok \/ x = [mod |-> x.mod, ok |-> FALSE]
    /\ \E j \in 1..N : Around(x.mod, j) /\ (j < pos \/ (j = pos /\ pc \in AtItem))
    /\ x.ok /\ pc \in AtItem /\ Around(x.mod, pos) /\ FirstVisitAt(x.mod, pos) => XunitHeld(x.mod)
    /\ x.ok /\ pc = "pick" /\ pos > 1 /\ Around(x.mod, pos - 1) /\ FirstVisitAt(x.mod, pos - 1)
          => XunitHeld(x.mod)
    /\ x.ok /\ pc = "between" /\ pos > 1 /\ Around(x.mod, pos - 1) /\ Around(x.mod, pos)
          /\ FirstVisitAt(x.mod, pos - 1) => XunitHeld(x.mod)

XunitNested ==
    /\ \A x \in xdone : RecordOf(x)
    /\ pc \in {"resolve", "call"} => \A m \in XunitNames(Item) \cap Suites[run.suite].xunit :
          \E x \in xdone : x.mod = m /\ x.ok

LEMMA XunitInit == Init => XunitNested
<1> SUFFICES ASSUME Init PROVE XunitNested
  OBVIOUS
<1>1. xdone = {} /\ pc = "pick"
  BY DEF Init
<1> QED
  BY <1>1 DEF XunitNested

\* Only the teardown of m takes its teardown_module away.
LEMMA XunitStays ==
    ASSUME Types, [Next]_vars, NEW m, XunitHeld(m), ~(RunFinalizer /\ OfHook(agenda[1], m))
    PROVE  XunitHeld(m)'
<1>0. IsSeq(pend) /\ Len(pend) \in Nat
  BY SeqFacts DEF Types, PendOK
<1>1. PICK i \in 1..Len(pend) : /\ pend[i].key.name = "xunit" /\ pend[i].binds = {}
                                /\ pend[i].scope = "module" /\ pend[i].inst = <<m>>
  BY DEF XunitHeld
<1>2. SUFFICES \E k \in 1..Len(pend') : pend'[k] = pend[i]
  BY <1>1 DEF XunitHeld
<1> USE DEF work
<1>3. ASSUME NEW e, pend' = Append(pend, e) PROVE \E k \in 1..Len(pend') : pend'[k] = pend[i]
  <2>1. Len(pend') = Len(pend) + 1 /\ pend'[i] = pend[i]
    BY <1>0, <1>3, AppendFacts
  <2> QED
    BY <1>0, <2>1
<1>4. CASE RunFinalizer
  <2>1. PICK j \in 1..Len(pend) :
            /\ Matches(agenda[1], pend[j])
            /\ Len(pend') = Len(pend) - 1
            /\ \A k \in 1..Len(pend) - 1 : pend'[k] = IF k < j THEN pend[k] ELSE pend[k + 1]
    BY <1>4, FinalizerFacts
  <2>2. j # i
    BY <1>1, <1>4, <2>1 DEF Matches, OfHook
  <2>3. CASE i < j
    <3>1. i \in 1..Len(pend') /\ i \in 1..Len(pend) - 1
      BY <1>0, <2>1, <2>3
    <3> QED
      BY <2>1, <2>3, <3>1
  <2>4. CASE i > j
    <3>1. i - 1 \in 1..Len(pend') /\ i - 1 \in 1..Len(pend) - 1 /\ ~(i - 1 < j) /\ i - 1 + 1 = i
      BY <1>0, <2>1, <2>4
    <3> QED
      BY <2>1, <3>1
  <2> QED
    BY <1>0, <2>1, <2>2, <2>3, <2>4
<1>5. CASE EnsureXunit
  <2>1. pend' = pend \/ pend' = Append(pend, Xid(XunitFirst))
    BY <1>5, EnsureXunitFacts
  <2> QED
    BY <1>1, <1>3, <2>1
<1>6. CASE Execute
  <2>1. PICK d, rs : ExecutedPlain(d, rs) \/ ExecutedYield(d, rs) \/ ExecutedFault(d)
    BY <1>6, ExecuteFacts
  <2>2. pend' = pend \/ pend' = Append(pend, PendingOf(d, rs))
    BY <2>1 DEF ExecutedPlain, ExecutedYield, ExecutedFault
  <2> QED
    BY <1>1, <1>3, <2>2
<1>7. CASE Pick \/ EndTask \/ Start \/ BeginSetup \/ Resolve \/ SetupDone \/ Call \/ EndItem
           \/ After \/ NextItem \/ Finish \/ UNCHANGED vars
  <2>1. pend' = pend
    BY <1>7 DEF Pick, EndTask, Start, BeginSetup, Resolve, SetupDone, Call, EndItem, After, NextItem,
                Finish, vars
  <2> QED
    BY <1>1, <2>1
<1> QED
  BY <1>4, <1>5, <1>6, <1>7 DEF Next

\* A record is made by the setup of an item below only.
LEMMA RecordSteps ==
    ASSUME Types, XunitNested, [Next]_vars
    PROVE  /\ \A x \in xdone' : \/ x \in xdone
                                \/ /\ pc \in AtItem /\ pc' \in AtItem /\ UNCHANGED pos
                                   /\ x.mod \in XunitNames(Item) /\ (x.ok => XunitHeld(x.mod)')
                                   /\ x.ok \/ x = [mod |-> x.mod, ok |-> FALSE]
           /\ pc' \in {"resolve", "call"} => UNCHANGED <<xdone, pos>>
           /\ pc' \in {"resolve", "call"} /\ pc \notin {"resolve", "call"} =>
                 \A m \in XunitNames(Item) \cap Suites[run.suite].xunit :
                    \E x \in xdone : x.mod = m /\ x.ok
<1> USE DEF hooks, counts, work
<1>1. CASE EnsureXunit
  <2>1. pc = "early" /\ UNCHANGED pos /\ pc' \in {"early", "resolve", "teardown"}
    BY <1>1, EnsureXunitFacts DEF XunitGoesOn, Abort
  <2>5. PICK m : m = XunitFirst
    OBVIOUS
  <2>2. CASE xdone' = xdone /\ (Abort \/ XunitTodo = {})
    <3>1. pc' = "resolve" => XunitTodo = {}
      BY <2>2 DEF Abort
    <3>2. ASSUME XunitTodo = {}, NEW n \in XunitNames(Item) \cap Suites[run.suite].xunit
          PROVE  \E x \in xdone : x.mod = n /\ x.ok
      <4>1. ~XunitDue(n) /\ ~XunitFailed(n)
        BY <3>2 DEF XunitTodo
      <4>2. PICK x \in xdone : x.mod = n
        BY <3>2, <4>1 DEF XunitDue
      <4>3. x.ok \/ x = [mod |-> x.mod, ok |-> FALSE]
        BY <4>2 DEF XunitNested, RecordOf
      <4>4. x # [mod |-> n, ok |-> FALSE]
        BY <4>1, <4>2 DEF XunitFailed
      <4> QED
        BY <4>2, <4>3, <4>4
    <3> QED
      BY <2>1, <2>2, <3>1, <3>2
  <2>3. CASE /\ m \in XunitTodo /\ xdone' = xdone \cup {[mod |-> m, ok |-> TRUE]}
             /\ pend' = Append(pend, Xid(m)) /\ pc' = "early"
    <3>1. IsSeq(pend) /\ Len(pend) \in Nat
      BY SeqFacts DEF Types, PendOK
    <3>2. PICK p : p = Xid(m)
      OBVIOUS
    <3>3. Len(pend') = Len(pend) + 1 /\ pend'[Len(pend) + 1] = p
      BY <2>3, <3>1, <3>2, AppendFacts
    <3>4. p.key.name = "xunit" /\ p.binds = {} /\ p.scope = "module" /\ p.inst = <<m>>
      BY <3>2 DEF Xid
    <3>6. XunitHeld(m)'
      BY <3>1, <3>3, <3>4 DEF XunitHeld
    <3>7. \A x \in xdone' : x \in xdone \/ (x.mod = m /\ x.ok /\ XunitHeld(x.mod)')
      BY <2>3, <3>6 DEF XunitHeld
    <3> QED
      BY <2>1, <2>3, <3>7 DEF AtItem, XunitTodo
  <2>4. CASE m \in XunitTodo /\ xdone' = xdone \cup {[mod |-> m, ok |-> FALSE]} /\ Abort
    BY <2>1, <2>4 DEF AtItem, Abort, XunitTodo
  <2> QED
    BY <1>1, <2>2, <2>3, <2>4, <2>5, EnsureXunitFacts
<1>2. CASE Resolve \/ Execute
  <2>1. pc' \in {pc, "teardown"}
    BY <1>2, ResolveFacts, ExecuteFacts
       DEF Abort, Asked, AskedArgument, ExecutedPlain, ExecutedYield, ExecutedFault, Stores
  <2>2. UNCHANGED <<xdone, pos>>
    BY <1>2, ExecuteFacts DEF Resolve
  <2> QED
    BY <2>1, <2>2
<1>3. CASE Pick \/ Start \/ BeginSetup \/ SetupDone \/ Call \/ EndItem \/ After \/ NextItem \/ Finish
           \/ EndTask \/ RunFinalizer \/ UNCHANGED vars
  <2>1. xdone' \subseteq xdone
    BY <1>3 DEF Pick, Start, BeginSetup, SetupDone, Call, EndItem, After, NextItem, Finish, EndTask,
                RunFinalizer, vars
  <2>2. pc' \in {"resolve", "call"} => pc \in {"resolve", "call"} /\ UNCHANGED <<xdone, pos>>
    BY <1>3 DEF Pick, Start, BeginSetup, SetupDone, Call, EndItem, After, NextItem, Finish, EndTask,
                RunFinalizer, vars
  <2> QED
    BY <2>1, <2>2
<1> QED
  BY <1>1, <1>2, <1>3 DEF Next

LEMMA RecordsStep ==
    ASSUME Types, TasksOK, XunitNested, [Next]_vars, NEW x \in xdone'
    PROVE  RecordOf(x)'
<1>1. /\ run' = run /\ Items' = Items /\ N' = N /\ Item = Items[pos]
      /\ N \in Nat /\ pos \in 1..N + 1 /\ (pc \notin {"pick", "final", "done"} => pos <= N) /\ pc \in Pcs
  BY ControlSteps, SameRun, RunFacts DEF Types, ControlOK, Item
<1>2. \A m, k : (FirstVisitAt(m, k)' <=> FirstVisitAt(m, k)) /\ (Around(m, k)' <=> Around(m, k))
  BY <1>1 DEF FirstVisitAt, Around, XunitNames
<1>3. CASE x \notin xdone
  <2>1. /\ pc \in AtItem /\ pc' \in AtItem /\ pos' = pos /\ Around(x.mod, pos)
        /\ x.ok => XunitHeld(x.mod)'
        /\ x.ok \/ x = [mod |-> x.mod, ok |-> FALSE]
    BY <1>1, <1>3, RecordSteps DEF Around
  <2>2. pos \in 1..N
    BY <1>1, <2>1 DEF AtItem
  <2> QED
    BY <1>1, <1>2, <2>1, <2>2 DEF RecordOf, AtItem
<1>4. CASE x \in xdone
  <2>1. RecordOf(x)
    BY <1>4 DEF XunitNested
  <2>2. \E j \in 1..N : Around(x.mod, j) /\ (j < pos' \/ (j = pos' /\ pc' \in AtItem))
    <3>1. PICK j \in 1..N : Around(x.mod, j) /\ (j < pos \/ (j = pos /\ pc \in AtItem))
      BY <2>1 DEF RecordOf
    <3>2. pos' \in {pos, pos + 1} /\ (pc \in AtItem => pc' \in AtItem \/ pos' = pos + 1)
      BY ControlSteps
    <3> QED
      BY <1>1, <3>1, <3>2
  <2>3. CASE RunFinalizer /\ OfHook(agenda[1], x.mod)
    <3>1. 1 \in 1..Len(agenda) /\ UNCHANGED <<pc, pos>> /\ pc \in {"between", "teardown", "params", "final"}
      BY <2>3, SeqFacts DEF RunFinalizer, Types, ControlOK
    <3>2. TaskOK(agenda[1])
      BY <3>1 DEF TasksOK
    <3>3. pc \notin {"teardown", "params"}
      BY <2>3, <3>2 DEF TaskOK, OfHook, ScopeTask
    <3>4. pc = "between" => ~(Around(x.mod, pos - 1) /\ Around(x.mod, pos))
      <4> SUFFICES ASSUME pc = "between", Around(x.mod, pos - 1), Around(x.mod, pos) PROVE FALSE
        OBVIOUS
      <4>1. PICK a, b : a = Items[pos - 1] /\ b = Items[pos]
        OBVIOUS
      <4>2. PICK t : t = agenda[1]
        OBVIOUS
      <4>3. /\ pos > 1 /\ InstanceAt(a, "module") # InstanceAt(b, "module")
            /\ t.inst = InstanceAt(a, "module") \/ (t.inst = <<a.parent>> /\ a.parent # b.parent)
            /\ t.inst = <<x.mod>>
        BY <2>3, <3>2, <4>1, <4>2 DEF TaskOK, OfHook
      <4>4. a.mod # b.mod /\ (x.mod = a.mod \/ (x.mod = a.parent /\ a.parent # b.parent))
        BY <4>3 DEF InstanceAt
      <4>5. x.mod \in {b.parent, b.mod}
        BY <4>1 DEF Around, XunitNames
      <4>6. a.mod # b.parent /\ b.mod # a.parent
        BY <1>1, <4>1, <4>3, RunFacts DEF Types
      <4> QED
        BY <4>4, <4>5, <4>6
    <3> QED
      BY <1>1, <1>2, <2>1, <2>2, <3>1, <3>3, <3>4 DEF RecordOf, AtItem
  <2>4. CASE ~(RunFinalizer /\ OfHook(agenda[1], x.mod))
    <3>1. XunitHeld(x.mod) => XunitHeld(x.mod)'
      BY <2>4, XunitStays
    <3>2. CASE pc \in AtItem
      <4>1. \/ pc' \in AtItem /\ pos' = pos
            \/ pc' \in {"pick", "final"} /\ pos' = pos + 1 /\ pos' - 1 = pos
        BY <1>1, <3>2, ControlSteps
      <4> QED
        BY <1>1, <1>2, <2>1, <2>2, <3>1, <3>2, <4>1 DEF RecordOf, AtItem
    <3>3. CASE pc = "pick"
      <4>1. pc' \in {"pick", "between", "final"} /\ pos' = pos
        BY <3>3, ControlSteps
      <4> QED
        BY <1>1, <1>2, <2>1, <2>2, <3>1, <3>3, <4>1 DEF RecordOf, AtItem
    <3>4. CASE pc = "between"
      <4>1. pc' \in {"between", "setup", "after"} /\ pos' = pos
        BY <3>4, ControlSteps
      <4>2. ASSUME pc' # "between", x.ok, Around(x.mod, pos), FirstVisitAt(x.mod, pos)
            PROVE  XunitHeld(x.mod)
        <5>1. PICK j \in 1..N : Around(x.mod, j) /\ j < pos
          BY <2>1, <3>4 DEF RecordOf, AtItem
        <5>2. pos \in Nat /\ pos > 1 /\ j \in 1..pos /\ pos - 1 \in j..pos
          BY <1>1, <5>1
        <5>3. Around(x.mod, pos - 1)
          BY <4>2, <5>1, <5>2 DEF FirstVisitAt, Around
        <5>4. FirstVisitAt(x.mod, pos - 1)
          <6>1. \A i \in 1..pos - 1 : i \in 1..pos /\ i..pos - 1 \subseteq i..pos
            BY <5>2
          <6> QED
            BY <4>2, <5>3, <6>1 DEF FirstVisitAt
        <5> QED
          BY <2>1, <3>4, <4>2, <5>2, <5>3, <5>4 DEF RecordOf
      <4> QED
        BY <1>1, <1>2, <2>1, <2>2, <3>1, <3>4, <4>1, <4>2 DEF RecordOf, AtItem
    <3>5. CASE pc \in {"final", "done"}
      <4>1. pc' \in {"final", "done"} /\ pos' = pos
        BY <3>5, ControlSteps
      <4> QED
        BY <1>1, <1>2, <2>1, <2>2, <4>1 DEF RecordOf, AtItem
    <3> QED
      BY <1>1, <3>2, <3>3, <3>4, <3>5 DEF Pcs, AtItem
  <2> QED
    BY <2>3, <2>4
<1> QED
  BY <1>3, <1>4

LEMMA XunitStep == Types /\ TasksOK /\ XunitNested /\ [Next]_vars => XunitNested'
<1> SUFFICES ASSUME Types, TasksOK, XunitNested, [Next]_vars PROVE XunitNested'
  OBVIOUS
<1>2. \A x \in xdone' : RecordOf(x)'
  BY RecordsStep
<1>3. run' = run /\ (pos' = pos => XunitNames(Item)' = XunitNames(Item))
  <2>1. run' = run
    BY ControlSteps
  <2> QED
    BY <2>1, SameRun DEF Item, XunitNames
<1>4. /\ (pc \in {"resolve", "call"} => \A m \in XunitNames(Item) \cap Suites[run.suite].xunit :
            \E x \in xdone : x.mod = m /\ x.ok)'
  BY <1>3, RecordSteps DEF XunitNested
<1> QED
  BY <1>2, <1>4 DEF XunitNested

(* A test of a file, or of a package, with setup_module runs while its     *)
(* teardown_module is still to come: the finalizer is there until the run  *)
(* leaves the file or the package, and a test whose setup_module failed    *)
(* does not get as far as its call.                                        *)
THEOREM RunnerXunitReady == Spec => []XunitReady
<1>1. Types /\ XunitNested => XunitReady
  <2> SUFFICES ASSUME Types, XunitNested, pc = "call",
                      NEW m \in XunitNames(Item) \cap Suites[run.suite].xunit, FirstVisit(m)
               PROVE  \E i \in 1..Len(pend) : pend[i].key.name = "xunit" /\ pend[i].inst = <<m>>
    BY DEF XunitReady
  <2>1. PICK x \in xdone : x.mod = m /\ x.ok
    BY DEF XunitNested
  <2>2. FirstVisitAt(m, pos) /\ Around(m, pos)
    BY DEF FirstVisit, FirstVisitAt, Item, Around
  <2>3. XunitHeld(m)
    BY <2>1, <2>2 DEF XunitNested, RecordOf, AtItem
  <2> QED
    BY <2>3 DEF XunitHeld
<1> QED
  BY <1>1, TypesInvariant, TasksInvariant, XunitInit, XunitStep, PTL DEF Spec
---------------------------------------------------------------------------
(* The key of a value.  A value for a parameter, kept for a class, module  *)
(* or package of the local loop, carries the parametrization it moves      *)
(* with.  It is kept no longer than any parametrization it carries, of its *)
(* own scope or a wider one: between two items of one node either the next *)
(* item has the same value of it, or the teardown of what carries it is    *)
(* due.                                                                    *)
ParOf(it, n) == IF n \in DOMAIN it.par THEN it.par[n] ELSE "none"
Going(x) == \E k \in 1..Len(agenda) : Matches(agenda[k], x)
BindingOf(x) == [scope |-> x.scope, inst |-> x.inst, name |-> x.key.name, val |-> x.key.par]

BoundAt(b, i) ==
    b.inst = InstanceAt(Items[i], b.scope) /\ ParamValue(Items[i], b.name) = b.val

BindKept(x, b) ==
    /\ b = [scope |-> b.scope, inst |-> b.inst, name |-> b.name, val |-> b.val]
    /\ b.scope \in {"class", "module", "package"}
    /\ \E j \in 1..N : b.name \in Given(Items[j]) /\ KeyScope(Items[j], b.name) = b.scope
    /\ pc \in AtItem => BoundAt(b, pos)
    /\ pc = "pick" => BoundAt(b, pos - 1)
    /\ pc = "between" => BoundAt(b, pos - 1) /\ (BoundAt(b, pos) \/ Going(x))

Carries(x, b) == b \in x.binds /\ ~Wider(x.scope, b.scope) /\ b.val # "none"

KeyHome(x) ==
    /\ x.key = [scope |-> x.scope, name |-> x.key.name, base |-> x.key.base, inst |-> x.inst,
                par |-> x.key.par]
    /\ x.scope = "function" => x.key.par = ParOf(Items[pos], x.key.name)
    /\ x.scope = "session" =>
          x.inst = IF x.key.par = "none" THEN SessionInstance ELSE <<x.key.name, x.key.par>>
    /\ OfParent(x) => x.key.name = "xunit" /\ x.key.par = "none" /\ x.binds = {}
    /\ \A b \in x.binds : b.scope # "session"
    /\ Local /\ ParamsFit /\ x.scope \in Torn =>
          /\ x.key.par # "none" => BindingOf(x) \in x.binds
          /\ \A b : Carries(x, b) => BindKept(x, b)

KeysNested == \A x \in Held : KeyHome(x)

\* Nodes nest: two items of one node are in one node of every wider scope.
LEMMA NodesNest ==
    ASSUME RunOK, NEW i \in 1..N, NEW j \in 1..N,
           NEW a \in {"class", "module", "package"}, NEW b \in {"class", "module", "package"}, ~Wider(a, b),
           InstanceAt(Items[i], a) = InstanceAt(Items[j], a)
    PROVE  InstanceAt(Items[i], b) = InstanceAt(Items[j], b)
<1>1. /\ Items[i].cls = Items[j].cls => Items[i].mod = Items[j].mod
      /\ Items[i].mod = Items[j].mod => Items[i].pkg = Items[j].pkg
  BY RunFacts
<1>2. /\ a = "class" => Items[i].cls = Items[j].cls
      /\ a = "module" => Items[i].mod = Items[j].mod
      /\ a = "package" => Items[i].pkg = Items[j].pkg
  BY DEF InstanceAt
<1>3. a = b \/ (a = "class" /\ b \in {"module", "package"}) \/ (a = "module" /\ b = "package")
  BY DEF Wider, Rank
<1> QED
  BY <1>1, <1>2, <1>3 DEF InstanceAt

\* The bindings recorded with a value are those of its definition.
LEMMA BindsFacts ==
    ASSUME RunOK, pos \in 1..N, NEW k \in 1..Len(Defs)
    PROVE  Binds(Defs[k]) = Bindings(Defs, Defs[k], Item)
<1>1. Defs[k] \in ToSet(Defs)
  BY RunFacts DEF ToSet
<1>2. PICK f : f = [d \in ToSet(Defs) |-> Bindings(Defs, d, Item)]
  OBVIOUS
<1>3. Prepared[run.suite][pos].binds = f
  BY <1>2, RunFacts DEF Prepared, RunOK, Defs, Items, Item
<1> QED
  BY <1>1, <1>2, <1>3 DEF Binds

\* A definition depends on its own name.
LEMMA OwnArgname ==
    ASSUME NEW defs, NEW it, NEW d
    PROVE  d.name \in TransitiveArgnames(defs, it, d)
  BY DEF TransitiveArgnames, Reach

\* A parametrized value is kept for the scope of its parametrization.
LEMMA ParamScope ==
    ASSUME RunOK, ParamsFit, NEW i \in 1..N, NEW k \in 1..Len(Defs), Defs[k].name \in DOMAIN Items[i].par
    PROVE  /\ CacheScope(Defs[k], Items[i]) = KeyScope(Items[i], Defs[k].name)
           /\ CacheScope(Defs[k], Items[i]) # "function" =>
                 /\ Defs[k].name \in DOMAIN Items[i].keys
                 /\ Items[i].keys[Defs[k].name] = CacheScope(Defs[k], Items[i])
<1> DEFINE it == Items[i]
           n == Defs[k].name
<1>1. Defs[k].scope \in Scopes /\ (n \in DOMAIN it.keys => it.keys[n] \in Scopes) /\ k \in DOMAIN Defs
  BY RunFacts
<1>2. ~Wider(Defs[k].scope, KeyScope(it, n))
  BY <1>1 DEF ParamsFit
<1>3. \A a, b \in Scopes : ~Wider(a, b) /\ ~Wider(b, a) => a = b
  BY DEF Wider, Rank, Scopes
<1>4. \A a \in Scopes : ~Wider(a, "function") => a = "function"
  BY DEF Wider, Rank, Scopes
<1>5. CASE n \in DOMAIN it.keys
  BY <1>1, <1>2, <1>3, <1>5 DEF CacheScope, KeyScope
<1>6. CASE n \notin DOMAIN it.keys
  BY <1>1, <1>2, <1>4, <1>6 DEF CacheScope, KeyScope
<1> QED
  BY <1>5, <1>6

LEMMA KeysInit == Init => KeysNested
  BY EmptyFacts DEF Init, KeysNested, Held

\* The key of a value that is made.
LEMMA MadeKey ==
    ASSUME Types, pos \in 1..N, NEW x, NEW d, MadeBy(x, d)
    PROVE  /\ x.key = [scope |-> x.scope, name |-> x.key.name, base |-> x.key.base, inst |-> x.inst,
                       par |-> x.key.par]
           /\ x.key.name = d.name /\ x.key.par = ParOf(Item, d.name)
           /\ x.scope = "session" =>
                 x.inst = IF x.key.par = "none" THEN SessionInstance ELSE <<x.key.name, x.key.par>>
<1>1. PICK par : par = ParOf(Item, d.name)
  OBVIOUS
<1>2. x.key = [scope |-> x.scope, name |-> d.name, base |-> d.base, inst |-> x.inst, par |-> par]
  BY <1>1 DEF MadeBy, CacheKey, ParOf
<1>3. x.key.name = d.name /\ x.key.par = par /\ x.key.base = d.base
  BY <1>2
<1>4. par = "none" <=> d.name \notin DOMAIN Item.par
  BY <1>1, RunFacts DEF ParOf, Types, Item
<1>5. x.scope = "session" => x.inst = IF par = "none" THEN SessionInstance ELSE <<d.name, par>>
  BY <1>1, <1>4 DEF MadeBy, CacheInstance, ParOf
<1> QED
  BY <1>1, <1>2, <1>3, <1>5

LEMMA MadeBinds ==
    ASSUME Types, pos \in 1..N, NEW k \in 1..Len(Defs), NEW b \in Binds(Defs[k])
    PROVE  /\ b = [scope |-> b.scope, inst |-> b.inst, name |-> b.name, val |-> b.val]
           /\ b.scope \in {"class", "module", "package"} /\ BoundAt(b, pos)
           /\ b.name \in Given(Item) /\ KeyScope(Item, b.name) = b.scope
<1>1. Binds(Defs[k]) = Bindings(Defs, Defs[k], Item)
  BY BindsFacts DEF Types
<1>2. PICK n : n \in DOMAIN Item.keys /\ Item.keys[n] # "session" /\ b = BindingAt(Item, n)
  BY <1>1 DEF Bindings
<1>3. PICK s : s = Item.keys[n]
  OBVIOUS
<1>4. PICK inst : inst = InstanceAt(Item, s)
  OBVIOUS
<1>5. PICK v : v = ParamValue(Item, n)
  OBVIOUS
<1>6. b = [scope |-> s, inst |-> inst, name |-> n, val |-> v]
  BY <1>2, <1>3, <1>4, <1>5 DEF BindingAt
<1>7. s \in Scopes \ {"function", "session"}
  BY <1>2, <1>3, RunFacts DEF Types, Item
<1>8. s \in {"class", "module", "package"}
  BY <1>7 DEF Scopes, Rank
<1>9. b.scope = s /\ b.inst = inst /\ b.name = n /\ b.val = v
  BY <1>6
<1>10. n \in Given(Item) /\ KeyScope(Item, n) = s
  BY <1>2, <1>3 DEF Given, KeyScope
<1>11. BoundAt(b, pos)
  BY <1>4, <1>5, <1>9 DEF BoundAt, Item
<1> QED
  BY <1>6, <1>8, <1>9, <1>10, <1>11

LEMMA MadeKept ==
    ASSUME Types, pos \in 1..N, pc \in {"early", "resolve"}, NEW x, NEW d, MadeBy(x, d),
           ParamsFit, x.scope \in Torn
    PROVE  /\ x.key.par # "none" => BindingOf(x) \in x.binds
           /\ \A b \in x.binds : BindKept(x, b)
<1>3. PICK k \in 1..Len(Defs) : d = Defs[k]
  BY DEF MadeBy
<1>9. Binds(d) = Bindings(Defs, d, Item) /\ x.binds = Binds(d)
  BY <1>3, BindsFacts DEF Types, MadeBy
<1>11. ASSUME NEW b \in x.binds PROVE BindKept(x, b)
  <2>1. b \in Binds(Defs[k])
    BY <1>3, <1>9
  <2>2. /\ b = [scope |-> b.scope, inst |-> b.inst, name |-> b.name, val |-> b.val]
        /\ b.scope \in {"class", "module", "package"} /\ BoundAt(b, pos)
        /\ b.name \in Given(Items[pos]) /\ KeyScope(Items[pos], b.name) = b.scope
    BY <2>1, MadeBinds DEF Item
  <2> QED
    BY <2>2 DEF BindKept
<1>12. ASSUME x.key.par # "none" PROVE BindingOf(x) \in x.binds
  <2> DEFINE n == d.name
  <2>1. x.key.name = n /\ x.key.par = ParOf(Item, n)
    BY MadeKey
  <2>2. n \in DOMAIN Item.par /\ x.key.par = Item.par[n] /\ Item = Items[pos]
    BY <1>12, <2>1 DEF ParOf, Item
  <2>4. x.scope \notin {"function", "session"}
    BY DEF Torn
  <2>5. n \in DOMAIN Item.keys /\ Item.keys[n] = x.scope
    BY <1>3, <2>2, <2>4, ParamScope DEF MadeBy, Types
  <2>6. ParamValue(Item, n) = x.key.par
    BY <2>2 DEF ParamValue
  <2>7. x.inst = InstanceAt(Item, x.scope)
    BY <2>4 DEF MadeBy, CacheInstance
  <2>8. BindingAt(Item, n) \in Bindings(Defs, d, Item)
    BY <2>4, <2>5, OwnArgname DEF Bindings
  <2>9. BindingAt(Item, n) = BindingOf(x)
    BY <2>1, <2>5, <2>6, <2>7 DEF BindingAt, BindingOf
  <2> QED
    BY <1>9, <2>8, <2>9
<1> QED
  BY <1>11, <1>12

\* A parametrization that ends between two items of a node takes down what
\* carries it; a node that ends takes down what is kept for it.
LEMMA PickGoing ==
    ASSUME Types, Nested, Pick, pc' = "between", Local, ParamsFit, pos > 1,
           NEW x, x \in Held, x.scope \in Torn, ~OfParent(x),
           NEW b, Carries(x, b), BindKept(x, b), ~BoundAt(b, pos)
    PROVE  Going(x)'
<1> DEFINE prev == Items[pos - 1]
           it == Items[pos]
           n == b.name
           s == b.scope
<1>1. /\ pc = "pick" /\ pos - 1 \in 1..N /\ pos \in 1..N
      /\ x.scope \in {"class", "module", "package"} /\ s \in {"class", "module", "package"}
  BY RunFacts DEF Pick, Leaves, Types, ControlOK, Torn, BindKept
<1>2. HomeAt(x, pos - 1) /\ BoundAt(b, pos - 1) /\ IsTorn(x)
  BY <1>1 DEF Nested, HomeOK, TornHome, BindKept, IsTorn
<1>3. CASE ~HomeAt(x, pos)
  <2>1. Due(x)'
    BY <1>1, <1>2, <1>3, PickDue
  <2>2. PICK k \in 1..Len(agenda') : agenda'[k] = ScopeTask(x.scope, x.inst)
    BY <2>1 DEF Due
  <2> QED
    BY <2>2, ScopeTaskFacts DEF Going
<1>4. CASE HomeAt(x, pos)
  <2>1. InstanceAt(prev, x.scope) = InstanceAt(it, x.scope)
    BY <1>2, <1>4 DEF HomeAt
  <2>2. InstanceAt(prev, s) = InstanceAt(it, s)
    BY <1>1, <2>1, NodesNest DEF Types, Carries
  <2>3. b.inst = InstanceAt(prev, s) /\ ParamValue(prev, n) = b.val
    BY <1>2 DEF BoundAt
  <2>4. ParamValue(it, n) # b.val
    BY <2>2, <2>3 DEF BoundAt
  <2>5. n \in DOMAIN prev.keys /\ prev.keys[n] = s
    <3>1. n \in Given(prev)
      BY <2>3 DEF ParamValue, Given, Carries
    <3>2. PICK j \in 1..N : n \in Given(Items[j]) /\ KeyScope(Items[j], n) = s
      BY DEF BindKept
    <3>3. KeyScope(prev, n) = s
      BY <1>1, <3>1, <3>2 DEF ParamsFit
    <3> QED
      BY <1>1, <3>3 DEF KeyScope
  <2>6. b \in EndedParamBindings(prev, it, s)
    <3>1. b = [scope |-> s, inst |-> InstanceAt(prev, s), name |-> n, val |-> ParamValue(prev, n)]
      BY <2>3 DEF BindKept
    <3>2. ~(ParamValue(it, n) # "none" /\ ParamValue(it, n) = ParamValue(prev, n))
      BY <2>3, <2>4
    <3> QED
      BY <2>2, <2>5, <3>1, <3>2 DEF EndedParamBindings
  <2>7. PICK t : t = Boundary(s, prev, it)
    OBVIOUS
  <2>8. t = EndedTask(EndedParamBindings(prev, it, s))
    BY <2>2, <2>7 DEF Boundary
  <2>9. Matches(t, x)
    BY <2>6, <2>8 DEF Matches, EndedTask, Carries
  <2>10. \E k \in 1..Len(agenda') : agenda'[k] = t
    <3>1. PICK c : c = Boundary("class", prev, it)
      OBVIOUS
    <3>2. PICK m : m = Boundary("module", prev, it)
      OBVIOUS
    <3>3. PICK p : p = Boundary("package", prev, it)
      OBVIOUS
    <3>4. PICK h : h = IF prev.parent # it.parent THEN PackageTask(prev) ELSE EndedTask({})
      OBVIOUS
    <3>5. agenda' = <<c, m, p, h>>
      BY <3>1, <3>2, <3>3, <3>4 DEF Pick, LocalBoundary, Item
    <3>6. Len(agenda') = 4 /\ agenda'[1] = c /\ agenda'[2] = m /\ agenda'[3] = p
      BY <3>5
    <3>7. t \in {c, m, p}
      BY <1>1, <2>7, <3>1, <3>2, <3>3
    <3> QED
      BY <3>6, <3>7
  <2> QED
    BY <2>9, <2>10 DEF Going, Matches
<1> QED
  BY <1>3, <1>4

\* What goes still goes after another teardown.
LEMMA GoingStays ==
    ASSUME Types, EndTask, NEW x, ~Matches(agenda[1], x), Going(x)
    PROVE  Going(x)'
<1>1. PICK k \in 1..Len(agenda) : Matches(agenda[k], x)
  BY DEF Going
<1>2. Len(agenda) \in Nat /\ k # 1
  BY <1>1, SeqFacts DEF Types, ControlOK
<1>3. k - 1 \in 1..Len(agenda') /\ k - 1 \in 1..Len(agenda) - 1 /\ k - 1 + 1 = k
  BY <1>2, EndTaskFacts
<1>4. agenda'[k - 1] = agenda[k]
  BY <1>3, EndTaskFacts
<1> QED
  BY <1>1, <1>3, <1>4 DEF Going, Matches

\* The steps that leave a value that is held where it is.
LEMMA HeldSame ==
    ASSUME Types, [Next]_vars, NEW x \in Held'
    PROVE  \/ x \in Held /\ (EndTask => ~Matches(agenda[1], x))
           \/ EnsureXunit /\ x = Xid(XunitFirst) /\ XunitFirst \in XunitTodo
           \/ Execute /\ \E d : MadeBy(x, d)
<1> USE DEF hooks, counts, work
<1>1. CASE RunFinalizer \/ EndTask \/ BeginSetup \/ EnsureXunit
  <2>1. ~(RunFinalizer /\ EndTask) /\ ~(BeginSetup /\ EndTask) /\ ~(EnsureXunit /\ EndTask)
    <3>1. RunFinalizer => ~EndTask
      BY DEF RunFinalizer, EndTask
    <3>2. EndTask => pc \in {"between", "teardown", "params", "final"}
      BY DEF EndTask, Types, ControlOK
    <3> QED
      BY <3>1, <3>2 DEF BeginSetup, EnsureXunit
  <2> QED
    BY <1>1, <2>1, HeldSteps
<1>2. CASE Execute
  <2>1. ~EndTask
    BY <1>2, ExecuteFacts DEF EndTask, Types, ControlOK
  <2> QED
    BY <1>2, <2>1, HeldExecute
<1>3. CASE Pick \/ Start \/ Resolve \/ SetupDone \/ Call \/ EndItem \/ After \/ NextItem \/ Finish
           \/ UNCHANGED vars
  <2>1. UNCHANGED <<pend, cache>>
    BY <1>3 DEF Pick, Start, Resolve, SetupDone, Call, EndItem, After, NextItem, Finish, vars
  <2>2. CASE EndTask
    BY <2>2, HeldSteps
  <2> QED
    BY <2>1, <2>2, HeldSteps
<1> QED
  BY <1>1, <1>2, <1>3 DEF Next

\* What carries a parametrization is kept as long as it lasts.
LEMMA BindStays ==
    ASSUME Types, Nested, [Next]_vars, Local, ParamsFit, NEW x \in Held, EndTask => ~Matches(agenda[1], x),
           x.scope \in Torn, ~OfParent(x), NEW b, Carries(x, b), BindKept(x, b)
    PROVE  BindKept(x, b)'
<1>1. /\ run' = run /\ Items' = Items /\ N' = N
      /\ N \in Nat /\ pos \in 1..N + 1 /\ (pc \notin {"pick", "final", "done"} => pos <= N) /\ pc \in Pcs
  BY ControlSteps, SameRun, RunFacts DEF Types, ControlOK
<1>2. \A i : BoundAt(b, i)' <=> BoundAt(b, i)
  BY <1>1 DEF BoundAt
<1>3. /\ b = [scope |-> b.scope, inst |-> b.inst, name |-> b.name, val |-> b.val]
      /\ b.scope \in {"class", "module", "package"}
      /\ \E j \in 1..N : b.name \in Given(Items[j]) /\ KeyScope(Items[j], b.name) = b.scope
  BY DEF BindKept
<1>4. SUFFICES /\ pc' \in AtItem => BoundAt(b, pos')
               /\ pc' = "pick" => BoundAt(b, pos' - 1)
               /\ pc' = "between" => BoundAt(b, pos' - 1) /\ (BoundAt(b, pos') \/ Going(x)')
  BY <1>1, <1>3 DEF BindKept, BoundAt
<1>5. CASE pc \in AtItem
  <2>1. \/ pc' \in AtItem /\ pos' = pos
        \/ pc' \in {"pick", "final"} /\ pos' = pos + 1 /\ pos' - 1 = pos
    BY <1>1, <1>5, ControlSteps
  <2> QED
    BY <1>5, <2>1 DEF BindKept, AtItem
<1>6. CASE pc = "pick"
  <2>1. pc' \in {"pick", "between", "final"} /\ pos' = pos
    BY <1>6, ControlSteps
  <2>2. ASSUME pc' = "between", ~BoundAt(b, pos) PROVE Going(x)'
    <3>1. Pick
      BY <1>6, <2>2 DEF Next, Pick, RunFinalizer, EndTask, Start, BeginSetup, EnsureXunit, Resolve,
                        Resolving, Execute, SetupDone, Call, EndItem, After, NextItem, Finish, vars
    <3>2. pos > 1
      BY <1>6 DEF Nested, HomeOK, TornHome, IsTorn
    <3> QED
      BY <2>2, <3>1, <3>2, PickGoing
  <2> QED
    BY <1>6, <2>1, <2>2 DEF BindKept, AtItem
<1>7. CASE pc = "between"
  <2>1. pc' \in {"between", "setup", "after"} /\ pos' = pos
    BY <1>7, ControlSteps
  <2>2. Going(x) => Going(x)' \/ pc' # "between"
    <3>1. CASE EndTask
      BY <3>1, GoingStays
    <3>2. CASE RunFinalizer \/ UNCHANGED vars
      BY <3>2 DEF RunFinalizer, vars, Going
    <3>3. CASE Start
      BY <3>3 DEF Start
    <3>4. CASE ~EndTask /\ ~RunFinalizer /\ ~Start /\ ~UNCHANGED vars
      BY <1>7, <3>4 DEF Next, Pick, BeginSetup, EnsureXunit, Resolve, Resolving, Execute,
                        SetupDone, Call, EndItem, After, NextItem, Finish
    <3> QED
      BY <3>1, <3>2, <3>3, <3>4
  <2>3. pc' # "between" => ~Going(x)
    <3> SUFFICES ASSUME pc' # "between" PROVE agenda = <<>>
      BY EmptyFacts DEF Going
    <3> QED
      BY <1>7 DEF Next, Pick, RunFinalizer, EndTask, Start, BeginSetup, EnsureXunit, Resolve,
                  Resolving, Execute, SetupDone, Call, EndItem, After, NextItem, Finish, vars
  <2> QED
    BY <1>7, <2>1, <2>2, <2>3 DEF BindKept, AtItem
<1>8. CASE pc \in {"final", "done"}
  BY <1>8, ControlSteps DEF AtItem
<1> QED
  BY <1>1, <1>5, <1>6, <1>7, <1>8 DEF Pcs, AtItem

LEMMA KeysStep == Types /\ Nested /\ KeysNested /\ [Next]_vars => KeysNested'
<1> SUFFICES ASSUME Types, Nested, KeysNested, [Next]_vars, NEW x \in Held' PROVE KeyHome(x)'
  BY DEF KeysNested
<1>1. /\ run' = run /\ Items' = Items /\ N' = N /\ Defs' = Defs /\ Local' = Local /\ Torn' = Torn
      /\ Item = Items[pos]
      /\ N \in Nat /\ pos \in 1..N + 1 /\ (pc \notin {"pick", "final", "done"} => pos <= N) /\ pc \in Pcs
  <2>1. run' = run
    BY ControlSteps
  <2>2. N \in Nat /\ pos \in 1..N + 1 /\ (pc \notin {"pick", "final", "done"} => pos <= N) /\ pc \in Pcs
    BY RunFacts DEF Types, ControlOK
  <2> QED
    BY <2>1, <2>2, SameRun DEF Item, Torn
<1>2. (ParamsFit' <=> ParamsFit) /\ (OfParent(x)' <=> OfParent(x))
  BY <1>1 DEF ParamsFit, OfParent, ParentNodes
<1>3. CASE x \in Held /\ (EndTask => ~Matches(agenda[1], x))
  <2>1. KeyHome(x) /\ HomeOK(x)
    BY <1>3 DEF KeysNested, Nested
  <2>2. x.scope = "function" => (x.key.par = ParOf(Items[pos], x.key.name))'
    <3>1. SUFFICES ASSUME x.scope = "function" PROVE pos' = pos
      BY <1>1, <2>1 DEF KeyHome, ParOf
    <3>2. pc \in {"early", "resolve", "call", "teardown"}
      BY <2>1, <3>1 DEF HomeOK, FunctionHome
    <3>3. Nested'
      BY NestedStep
    <3>4. pc' \in {"early", "resolve", "call", "teardown"}
      BY <3>1, <3>3 DEF Nested, HomeOK, FunctionHome
    <3> QED
      BY <3>2, <3>4, ControlSteps DEF AtItem
  <2>3. ASSUME Local, ParamsFit, x.scope \in Torn, NEW b, Carries(x, b) PROVE BindKept(x, b)'
    <3>1. BindKept(x, b)
      BY <2>1, <2>3 DEF KeyHome
    <3>2. ~OfParent(x)
      BY <2>1, <2>3 DEF KeyHome, Carries
    <3> QED
      BY <1>3, <2>3, <3>1, <3>2, BindStays
  <2> QED
    BY <1>1, <1>2, <2>1, <2>2, <2>3 DEF KeyHome, Carries, BindingOf
<1>4. CASE EnsureXunit /\ x = Xid(XunitFirst) /\ XunitFirst \in XunitTodo
  <2>1. PICK m : m = XunitFirst
    OBVIOUS
  <2>2. x.key = [scope |-> "module", name |-> "xunit", base |-> m, inst |-> <<m>>, par |-> "none"]
    BY <1>4, <2>1 DEF Xid
  <2>3. x.scope = "module" /\ x.inst = <<m>> /\ x.binds = {}
    BY <1>4, <2>1 DEF Xid
  <2>4. x.key.name = "xunit" /\ x.key.par = "none"
    BY <2>2
  <2> QED
    BY <2>2, <2>3, <2>4 DEF KeyHome, Carries
<1>5. CASE Execute /\ \E d : MadeBy(x, d)
  <2>1. PICK d : MadeBy(x, d)
    BY <1>5
  <2>2. pos' = pos /\ pos \in 1..N /\ pc \in {"early", "resolve"} /\ pc' \in AtItem
    BY <1>1, <1>5, ExecuteFacts, ControlSteps DEF AtItem
  <2>3. ASSUME ParamsFit, x.scope \in Torn
        PROVE  /\ x.key.par # "none" => BindingOf(x) \in x.binds
               /\ \A b \in x.binds : BindKept(x, b)'
    <3>1. /\ x.key.par # "none" => BindingOf(x) \in x.binds
          /\ \A b \in x.binds : BindKept(x, b)
      BY <2>1, <2>2, <2>3, MadeKept
    <3> QED
      BY <1>1, <2>2, <3>1 DEF BindKept, BoundAt, AtItem
  <2>4. ~OfParent(x)
    BY <2>1, <2>2, MadeNode
  <2>5. \A b \in x.binds : b.scope # "session"
    <3>1. PICK k \in 1..Len(Defs) : d = Defs[k]
      BY <2>1 DEF MadeBy
    <3> QED
      BY <2>1, <2>2, <3>1, MadeBinds DEF MadeBy
  <2> QED
    BY <1>1, <1>2, <2>1, <2>2, <2>3, <2>4, <2>5, MadeKey DEF KeyHome, ParOf, Carries, BindingOf
<1> QED
  BY <1>3, <1>4, <1>5, HeldSame

\* A value for a parameter is there for the parameter the item has.
LEMMA ParamKept ==
    ASSUME Local, ParamsFit, pc \in AtItem, NEW x, KeyHome(x), x.scope \in Torn, x.key.par # "none"
    PROVE  ParamValue(Items[pos], x.key.name) = x.key.par
<1>1. PICK b : b = BindingOf(x)
  OBVIOUS
<1>2. b.scope = x.scope /\ b.name = x.key.name /\ b.val = x.key.par
  BY <1>1 DEF BindingOf
<1>3. ~Wider(x.scope, x.scope)
  BY DEF Wider, Rank, Torn
<1>4. Carries(x, b)
  BY <1>1, <1>2, <1>3 DEF Carries, KeyHome
<1>5. BoundAt(b, pos)
  BY <1>4 DEF KeyHome, BindKept
<1> QED
  BY <1>2, <1>5 DEF BoundAt

LEMMA KeysInvariant == Spec => []KeysNested
  BY TypesInvariant, NestedInvariant, KeysInit, KeysStep, PTL DEF Spec
---------------------------------------------------------------------------
(* A pending value is cached, under a key of its own; a fixture that is    *)
(* being resolved is not.                                                  *)
BackedBy(c, p) == c.key = p.key /\ c.binds = p.binds /\ ~c.err
Backed == \A i \in 1..Len(pend) : pend[i].key.name = "xunit" \/ \E c \in cache : BackedBy(c, pend[i])

Fresh == \A f \in 1..Len(frames) :
    /\ pc \in {"early", "resolve"}
    /\ \A c \in cache : c.key # CacheKey(frames[f].def, Item)
    /\ \A g \in 1..Len(frames) : frames[f].def = frames[g].def => f = g

KeptOnce == OneDefPerBase => Backed /\ Fresh

\* What a request adds to the fixtures being resolved.
LEMMA RequestSteps ==
    ASSUME Types, Resolve
    PROVE  /\ UNCHANGED <<cache, pend, pos, run>>
           /\ \/ frames' = <<>>
              \/ /\ pc' = pc /\ Len(frames') = Len(frames)
                 /\ \A f \in 1..Len(frames) : frames'[f].def = frames[f].def
              \/ /\ pc' = pc /\ Len(frames') = Len(frames) + 1
                 /\ \A f \in 1..Len(frames) : frames'[f].def = frames[f].def
                 /\ LET d == frames'[Len(frames) + 1].def
                    IN  Hits(d) = {} /\ \A f \in 1..Len(frames) : frames[f].def # d
<1>0. UNCHANGED <<cache, pend, pos, run>>
  BY DEF Resolve
<1>1. CASE Abort
  BY <1>0, <1>1 DEF Abort
<1>2. CASE SameFrames(frames') /\ UNCHANGED <<bad, pc, agenda, got>>
  BY <1>0, <1>2 DEF SameFrames
<1>3. ASSUME NEW d, NEW fs, Asked(d, fs)
      PROVE  \/ /\ pc' = pc /\ Len(frames') = Len(frames)
                /\ \A f \in 1..Len(frames) : frames'[f].def = frames[f].def
             \/ /\ pc' = pc /\ Len(frames') = Len(frames) + 1
                /\ \A f \in 1..Len(frames) : frames'[f].def = frames[f].def
                /\ frames'[Len(frames) + 1].def = d /\ Hits(d) = {}
                /\ \A f \in 1..Len(frames) : frames[f].def # d
  <2>1. IsSeq(fs) /\ Len(fs) = Len(frames) /\ \A f \in 1..Len(frames) : IsFrame(fs[f]) /\ fs[f].def = frames[f].def
    BY <1>3 DEF Asked, SameFrames
  <2>2. pc' = pc
    BY <1>3 DEF Asked
  <2>3. CASE HandOver(fs, UNION {c.res : c \in Hits(d)})
    <3>1. \A f \in 1..Len(fs) : IsFrame(fs[f])
      BY <2>1
    <3>2. PICK rs : rs = UNION {c.res : c \in Hits(d)}
      OBVIOUS
    <3>3. HandOver(fs, rs)
      BY <2>3, <3>2
    <3>4. Len(frames') = Len(fs) /\ \A f \in 1..Len(fs) : frames'[f].def = fs[f].def
      BY <2>1, <3>1, <3>3, HandOverFacts
    <3> QED
      BY <2>1, <2>2, <3>4
  <2>4. CASE Hits(d) = {} /\ frames' = Append(fs, Frame(d))
    <3>1. PICK e : e = Frame(d)
      OBVIOUS
    <3>2. e.def = d
      BY <3>1 DEF Frame
    <3>3. frames' = Append(fs, e)
      BY <2>4, <3>1
    <3>4. Len(frames') = Len(fs) + 1 /\ frames'[Len(fs) + 1] = e
      BY <2>1, <3>3, AppendFacts
    <3>5. \A f \in 1..Len(fs) : frames'[f] = fs[f]
      BY <2>1, <3>3, AppendFacts
    <3>6. \A f \in 1..Len(frames) : frames[f].def # d
      BY <1>3 DEF Asked
    <3> QED
      BY <2>1, <2>2, <2>4, <3>2, <3>4, <3>5, <3>6
  <2> QED
    BY <1>3, <2>3, <2>4 DEF Asked
<1>4. ASSUME NEW n, NEW fs, AskedArgument(n, fs)
      PROVE  /\ pc' = pc /\ Len(frames') = Len(frames)
             /\ \A f \in 1..Len(frames) : frames'[f].def = frames[f].def
  <2>1. IsSeq(fs) /\ Len(fs) = Len(frames) /\ \A f \in 1..Len(frames) : IsFrame(fs[f]) /\ fs[f].def = frames[f].def
    BY <1>4 DEF AskedArgument, SameFrames
  <2>2. \A f \in 1..Len(fs) : IsFrame(fs[f])
    BY <2>1
  <2>3. PICK rs : rs = {ArgumentValue(n)}
    OBVIOUS
  <2>4. HandOver(fs, rs) /\ pc' = pc
    BY <1>4, <2>3 DEF AskedArgument
  <2>5. Len(frames') = Len(fs) /\ \A f \in 1..Len(fs) : frames'[f].def = fs[f].def
    BY <2>1, <2>2, <2>4, HandOverFacts
  <2> QED
    BY <2>1, <2>4, <2>5
<1> QED
  BY <1>0, <1>1, <1>2, <1>3, <1>4, ResolveFacts

\* What the end of a fixture's body does to them and to the cache.
LEMMA BodySteps ==
    ASSUME Types, Execute
    PROVE  /\ pc \in {"early", "resolve"} /\ UNCHANGED <<pos, run>> /\ Len(frames) \in Nat /\ Len(frames) >= 1
           /\ \/ frames' = <<>>
              \/ /\ pc' = pc /\ Len(frames') = Len(frames) - 1
                 /\ \A f \in 1..Len(frames) - 1 : frames'[f].def = frames[f].def
           /\ \E d : /\ d = frames[Len(frames)].def
                     /\ \A c \in cache : c.key # CacheKey(d, Item) => c \in cache'
                     /\ \A c \in cache' : c \in cache \/ c.key = CacheKey(d, Item)
                     /\ \/ pend' = pend
                        \/ \E p : /\ pend' = Append(pend, p) /\ p.key = CacheKey(d, Item)
                                  /\ \E c \in cache' : BackedBy(c, p)
<1>0. Len(frames) \in Nat /\ Len(frames) >= 1 /\ pc \in {"early", "resolve"} /\ UNCHANGED <<pos, run>>
  BY ExecuteFacts, SeqFacts DEF Types, FramesOK
<1>1. PICK d, rs :
        /\ d = frames[Len(frames)].def
        /\ ExecutedPlain(d, rs) \/ ExecutedYield(d, rs) \/ ExecutedFault(d)
  BY ExecuteFacts
<1>2. \/ frames' = <<>>
      \/ /\ pc' = pc /\ Len(frames') = Len(frames) - 1
         /\ \A f \in 1..Len(frames) - 1 : frames'[f].def = frames[f].def
  <2>1. CASE ExecutedFault(d)
    BY <2>1 DEF ExecutedFault, Abort
  <2>2. ASSUME NEW all, Stores(d, all)
        PROVE  /\ pc' = pc /\ Len(frames') = Len(frames) - 1
               /\ \A f \in 1..Len(frames) - 1 : frames'[f].def = frames[f].def
    <3>1. PICK fs : fs = Front(frames)
      OBVIOUS
    <3>2. IsSeq(frames) /\ frames # <<>> /\ \A f \in 1..Len(frames) : IsFrame(frames[f])
      BY ExecuteFacts DEF Types, FramesOK
    <3>3. IsSeq(fs) /\ Len(fs) = Len(frames) - 1
      BY <3>1, <3>2, FrontFacts
    <3>4. \A f \in 1..Len(frames) - 1 : fs[f] = frames[f]
      BY <3>1, <3>2, FrontFacts
    <3>5. \A f \in 1..Len(fs) : IsFrame(fs[f])
      BY <1>0, <3>2, <3>3, <3>4
    <3>6. HandOver(fs, all)
      BY <2>2, <3>1 DEF Stores
    <3>7. Len(frames') = Len(fs) /\ \A f \in 1..Len(fs) : frames'[f].def = fs[f].def
      BY <3>3, <3>5, <3>6, HandOverFacts
    <3> QED
      BY <2>2, <3>3, <3>4, <3>7 DEF Stores
  <2> QED
    BY <1>1, <2>1, <2>2 DEF ExecutedPlain, ExecutedYield
<1>3. PICK key : key = CacheKey(d, Item)
  OBVIOUS
<1>4. \A err, rr : EntryOf(d, err, rr).key = key /\ EntryOf(d, err, rr).binds = Binds(d)
                   /\ EntryOf(d, err, rr).err = err
  BY <1>3 DEF EntryOf
<1>5. \A e : e.key = key =>
         /\ \A c \in cache : c.key # key => c \in Stored(e)
         /\ \A c \in Stored(e) : c \in cache \/ c.key = key
         /\ e \in Stored(e)
  BY DEF Stored
<1>6. /\ \A c \in cache : c.key # key => c \in cache'
      /\ \A c \in cache' : c \in cache \/ c.key = key
  <2>1. cache' = cache \/ \E err, rr : cache' = Stored(EntryOf(d, err, rr))
    BY <1>1 DEF ExecutedPlain, ExecutedYield, ExecutedFault, Stores
  <2> QED
    BY <1>4, <1>5, <2>1
<1>7. \/ pend' = pend
      \/ \E p : /\ pend' = Append(pend, p) /\ p.key = key
                /\ \E c \in cache' : BackedBy(c, p)
  <2>1. CASE ExecutedYield(d, rs)
    <3>1. PICK e : e = EntryOf(d, FALSE, rs \cup {Own(d)})
      OBVIOUS
    <3>2. PICK p : p = PendingOf(d, rs)
      OBVIOUS
    <3>3. p.key = key /\ p.binds = Binds(d) /\ pend' = Append(pend, p)
      BY <1>3, <2>1, <3>2 DEF PendingOf, ExecutedYield
    <3>4. e \in cache' /\ e.key = key /\ e.binds = Binds(d) /\ e.err = FALSE
      BY <1>4, <1>5, <2>1, <3>1 DEF ExecutedYield, Stores
    <3> QED
      BY <3>3, <3>4 DEF BackedBy
  <2> QED
    BY <1>1, <2>1 DEF ExecutedPlain, ExecutedFault
<1> QED
  BY <1>0, <1>1, <1>2, <1>3, <1>6, <1>7

LEMMA FramesEmpty ==
    ASSUME Types, Fresh, [Next]_vars, ~Resolve, ~Execute, ~UNCHANGED vars
    PROVE  frames' = <<>>
<1> USE DEF hooks, counts, work
<1>1. frames = <<>> \/ pc \in {"early", "resolve"}
  <2>1. frames # <<>> => Len(frames) \in Nat /\ Len(frames) >= 1
    BY SeqFacts DEF Types, FramesOK
  <2>2. frames # <<>> => 1 \in 1..Len(frames)
    BY <2>1
  <2> QED
    BY <2>2 DEF Fresh
<1>2. agenda # <<>> => pc \notin {"early", "resolve"}
  BY DEF Types, ControlOK
<1>3. EnsureXunit => frames' = <<>>
  BY EnsureXunitFacts DEF Abort, XunitGoesOn
<1> QED
  BY <1>1, <1>2, <1>3 DEF Next, Pick, RunFinalizer, EndTask, Start, BeginSetup, Abort, SetupDone,
     Call, EndItem, After, NextItem, Finish

LEMMA FreshStep ==
    ASSUME Types, OneDefPerBase, Fresh, [Next]_vars
    PROVE  Fresh'
<1>1. run' = run /\ Items' = Items /\ Defs' = Defs
  BY ControlSteps, SameRun
<1>2. IsSeq(frames) /\ Len(frames) \in Nat
  BY SeqFacts DEF Types, FramesOK
<1>3. frames' = <<>> => Fresh'
  BY EmptyFacts DEF Fresh
<1>4. CASE Resolve /\ frames' # <<>>
  <2>1. pc' = pc /\ UNCHANGED <<cache, pos>> /\ Item' = Item
    BY <1>1, <1>4, RequestSteps DEF Item
  <2>2. CASE /\ Len(frames') = Len(frames)
             /\ \A f \in 1..Len(frames) : frames'[f].def = frames[f].def
    BY <2>1, <2>2 DEF Fresh
  <2>3. ASSUME NEW d, Len(frames') = Len(frames) + 1,
               \A f \in 1..Len(frames) : frames'[f].def = frames[f].def,
               frames'[Len(frames) + 1].def = d, Hits(d) = {}, \A f \in 1..Len(frames) : frames[f].def # d
        PROVE  Fresh'
    <3>1. \A c \in cache : c.key # CacheKey(d, Item)
      BY <2>3 DEF Hits
    <3>2. pc \in {"early", "resolve"}
      BY <1>4 DEF Resolve, Resolving
    <3>3. ASSUME NEW f \in 1..Len(frames') PROVE \A c \in cache' : c.key # CacheKey(frames'[f].def, Item)
      BY <1>2, <2>1, <2>3, <3>1, <3>3 DEF Fresh
    <3>4. ASSUME NEW f \in 1..Len(frames'), NEW g \in 1..Len(frames'), frames'[f].def = frames'[g].def
          PROVE  f = g
      BY <1>2, <2>3, <3>4 DEF Fresh
    <3> QED
      BY <2>1, <3>2, <3>3, <3>4 DEF Fresh
  <2> QED
    BY <1>4, <2>2, <2>3, RequestSteps
<1>5. CASE Execute /\ frames' # <<>>
  <2>1. pc' = pc /\ UNCHANGED pos /\ Item' = Item /\ pc \in {"early", "resolve"}
    BY <1>1, <1>5, BodySteps DEF Item
  <2>2. /\ Len(frames') = Len(frames) - 1 /\ Len(frames) >= 1
        /\ \A f \in 1..Len(frames) - 1 : frames'[f].def = frames[f].def
    BY <1>5, BodySteps
  <2>3. PICK d : /\ d = frames[Len(frames)].def
                 /\ \A c \in cache' : c \in cache \/ c.key = CacheKey(d, Item)
    BY <1>5, BodySteps
  <2>4. ASSUME NEW f \in 1..Len(frames') PROVE \A c \in cache' : c.key # CacheKey(frames'[f].def, Item)
    <3>1. f \in 1..Len(frames) /\ f # Len(frames) /\ frames'[f].def = frames[f].def /\ Len(frames) \in 1..Len(frames)
      BY <1>2, <2>2
    <3>2. frames[f].def # d
      BY <2>3, <3>1 DEF Fresh
    <3>3. PICK k \in 1..Len(Defs) : frames[f].def = Defs[k]
      BY <3>1 DEF Types, FramesOK
    <3>4. PICK l \in 1..Len(Defs) : d = Defs[l]
      BY <2>3, <3>1 DEF Types, FramesOK
    <3>5. DOMAIN Defs = 1..Len(Defs)
      BY RunFacts DEF Types
    <3>6. ~(frames[f].def.name = d.name /\ frames[f].def.base = d.base)
      BY <3>2, <3>3, <3>4, <3>5 DEF OneDefPerBase
    <3>7. CacheKey(frames[f].def, Item) # CacheKey(d, Item)
      BY <3>6 DEF CacheKey
    <3> QED
      BY <2>3, <3>1, <3>7 DEF Fresh
  <2>5. ASSUME NEW f \in 1..Len(frames'), NEW g \in 1..Len(frames'), frames'[f].def = frames'[g].def
        PROVE  f = g
    BY <1>2, <2>2, <2>5 DEF Fresh
  <2> QED
    BY <2>1, <2>4, <2>5 DEF Fresh
<1>6. CASE UNCHANGED vars
  BY <1>1, <1>6 DEF vars, work, Fresh, Item
<1> QED
  BY <1>3, <1>4, <1>5, <1>6, FramesEmpty

LEMMA KeyFields ==
    ASSUME NEW x, KeyHome(x)
    PROVE  x.key.scope = x.scope /\ x.key.inst = x.inst
<1>1. PICK scope : scope = x.scope
  OBVIOUS
<1>2. PICK inst : inst = x.inst
  OBVIOUS
<1>3. PICK k : k = x.key
  OBVIOUS
<1>4. k = [scope |-> scope, name |-> k.name, base |-> k.base, inst |-> inst, par |-> k.par]
  BY <1>1, <1>2, <1>3 DEF KeyHome
<1>5. k.scope = scope /\ k.inst = inst
  BY <1>4
<1> QED
  BY <1>1, <1>2, <1>3, <1>5

LEMMA BackedStep ==
    ASSUME Types, KeysNested, Backed, Fresh, [Next]_vars
    PROVE  Backed'
<1>0. IsSeq(pend) /\ Len(pend) \in Nat
  BY SeqFacts DEF Types, PendOK
<1> USE DEF hooks, counts, work
<1>1. CASE UNCHANGED <<pend, cache>>
  BY <1>1 DEF Backed, BackedBy
<1>2. CASE RunFinalizer
  <2>1. PICK i \in 1..Len(pend) :
            /\ Len(pend') = Len(pend) - 1
            /\ \A j \in 1..Len(pend) - 1 : pend'[j] = IF j < i THEN pend[j] ELSE pend[j + 1]
    BY <1>2, FinalizerFacts
  <2>2. ASSUME NEW j \in 1..Len(pend') PROVE \E k \in 1..Len(pend) : pend'[j] = pend[k]
    <3>1. j \in 1..Len(pend) /\ j + 1 \in 1..Len(pend) /\ j \in 1..Len(pend) - 1
      BY <1>0, <2>1
    <3>2. pend'[j] = pend[j] \/ pend'[j] = pend[j + 1]
      BY <2>1, <3>1
    <3> QED
      BY <3>1, <3>2
  <2>3. cache' = cache
    BY <1>2 DEF RunFinalizer
  <2> QED
    BY <2>2, <2>3 DEF Backed, BackedBy
<1>3. CASE EndTask
  <2>1. /\ \A i \in 1..Len(pend) : ~Matches(agenda[1], pend[i])
        /\ cache' = {c \in cache : ~Matches(agenda[1], c)} /\ pend' = pend
    BY <1>3, EndTaskFacts
  <2>2. ASSUME NEW i \in 1..Len(pend), NEW c \in cache, BackedBy(c, pend[i]) PROVE c \in cache'
    <3>1. c \in Held /\ pend[i] \in Held
      BY DEF Held
    <3>2. c.key.scope = c.scope /\ c.key.inst = c.inst
      BY <3>1, KeyFields DEF KeysNested
    <3>3. pend[i].key.scope = pend[i].scope /\ pend[i].key.inst = pend[i].inst
      BY <3>1, KeyFields DEF KeysNested
    <3>4. c.scope = pend[i].scope /\ c.inst = pend[i].inst /\ c.binds = pend[i].binds
      BY <2>2, <3>2, <3>3 DEF BackedBy
    <3> QED
      BY <2>1, <3>4 DEF Matches
  <2> QED
    BY <2>1, <2>2 DEF Backed, BackedBy
<1>4. CASE BeginSetup
  <2>1. pend' = pend /\ \A c \in cache : ~c.err => c \in cache'
    BY <1>4 DEF BeginSetup
  <2> QED
    BY <2>1 DEF Backed, BackedBy
<1>5. CASE EnsureXunit
  <2>1. cache' = cache /\ (pend' = pend \/ pend' = Append(pend, Xid(XunitFirst)))
    BY <1>5, EnsureXunitFacts
  <2>2. CASE pend' = Append(pend, Xid(XunitFirst))
    <3>1. PICK p : p = Xid(XunitFirst)
      OBVIOUS
    <3>2. p.key.name = "xunit"
      BY <3>1 DEF Xid
    <3>3. Len(pend') = Len(pend) + 1 /\ pend'[Len(pend) + 1] = p
      BY <1>0, <2>2, <3>1, AppendFacts
    <3>4. \A i \in 1..Len(pend) : pend'[i] = pend[i]
      BY <1>0, <2>2, <3>1, AppendFacts
    <3>5. \A i \in 1..Len(pend') : i \in 1..Len(pend) \/ i = Len(pend) + 1
      BY <1>0, <3>3
    <3> QED
      BY <2>1, <3>2, <3>3, <3>4, <3>5 DEF Backed, BackedBy
  <2> QED
    BY <1>1, <2>1, <2>2
<1>6. CASE Execute
  <2>1. PICK d : /\ d = frames[Len(frames)].def
                 /\ \A c \in cache : c.key # CacheKey(d, Item) => c \in cache'
                 /\ \/ pend' = pend
                    \/ \E p : /\ pend' = Append(pend, p) /\ p.key = CacheKey(d, Item)
                              /\ \E c \in cache' : BackedBy(c, p)
    BY <1>6, BodySteps
  <2>2. Len(frames) \in 1..Len(frames)
    BY <1>6, BodySteps
  <2>3. cache \subseteq cache'
    BY <2>1, <2>2 DEF Fresh
  <2>4. CASE pend' = pend
    BY <2>3, <2>4 DEF Backed, BackedBy
  <2>5. ASSUME NEW p, pend' = Append(pend, p), \E c \in cache' : BackedBy(c, p) PROVE Backed'
    <3>3. Len(pend') = Len(pend) + 1 /\ pend'[Len(pend) + 1] = p
      BY <1>0, <2>5, AppendFacts
    <3>4. \A i \in 1..Len(pend) : pend'[i] = pend[i]
      BY <1>0, <2>5, AppendFacts
    <3>5. \A i \in 1..Len(pend') : i \in 1..Len(pend) \/ i = Len(pend) + 1
      BY <1>0, <3>3
    <3> QED
      BY <2>3, <2>5, <3>3, <3>4, <3>5 DEF Backed, BackedBy
  <2> QED
    BY <2>1, <2>4, <2>5
<1>7. CASE Pick \/ Start \/ Resolve \/ SetupDone \/ Call \/ EndItem \/ After \/ NextItem \/ Finish
           \/ UNCHANGED vars
  <2>1. UNCHANGED <<pend, cache>>
    BY <1>7 DEF Pick, Start, Resolve, SetupDone, Call, EndItem, After, NextItem, Finish, vars
  <2> QED
    BY <1>1, <2>1
<1> QED
  BY <1>2, <1>3, <1>4, <1>5, <1>6, <1>7 DEF Next

LEMMA SlotFields ==
    ASSUME NEW a, NEW b, Slot(a) = Slot(b)
    PROVE  a.scope = b.scope /\ a.name = b.name /\ a.base = b.base /\ (a.par = "none" <=> b.par = "none")
<1>1. PICK m : m = Head(a.inst)
  OBVIOUS
<1>2. PICK n : n = Head(b.inst)
  OBVIOUS
<1>3. PICK s : s = IF a.par # "none" THEN 1 ELSE 0
  OBVIOUS
<1>4. PICK x : x = Slot(a)
  OBVIOUS
<1>5. x.scope = a.scope /\ x.name = a.name /\ x.base = a.base /\ (x.given <=> a.par # "none")
  BY <1>1, <1>4 DEF Slot
<1>6. x.scope = b.scope /\ x.name = b.name /\ x.base = b.base /\ (x.given <=> b.par # "none")
  BY <1>2, <1>4 DEF Slot
<1> QED
  BY <1>5, <1>6

\* What is held in the slot of a fixture that is being resolved has its key.
LEMMA SameSlot ==
    ASSUME Types, Nested, ParamsNested, KeysNested, Local, ParamsFit, pc \in {"early", "resolve"},
           NEW x \in Held, ~OfParent(x), NEW k \in 1..Len(Defs), NEW d, d = Defs[k],
           Slot(x.key) = Slot(CacheKey(d, Item))
    PROVE  x.key = CacheKey(d, Item)
<1> DEFINE n == d.name
<1>1. PICK par : par = ParOf(Item, n)
  OBVIOUS
<1>2. PICK inst : inst = CacheInstance(d, Item)
  OBVIOUS
<1>3. PICK scope : scope = CacheScope(d, Item)
  OBVIOUS
<1>4. PICK key : key = CacheKey(d, Item)
  OBVIOUS
<1>5. key = [scope |-> scope, name |-> n, base |-> d.base, inst |-> inst, par |-> par]
  BY <1>1, <1>2, <1>3, <1>4 DEF CacheKey, ParOf
<1>6. /\ x.key.scope = scope /\ x.key.name = n /\ x.key.base = d.base
      /\ x.key.par = "none" <=> par = "none"
  BY <1>4, <1>5, SlotFields
<1>7. KeyHome(x) /\ HomeOK(x) /\ x.scope = scope
  BY <1>6, KeyFields DEF KeysNested, Nested
<1>8. Item = Items[pos] /\ pos \in 1..N /\ pc \in AtItem
  BY RunFacts DEF Types, ControlOK, AtItem, Item
<1>9. SUFFICES x.inst = inst /\ x.key.par = par
  <2>1. PICK xi : xi = x.inst
    OBVIOUS
  <2>2. PICK xk : xk = x.key
    OBVIOUS
  <2>3. xk = [scope |-> scope, name |-> xk.name, base |-> xk.base, inst |-> xi, par |-> xk.par]
    BY <1>7, <2>1, <2>2 DEF KeyHome
  <2> QED
    BY <1>4, <1>5, <1>6, <1>9, <2>1, <2>2, <2>3
<1>10. n \in DOMAIN Item.par <=> par # "none"
  BY <1>1, <1>8, RunFacts DEF ParOf, Types
<1>11. CASE scope = "function"
  <2>1. x.inst = InstanceAt(Item, "function") /\ x.key.par = ParOf(Item, n)
    BY <1>6, <1>7, <1>8, <1>11 DEF KeyHome, HomeOK, FunctionHome, HomeAt, OfParent
  <2> QED
    BY <1>1, <1>2, <1>3, <1>11, <2>1 DEF CacheInstance
<1>12. CASE scope \in Torn
  <2>1. x.inst = InstanceAt(Item, scope) /\ scope # "session"
    BY <1>7, <1>8, <1>12 DEF HomeOK, TornHome, HomeAt, Torn, IsTorn
  <2>2. inst = InstanceAt(Item, scope)
    BY <1>2, <1>3, <2>1 DEF CacheInstance
  <2>3. ASSUME par # "none" PROVE x.key.par = par
    <3>1. ParamValue(Item, n) = x.key.par
      BY <1>6, <1>7, <1>8, <1>12, <2>3, ParamKept
    <3>2. ParamValue(Item, n) = par
      BY <1>1, <1>10, <2>3 DEF ParamValue, ParOf
    <3> QED
      BY <3>1, <3>2
  <2> QED
    BY <1>6, <2>1, <2>2, <2>3
<1>13. CASE scope = "session"
  <2>1. x.inst = IF x.key.par = "none" THEN SessionInstance ELSE <<n, x.key.par>>
    BY <1>6, <1>7, <1>13 DEF KeyHome
  <2>2. inst = IF par = "none" THEN SessionInstance ELSE <<n, par>>
    BY <1>1, <1>2, <1>3, <1>10, <1>13 DEF CacheInstance, ParOf
  <2>3. ASSUME par # "none" PROVE x.key.par = par
    <3>1. PICK v : v = x.key.par
      OBVIOUS
    <3>2. x.inst = <<n, v>>
      BY <1>6, <2>1, <2>3, <3>1
    <3>3. x.inst # SessionInstance
      BY <3>2 DEF SessionInstance
    <3>4. UsedBy(x, pos)
      BY <1>7, <1>8, <1>13, <3>3 DEF ParamsNested, ParamHome
    <3>5. PICK m \in DOMAIN Items[pos].par : x.inst = <<m, Items[pos].par[m]>>
      BY <3>4 DEF UsedBy
    <3>6. PICK w : w = Items[pos].par[m]
      OBVIOUS
    <3>7. m = n /\ w = v
      BY <3>2, <3>5, <3>6
    <3> QED
      BY <1>1, <1>8, <1>10, <2>3, <3>1, <3>6, <3>7 DEF ParOf
  <2> QED
    BY <1>6, <2>1, <2>2, <2>3
<1>14. scope \in {"function", "session"} \cup Torn
  <2>1. x.scope \in Scopes
    BY <1>7 DEF HomeOK
  <2> QED
    BY <1>7, <2>1 DEF Torn, Scopes, Rank
<1> QED
  BY <1>11, <1>12, <1>13, <1>14

LEMMA OneValueStep ==
    ASSUME Types, Nested, ParamsNested, KeysNested, KeptOnce, OneValueAtATime, [Next]_vars
    PROVE  OneValueAtATime'
<1>0. IsSeq(pend) /\ Len(pend) \in Nat
  BY SeqFacts DEF Types, PendOK
<1>1. run' = run
  BY ControlSteps
<1>2. Items' = Items /\ N' = N /\ Defs' = Defs /\ Local' = Local
  BY <1>1, SameRun
<1>3. (ParamsFit' <=> ParamsFit) /\ (OneDefPerBase' <=> OneDefPerBase)
  BY <1>2 DEF ParamsFit, OneDefPerBase
<1>4. SUFFICES ASSUME Local, ParamsFit, OneDefPerBase, NEW i \in 1..Len(pend'), NEW j \in 1..Len(pend'),
                      pend'[i].key.name # "xunit", Slot(pend'[i].key) = Slot(pend'[j].key)
               PROVE  i = j
  BY <1>2, <1>3 DEF OneValueAtATime, Slot
<1>5. \A k, l \in 1..Len(pend) :
          pend[k].key.name # "xunit" /\ Slot(pend[k].key) = Slot(pend[l].key) => k = l
  BY <1>4 DEF OneValueAtATime
<1>6. pend'[j].key.name # "xunit"
  BY <1>4, SlotFields
<1> USE DEF hooks, counts, work
<1>7. CASE pend' = pend
  BY <1>4, <1>5, <1>7
<1>8. CASE RunFinalizer
  <2>1. PICK h \in 1..Len(pend) :
            /\ Len(pend') = Len(pend) - 1
            /\ \A k \in 1..Len(pend) - 1 : pend'[k] = IF k < h THEN pend[k] ELSE pend[k + 1]
    BY <1>8, FinalizerFacts
  <2>2. PICK k : k = IF i < h THEN i ELSE i + 1
    OBVIOUS
  <2>3. PICK l : l = IF j < h THEN j ELSE j + 1
    OBVIOUS
  <2>4. k \in 1..Len(pend) /\ l \in 1..Len(pend) /\ pend'[i] = pend[k] /\ pend'[j] = pend[l]
    BY <1>0, <2>1, <2>2, <2>3
  <2>5. k = l
    BY <1>4, <1>5, <2>4
  <2> QED
    BY <1>0, <2>1, <2>2, <2>3, <2>5
<1>9. ASSUME NEW p, pend' = Append(pend, p),
             p.key.name # "xunit" => \A k \in 1..Len(pend) : Slot(pend[k].key) # Slot(p.key)
      PROVE  i = j
  <2>1. Len(pend') = Len(pend) + 1 /\ pend'[Len(pend) + 1] = p
    BY <1>0, <1>9, AppendFacts
  <2>2. \A k \in 1..Len(pend) : pend'[k] = pend[k]
    BY <1>0, <1>9, AppendFacts
  <2>3. CASE i \in 1..Len(pend) /\ j \in 1..Len(pend)
    BY <1>4, <1>5, <2>2, <2>3
  <2>4. CASE i = Len(pend) + 1 /\ j \in 1..Len(pend)
    BY <1>4, <1>9, <2>1, <2>2, <2>4
  <2>5. CASE i \in 1..Len(pend) /\ j = Len(pend) + 1
    BY <1>4, <1>6, <1>9, <2>1, <2>2, <2>5
  <2> QED
    BY <1>0, <2>1, <2>3, <2>4, <2>5
<1>10. CASE EnsureXunit
  <2>1. pend' = pend \/ pend' = Append(pend, Xid(XunitFirst))
    BY <1>10, EnsureXunitFacts
  <2>2. Xid(XunitFirst).key.name = "xunit"
    BY DEF Xid
  <2> QED
    BY <1>7, <1>9, <2>1, <2>2
<1>11. CASE Execute
  <2>1. PICK d : /\ d = frames[Len(frames)].def
                 /\ \/ pend' = pend
                    \/ \E p : pend' = Append(pend, p) /\ p.key = CacheKey(d, Item)
    BY <1>11, BodySteps
  <2>2. Len(frames) \in 1..Len(frames) /\ pc \in {"early", "resolve"}
    BY <1>11, BodySteps
  <2>3. PICK k \in 1..Len(Defs) : d = Defs[k]
    BY <2>1, <2>2 DEF Types, FramesOK
  <2>4. ASSUME NEW p, pend' = Append(pend, p), p.key = CacheKey(d, Item), p.key.name # "xunit",
               NEW l \in 1..Len(pend), Slot(pend[l].key) = Slot(p.key)
        PROVE  FALSE
    <3>1. pend[l] \in Held
      BY DEF Held
    <3>2. Slot(pend[l].key) = Slot(CacheKey(d, Item))
      BY <2>4
    <3>3. pend[l].key.name # "xunit"
      BY <2>4, SlotFields
    <3>4. ~OfParent(pend[l])
      BY <3>1, <3>3 DEF KeysNested, KeyHome
    <3>5. pend[l].key = CacheKey(d, Item)
      BY <1>4, <2>2, <2>3, <3>1, <3>2, <3>4, SameSlot
    <3>6. PICK c \in cache : c.key = CacheKey(d, Item)
      BY <1>4, <3>3, <3>5 DEF KeptOnce, Backed, BackedBy
    <3> QED
      BY <1>4, <2>1, <2>2, <3>6 DEF KeptOnce, Fresh
  <2> QED
    BY <1>7, <1>9, <2>1, <2>4
<1>12. CASE Pick \/ EndTask \/ Start \/ BeginSetup \/ Resolve \/ SetupDone \/ Call \/ EndItem
           \/ After \/ NextItem \/ Finish \/ UNCHANGED vars
  <2>1. pend' = pend
    BY <1>12 DEF Pick, EndTask, Start, BeginSetup, Resolve, SetupDone, Call, EndItem, After, NextItem,
                Finish, vars
  <2> QED
    BY <1>7, <2>1
<1> QED
  BY <1>8, <1>10, <1>11, <1>12 DEF Next

LEMMA KeptOnceInvariant == Spec => []KeptOnce
<1>1. Init => KeptOnce
  BY EmptyFacts DEF Init, KeptOnce, Backed, Fresh
<1>2. Types /\ KeysNested /\ KeptOnce /\ [Next]_vars => KeptOnce'
  <2> SUFFICES ASSUME Types, KeysNested, KeptOnce, [Next]_vars, OneDefPerBase' PROVE Backed' /\ Fresh'
    BY DEF KeptOnce
  <2>1. OneDefPerBase
    BY ControlSteps, SameRun DEF OneDefPerBase
  <2> QED
    BY <2>1, FreshStep, BackedStep DEF KeptOnce
<1> QED
  BY <1>1, <1>2, TypesInvariant, KeysInvariant, PTL DEF Spec

(* Two values of one fixture for two parameters are never set up at the    *)
(* same time.  A value that is there is cached; the key of a fixture that  *)
(* is about to be set up is not; and what is kept from an earlier item was *)
(* set up for the parameter the current item has.                          *)
THEOREM RunnerOneValueAtATime == Spec => []OneValueAtATime
<1>1. Init => OneValueAtATime
  BY EmptyFacts DEF Init, OneValueAtATime
<1> QED
  BY <1>1, OneValueStep, TypesInvariant, NestedInvariant, ParamsInvariant, KeysInvariant,
     KeptOnceInvariant, PTL DEF Spec
---------------------------------------------------------------------------
(* What values rest on: the records held by the cache, by the fixtures     *)
(* that are being resolved and by the test.                                *)
InFrames(q) == \E f \in 1..Len(frames) : q \in frames[f].res
Recorded(q) == (\E c \in cache : q \in c.res) \/ InFrames(q) \/ q \in got

SameValue(q, r) ==
    /\ IsRecord(q) /\ q.id = r.id /\ q.name = r.name /\ q.par = r.par /\ q.scope = r.scope
    /\ q.moves = r.moves /\ (~q.hidden => ~r.hidden)

LEMMA RecordFacts ==
    ASSUME Types, IdsBelow(got, next), NEW r, Recorded(r)
    PROVE  IsRecord(r) /\ r.id \in Nat /\ r.id < next
<1>1. \A c \in cache : IdsBelow(c.res, next)
  BY DEF Types, CacheOK
<1>2. \A f \in 1..Len(frames) : IdsBelow(frames[f].res, next)
  BY DEF Types, FramesOK
<1> QED
  BY <1>1, <1>2 DEF IdsBelow, Recorded, InFrames

\* Handing a value over adds it to what one fixture, or the test, rests on.
LEMMA HandOverRecs ==
    ASSUME NEW fs, IsSeq(fs), \A f \in 1..Len(fs) : IsFrame(fs[f]), NEW rs, HandOver(fs, rs),
           NEW q, InFrames(q)' \/ q \in got'
    PROVE  q \in rs \/ q \in got \/ \E f \in 1..Len(fs) : q \in fs[f].res
<1>1. Len(frames') = Len(fs)
  BY HandOverFacts
<1>2. \A f \in 1..Len(fs) : frames'[f].res = IF f = Len(fs) THEN fs[f].res \cup rs ELSE fs[f].res
  BY HandOverFacts
<1>3. got' = got \/ got' = got \cup rs
  BY HandOverFacts
<1> QED
  BY <1>1, <1>2, <1>3 DEF InFrames

\* The union of a family of sets.
LEMMA UnionFacts ==
    ASSUME NEW S, NEW q
    PROVE  q \in UNION {c.res : c \in S} => \E c \in S : q \in c.res
  OBVIOUS

\* A record is passed on, or is that of a parameter of the test or of the
\* value a body returns.
LEMMA RequestRecs ==
    ASSUME Types, Resolve, NEW q, Recorded(q)'
    PROVE  Recorded(q) \/ \E n \in DOMAIN Item.direct : q = ArgumentValue(n)
<1>1. cache' = cache
  BY DEF Resolve
<1>2. Recorded(q) \/ InFrames(q)' \/ q \in got'
  BY <1>1 DEF Recorded, InFrames
<1>3. CASE Abort
  <2>1. frames' = <<>> /\ got' = {}
    BY <1>3 DEF Abort
  <2>2. ~\E f \in 1..Len(frames') : TRUE
    BY <2>1, EmptyFacts
  <2> QED
    BY <1>2, <2>1, <2>2 DEF InFrames
<1>4. ASSUME NEW fs, SameFrames(fs), NEW f \in 1..Len(fs), q \in fs[f].res PROVE Recorded(q)
  BY <1>4 DEF SameFrames, Recorded, InFrames
<1>5. CASE SameFrames(frames') /\ got' = got
  BY <1>2, <1>4, <1>5 DEF Recorded, InFrames
<1>6. ASSUME NEW d, NEW fs, Asked(d, fs) PROVE Recorded(q)
  <2>1. IsSeq(fs) /\ Len(fs) = Len(frames) /\ \A f \in 1..Len(fs) : IsFrame(fs[f])
    BY <1>6 DEF Asked, SameFrames
  <2>2. CASE Recorded(q)
    BY <2>2
  <2>3. CASE HandOver(fs, UNION {c.res : c \in Hits(d)}) /\ ~Recorded(q)
    <3>1. PICK rs : rs = UNION {c.res : c \in Hits(d)}
      OBVIOUS
    <3>2. \/ q \in rs \/ q \in got \/ \E f \in 1..Len(fs) : q \in fs[f].res
      BY <1>2, <2>1, <2>3, <3>1, HandOverRecs
    <3>3. q \in rs => Recorded(q)
      BY <3>1, UnionFacts DEF Hits, Recorded
    <3>4. q \in got => Recorded(q)
      BY DEF Recorded
    <3> QED
      BY <1>4, <1>6, <3>2, <3>3, <3>4 DEF Asked
  <2>4. CASE frames' = Append(fs, Frame(d)) /\ got' = got
    <3>1. PICK e : e = Frame(d)
      OBVIOUS
    <3>2. e.res = {}
      BY <3>1 DEF Frame
    <3>3. Len(frames') = Len(fs) + 1 /\ frames'[Len(fs) + 1] = e
      BY <2>1, <2>4, <3>1, AppendFacts
    <3>4. \A f \in 1..Len(fs) : frames'[f] = fs[f]
      BY <2>1, <2>4, <3>1, AppendFacts
    <3>5. Len(fs) \in Nat
      BY <2>1, SeqFacts
    <3>6. \A f \in 1..Len(frames') : frames'[f].res = {} \/ (f \in 1..Len(fs) /\ frames'[f].res = fs[f].res)
      BY <3>2, <3>3, <3>4, <3>5
    <3>7. q \in got => Recorded(q)
      BY DEF Recorded
    <3> QED
      BY <1>2, <1>4, <1>6, <2>4, <3>6, <3>7 DEF Asked, InFrames
  <2> QED
    BY <1>6, <2>2, <2>3, <2>4 DEF Asked
<1>7. ASSUME NEW n, NEW fs, AskedArgument(n, fs) PROVE Recorded(q) \/ q = ArgumentValue(n)
  <2>1. IsSeq(fs) /\ \A f \in 1..Len(fs) : IsFrame(fs[f])
    BY <1>7 DEF AskedArgument, SameFrames
  <2>2. PICK rs : rs = {ArgumentValue(n)}
    OBVIOUS
  <2>3. HandOver(fs, rs) /\ SameFrames(fs)
    BY <1>7, <2>2 DEF AskedArgument
  <2>4. Recorded(q) \/ q \in rs \/ q \in got \/ \E f \in 1..Len(fs) : q \in fs[f].res
    BY <1>2, <2>1, <2>3, HandOverRecs
  <2> QED
    BY <1>4, <2>2, <2>3, <2>4 DEF Recorded
<1> QED
  BY <1>3, <1>5, <1>6, <1>7, ResolveFacts DEF AskedArgument

LEMMA BodyRecs ==
    ASSUME Types, IdsBelow(got, next), Execute, NEW q, Recorded(q)'
    PROVE  \/ \E r : Recorded(r) /\ SameValue(q, r)
           \/ \E d, rs : /\ ExecutedYield(d, rs) /\ q = Own(d)
                         /\ \E k \in 1..Len(Defs) : d = Defs[k]
<1>0. frames # <<>> /\ Len(frames) \in Nat /\ Len(frames) >= 1 /\ IsSeq(frames)
  BY ExecuteFacts, SeqFacts DEF Types, FramesOK
<1>1. PICK d, rs :
        /\ d = frames[Len(frames)].def /\ rs = Rests(d, frames[Len(frames)].res)
        /\ (\E k \in 1..Len(Defs) : d = Defs[k])
        /\ ExecutedPlain(d, rs) \/ ExecutedYield(d, rs) \/ ExecutedFault(d)
  BY ExecuteFacts
<1>2. \A r : Recorded(r) => IsRecord(r)
  BY RecordFacts
<1>3. \A r : Recorded(r) => SameValue(r, r)
  BY <1>2 DEF SameValue
<1>4. ASSUME NEW p \in rs PROVE \E r : Recorded(r) /\ SameValue(p, r)
  <2>1. Len(frames) \in 1..Len(frames)
    BY <1>0
  <2>2. \A r \in frames[Len(frames)].res : Recorded(r)
    BY <2>1 DEF Recorded, InFrames
  <2>3. \A r \in frames[Len(frames)].res : IsRecord(r)
    BY <1>2, <2>2
  <2>4. PICK r \in frames[Len(frames)].res :
              /\ IsRecord(p) /\ p.id = r.id /\ p.name = r.name /\ p.par = r.par
              /\ p.scope = r.scope /\ p.moves = r.moves /\ (~p.hidden => ~r.hidden)
    BY <1>1, <2>3, RestsFacts
  <2> QED
    BY <2>2, <2>4 DEF SameValue
<1>5. ASSUME NEW all, Stores(d, all) PROVE Recorded(q) \/ q \in all
  <2>1. PICK fs : fs = Front(frames)
    OBVIOUS
  <2>2. IsSeq(fs) /\ Len(fs) = Len(frames) - 1
    BY <1>0, <2>1, FrontFacts
  <2>3. \A f \in 1..Len(frames) - 1 : fs[f] = frames[f]
    BY <1>0, <2>1, FrontFacts
  <2>4. \A f \in 1..Len(fs) : f \in 1..Len(frames) /\ IsFrame(fs[f]) /\ fs[f] = frames[f]
    BY <1>0, <2>2, <2>3 DEF Types, FramesOK
  <2>5. HandOver(fs, all)
    BY <1>5, <2>1 DEF Stores
  <2>6. InFrames(q)' \/ q \in got' =>
            q \in all \/ q \in got \/ \E f \in 1..Len(fs) : q \in fs[f].res
    BY <2>2, <2>4, <2>5, HandOverRecs
  <2>7. PICK e : e = EntryOf(d, FALSE, all)
    OBVIOUS
  <2>8. e.res = all /\ cache' = Stored(e)
    BY <1>5, <2>7 DEF Stores, EntryOf
  <2>9. \A c \in cache' : c \in cache \/ c.res = all
    BY <2>8 DEF Stored
  <2> QED
    BY <2>4, <2>6, <2>9 DEF Recorded, InFrames
<1>6. CASE ExecutedPlain(d, rs)
  BY <1>3, <1>4, <1>5, <1>6 DEF ExecutedPlain
<1>7. CASE ExecutedYield(d, rs)
  <2>1. PICK own : own = Own(d)
    OBVIOUS
  <2>2. Recorded(q) \/ q \in rs \/ q = own
    BY <1>5, <1>7, <2>1 DEF ExecutedYield
  <2> QED
    BY <1>1, <1>3, <1>4, <1>7, <2>1, <2>2
<1>8. CASE ExecutedFault(d)
  <2>1. frames' = <<>> /\ got' = {}
    BY <1>8 DEF ExecutedFault, Abort
  <2>2. ~\E f \in 1..Len(frames') : TRUE
    BY <2>1, EmptyFacts
  <2>3. PICK e : e = EntryOf(d, TRUE, {})
    OBVIOUS
  <2>4. e.res = {} /\ (cache' = cache \/ cache' = Stored(e))
    BY <1>8, <2>3 DEF ExecutedFault, EntryOf
  <2>5. \A c \in cache' : c \in cache \/ c.res = {}
    BY <2>4 DEF Stored
  <2> QED
    BY <1>3, <2>1, <2>2, <2>5 DEF Recorded, InFrames
<1> QED
  BY <1>1, <1>6, <1>7, <1>8

LEMMA RecSteps ==
    ASSUME Types, IdsBelow(got, next), [Next]_vars, NEW q, Recorded(q)'
    PROVE  \/ \E r : Recorded(r) /\ SameValue(q, r)
           \/ Resolve /\ \E n \in DOMAIN Item.direct : q = ArgumentValue(n)
           \/ \E d, rs : /\ Execute /\ ExecutedYield(d, rs) /\ q = Own(d)
                         /\ \E k \in 1..Len(Defs) : d = Defs[k]
<1>1. \A r : Recorded(r) => IsRecord(r)
  BY RecordFacts
<1>2. \A r : Recorded(r) => SameValue(r, r)
  BY <1>1 DEF SameValue
<1> USE DEF hooks, counts, work
<1>3. CASE Pick \/ RunFinalizer \/ EndTask \/ Start \/ SetupDone \/ Call \/ EndItem \/ After \/ NextItem
           \/ Finish \/ UNCHANGED vars
  <2>1. cache' \subseteq cache /\ UNCHANGED <<frames, got>>
    BY <1>3 DEF Pick, RunFinalizer, EndTask, Start, SetupDone, Call, EndItem, After, NextItem, Finish, vars
  <2> QED
    BY <1>2, <2>1 DEF Recorded, InFrames
<1>4. CASE BeginSetup \/ EnsureXunit
  <2>1. cache' \subseteq cache /\ (UNCHANGED <<frames, got>> \/ (frames' = <<>> /\ got' = {}))
    <3>1. BeginSetup => cache' \subseteq cache /\ frames' = <<>> /\ got' = {}
      BY DEF BeginSetup
    <3>2. EnsureXunit => cache' = cache /\ (XunitGoesOn \/ Abort)
      BY EnsureXunitFacts
    <3> QED
      BY <1>4, <3>1, <3>2 DEF XunitGoesOn, Abort
  <2>2. frames' = <<>> => ~\E f \in 1..Len(frames') : TRUE
    BY EmptyFacts
  <2> QED
    BY <1>2, <2>1, <2>2 DEF Recorded, InFrames
<1>5. CASE Resolve
  BY <1>2, <1>5, RequestRecs
<1>6. CASE Execute
  BY <1>6, BodyRecs
<1> QED
  BY <1>3, <1>4, <1>5, <1>6 DEF Next

---------------------------------------------------------------------------
(* A record tells of a pending value what it was made as, and all that it  *)
(* moves with.                                                             *)
Agrees(r, p) ==
    /\ r.name = p.key.name /\ r.par = p.key.par /\ r.scope = p.scope /\ p.binds \subseteq r.moves
    /\ p.scope = "session" /\ p.inst # SessionInstance => \E b \in r.moves : b.scope = "session"
    /\ ~OfParent(p)

RecsOK ==
    /\ IdsBelow(got, next)
    /\ \A r : Recorded(r) => \A i \in 1..Len(pend) : pend[i].id = r.id => Agrees(r, pend[i])

LEMMA RecsInit == Init => RecsOK
<1> SUFFICES ASSUME Init PROVE RecsOK
  OBVIOUS
<1>1. pend = <<>> /\ got = {}
  BY DEF Init
<1>2. ~\E i \in 1..Len(pend) : TRUE
  BY <1>1, EmptyFacts
<1> QED
  BY <1>1, <1>2 DEF RecsOK, IdsBelow

\* Values are numbered in the order they are made.
LEMMA NextSteps ==
    ASSUME Types, [Next]_vars
    PROVE  next \in Nat /\ next' \in Nat /\ next <= next'
<1>0. next \in Nat
  BY RunnerAssumption DEF Types, CountsOK
<1>1. next' = next \/ \E on : Build(on)
  <2> USE DEF work
  <2>1. CASE EnsureXunit
    BY <2>1, EnsureXunitFacts
  <2>2. CASE Execute
    BY <2>2, ExecuteFacts DEF ExecutedPlain, ExecutedYield, ExecutedFault
  <2>3. CASE ~EnsureXunit /\ ~Execute
    BY <2>3 DEF Next, Pick, RunFinalizer, EndTask, Start, BeginSetup, Resolve, SetupDone, Call, EndItem,
                After, NextItem, Finish, vars
  <2> QED
    BY <2>1, <2>2, <2>3
<1>2. ASSUME NEW on, Build(on) PROVE next' = next + 1
  BY <1>2, BuildTypes
<1> QED
  BY <1>0, <1>1, <1>2

LEMMA NewPend ==
    ASSUME Types, [Next]_vars, NEW i \in 1..Len(pend')
    PROVE  (\E k \in 1..Len(pend) : pend'[i] = pend[k]) \/ pend'[i].id = next
<1>1. Xid(XunitFirst).id = next
  BY DEF Xid
<1>2. \A d, rs : PendingOf(d, rs).id = next
  BY DEF PendingOf
<1> QED
  BY <1>1, <1>2, PendSteps

\* No parametrization of session scope is recorded with a value.
LEMMA BindsBelowSession ==
    ASSUME Types, pos \in 1..N, NEW k \in 1..Len(Defs), NEW b \in Binds(Defs[k])
    PROVE  b.scope # "session"
  BY MadeBinds

\* A parameter of the test itself has no finalizer.
LEMMA ArgumentFacts ==
    ASSUME Types, pos \in 1..N, NEW n \in DOMAIN Item.direct, NEW q, q = ArgumentValue(n)
    PROVE  /\ IsRecord(q) /\ q.id = 0 /\ q.name = n /\ q.par = ParamValue(Item, n) /\ q.par # "none"
           /\ q.scope = KeyScope(Item, n) /\ q.scope \in Scopes
           /\ q.scope # "function" =>
                 \E b \in q.moves : b.name = n /\ b.val = q.par /\ b.scope = q.scope
<1>1. PICK v : v = Item.direct[n]
  OBVIOUS
<1>2. PICK s : s = KeyScope(Item, n)
  OBVIOUS
<1>3. PICK ms : ms = {BindingAt(Item, m) : m \in {n} \cap DOMAIN Item.keys}
  OBVIOUS
<1>4. q = [id |-> 0, name |-> n, par |-> v, scope |-> s, moves |-> ms, hidden |-> FALSE]
  BY <1>1, <1>2, <1>3 DEF ArgumentValue
<1>5. q.id = 0 /\ q.name = n /\ q.par = v /\ q.scope = s /\ q.moves = ms /\ IsRecord(q)
  BY <1>4 DEF IsRecord
<1>6. n \notin DOMAIN Item.par /\ v # "none"
  BY <1>1, RunFacts DEF Types, Item
<1>7. v = ParamValue(Item, n)
  BY <1>1, <1>6 DEF ParamValue
<1>9. s \in Scopes
  <2>1. n \in DOMAIN Item.keys => Item.keys[n] \in Scopes
    BY RunFacts DEF Types, Item
  <2>2. "function" \in Scopes
    BY DEF Scopes, Rank
  <2> QED
    BY <1>2, <2>1, <2>2 DEF KeyScope
<1>8. ASSUME s # "function" PROVE \E b \in ms : b.name = n /\ b.val = v /\ b.scope = s
  <2>1. n \in DOMAIN Item.keys /\ s = Item.keys[n]
    BY <1>2, <1>8 DEF KeyScope
  <2>2. PICK b : b = BindingAt(Item, n)
    OBVIOUS
  <2>3. b \in ms
    BY <1>3, <2>1, <2>2
  <2>4. b.name = n /\ b.val = v /\ b.scope = s
    BY <1>7, <2>1, <2>2 DEF BindingAt
  <2> QED
    BY <2>3, <2>4
<1> QED
  BY <1>2, <1>5, <1>6, <1>7, <1>8, <1>9

\* What a body returns agrees with its finalizer.
LEMMA OwnAgrees ==
    ASSUME Types, pos \in 1..N, NEW k \in 1..Len(Defs), NEW d, d = Defs[k], NEW rs
    PROVE  Agrees(Own(d), PendingOf(d, rs))
<1>1. PICK own : own = Own(d)
  OBVIOUS
<1>2. PICK p : p = PendingOf(d, rs)
  OBVIOUS
<1>3. PICK x : x = [scope |-> CacheScope(d, Item), inst |-> CacheInstance(d, Item), binds |-> Binds(d),
                    key |-> CacheKey(d, Item)]
  OBVIOUS
<1>4. MadeBy(x, d)
  BY <1>3 DEF MadeBy
<1>5. /\ p.scope = x.scope /\ p.inst = x.inst /\ p.binds = x.binds /\ p.key = x.key
      /\ own.par = x.key.par /\ own.scope = x.scope /\ own.name = d.name
      /\ own.moves = Moves(d, Binds(d))
  BY <1>1, <1>2, <1>3 DEF Own, PendingOf
<1>6. /\ x.key.name = d.name
      /\ x.scope = "session" =>
            x.inst = IF x.key.par = "none" THEN SessionInstance ELSE <<x.key.name, x.key.par>>
  BY <1>4, MadeKey
<1>7. p.binds \subseteq own.moves
  BY <1>3, <1>5 DEF Moves
<1>8. ASSUME p.scope = "session", p.inst # SessionInstance PROVE \E b \in own.moves : b.scope = "session"
  <2>1. x.inst = <<x.key.name, x.key.par>>
    BY <1>5, <1>6, <1>8
  <2>2. PICK inst : inst = CacheInstance(d, Item)
    OBVIOUS
  <2>3. inst = <<x.key.name, x.key.par>>
    BY <1>3, <2>1, <2>2
  <2>4. 2 \in {2} \cap DOMAIN inst
    BY <2>3
  <2>5. [scope |-> "session", inst |-> inst, name |-> d.name, val |-> inst[2]] \in own.moves
    BY <1>5, <2>2, <2>4 DEF Moves
  <2> QED
    BY <2>5
<1>9. ~OfParent(p)
  BY <1>4, <1>5, MadeNode DEF OfParent
<1> QED
  BY <1>1, <1>2, <1>5, <1>6, <1>7, <1>8, <1>9 DEF Agrees

LEMMA RecsStep == Types /\ RecsOK /\ [Next]_vars => RecsOK'
<1> SUFFICES ASSUME Types, RecsOK, [Next]_vars PROVE RecsOK'
  OBVIOUS
<1>1. next \in Nat /\ next' \in Nat /\ next <= next' /\ IdsBelow(got, next)
  BY NextSteps DEF RecsOK
<1>2. /\ IsSeq(pend) /\ Len(pend) \in Nat
      /\ \A i \in 1..Len(pend) : pend[i].id \in Nat \ {0} /\ pend[i].id < next
  BY SeqFacts DEF Types, PendOK
<1>5. \A x : OfParent(x)' <=> OfParent(x)
  <2>1. run' = run
    BY ControlSteps
  <2> QED
    BY <2>1, SameRun DEF OfParent, ParentNodes
<1>3. ASSUME NEW q, Recorded(q)'
      PROVE  /\ IsRecord(q) /\ q.id \in Nat /\ q.id < next'
             /\ \A i \in 1..Len(pend') : \A p : p = pend'[i] /\ p.id = q.id => Agrees(q, p)
  <2>1. ASSUME NEW r, Recorded(r), SameValue(q, r)
        PROVE  /\ IsRecord(q) /\ q.id \in Nat /\ q.id < next'
               /\ \A i \in 1..Len(pend') : \A p : p = pend'[i] /\ p.id = q.id => Agrees(q, p)
    <3>1. IsRecord(q) /\ q.id = r.id /\ r.id \in Nat /\ r.id < next
      BY <1>1, <2>1, RecordFacts DEF SameValue
    <3>2. ASSUME NEW i \in 1..Len(pend'), NEW p, p = pend'[i], p.id = q.id PROVE Agrees(q, p)
      <4>1. PICK k \in 1..Len(pend) : p = pend[k]
        BY <1>1, <3>1, <3>2, NewPend
      <4>2. Agrees(r, p)
        BY <2>1, <3>1, <3>2, <4>1 DEF RecsOK
      <4> QED
        BY <2>1, <4>2 DEF Agrees, SameValue
    <3> QED
      BY <1>1, <3>1, <3>2
  <2>2. ASSUME NEW d, NEW rs, Execute, ExecutedYield(d, rs), q = Own(d), \E k \in 1..Len(Defs) : d = Defs[k]
        PROVE  /\ IsRecord(q) /\ q.id \in Nat /\ q.id < next'
               /\ \A i \in 1..Len(pend') : \A p : p = pend'[i] /\ p.id = q.id => Agrees(q, p)
    <3>1. IsRecord(q) /\ q.id = next
      BY <2>2 DEF Own, IsRecord
    <3>2. next' = next + 1
      BY <2>2, BuildTypes DEF ExecutedYield
    <3>3. PICK w : w = PendingOf(d, rs)
      OBVIOUS
    <3>4. Len(pend') = Len(pend) + 1 /\ pend'[Len(pend) + 1] = w
      BY <1>2, <2>2, <3>3, AppendFacts DEF ExecutedYield
    <3>5. \A i \in 1..Len(pend) : pend'[i] = pend[i]
      BY <1>2, <2>2, <3>3, AppendFacts DEF ExecutedYield
    <3>6. pos \in 1..N
      BY <2>2, ExecuteFacts, RunFacts DEF Types, ControlOK
    <3>7. Agrees(q, w)
      BY <2>2, <3>3, <3>6, OwnAgrees
    <3>8. \A i \in 1..Len(pend') : i \in 1..Len(pend) \/ pend'[i] = w
      BY <1>2, <3>4
    <3> QED
      BY <1>1, <1>2, <3>1, <3>2, <3>5, <3>7, <3>8
  <2>3. ASSUME Resolve, NEW n \in DOMAIN Item.direct, q = ArgumentValue(n)
        PROVE  /\ IsRecord(q) /\ q.id \in Nat /\ q.id < next'
               /\ \A i \in 1..Len(pend') : \A p : p = pend'[i] /\ p.id = q.id => Agrees(q, p)
    <3>1. pos \in 1..N /\ pend' = pend
      BY <2>3, RunFacts DEF Resolve, Resolving, Types, ControlOK
    <3>2. IsRecord(q) /\ q.id = 0
      BY <2>3, <3>1, ArgumentFacts
    <3>3. next # 0
      BY <1>1, RunnerAssumption DEF Types, CountsOK
    <3> QED
      BY <1>1, <1>2, <3>1, <3>2, <3>3
  <2> QED
    BY <1>1, <1>3, <2>1, <2>2, <2>3, RecSteps
<1>4. IdsBelow(got, next)'
  <2>1. \A q : q \in got' => Recorded(q)'
    BY DEF Recorded
  <2> QED
    BY <1>3, <2>1 DEF IdsBelow
<1> QED
  BY <1>3, <1>4, <1>5 DEF RecsOK, Agrees

(* A cached value goes with every value it rests on, unless that is hidden *)
(* from it: it is kept no longer, and moves with the same parametrizations *)
(* at least.                                                               *)
RestsBelow(c, p) ==
    /\ ~OfParent(c) /\ ~OfParent(p) /\ ~Wider(c.scope, p.scope)
    /\ \/ c.scope = "function"
       \/ p.binds \subseteq c.binds /\ (p.scope = "session" => p.inst = SessionInstance)

RestsWith(c, p) ==
    \/ ~OfParent(c) /\ c.scope = p.scope /\ c.inst = p.inst /\ c.binds = p.binds
    \/ RestsBelow(c, p)

RestsOK == \A c \in cache : \A r \in c.res : ~r.hidden =>
    \A i \in 1..Len(pend) : pend[i].id = r.id => RestsWith(c, pend[i])

LEMMA RestsInit == Init => RestsOK
  BY DEF Init, RestsOK

\* What a body builds on goes with it.
LEMMA BuiltRests ==
    ASSUME Types, RecsOK, Execute, NEW k \in 1..Len(Defs), NEW d, d = Defs[k],
           NEW rs, rs = Rests(d, frames[Len(frames)].res), NEW q \in rs, ~q.hidden,
           NEW i \in 1..Len(pend), NEW p, p = pend[i], p.id = q.id,
           NEW c, c.scope = CacheScope(d, Item), c.inst = CacheInstance(d, Item), c.binds = Binds(d)
    PROVE  RestsBelow(c, p)
<1>1. Len(frames) \in 1..Len(frames) /\ pos \in 1..N
  <2>1. frames # <<>> /\ pos <= N
    BY ExecuteFacts DEF Types, ControlOK
  <2>2. IsSeq(frames) /\ pos \in 1..N + 1 /\ N \in Nat
    BY RunFacts DEF Types, FramesOK, ControlOK
  <2> QED
    BY <2>1, <2>2, SeqFacts
<1>2. \A r \in frames[Len(frames)].res : Recorded(r) /\ IsRecord(r)
  <2>1. \A r \in frames[Len(frames)].res : Recorded(r)
    BY <1>1 DEF Recorded, InFrames
  <2> QED
    BY <2>1, RecordFacts DEF RecsOK
<1>3. PICK r \in frames[Len(frames)].res :
          /\ q.id = r.id /\ q.scope = r.scope /\ q.moves = r.moves
          /\ ~q.hidden => /\ ~r.hidden /\ ~Wider(CacheScope(d, Item), r.scope)
                          /\ CacheScope(d, Item) = "function" \/ r.moves \subseteq Binds(d)
  BY <1>2, RestsFacts
<1>4. Agrees(r, p)
  BY <1>2, <1>3 DEF RecsOK
<1>5. /\ r.scope = p.scope /\ p.binds \subseteq r.moves
      /\ p.scope = "session" /\ p.inst # SessionInstance => \E b \in r.moves : b.scope = "session"
      /\ ~OfParent(p)
  BY <1>4 DEF Agrees
<1>9. ~OfParent(c)
  <2>1. PICK x : x = [scope |-> CacheScope(d, Item), inst |-> CacheInstance(d, Item), binds |-> Binds(d),
                      key |-> CacheKey(d, Item)]
    OBVIOUS
  <2>2. MadeBy(x, d) /\ x.scope = c.scope /\ x.inst = c.inst
    BY <2>1 DEF MadeBy
  <2> QED
    BY <1>1, <2>2, MadeNode DEF OfParent
<1>6. ~Wider(c.scope, p.scope) /\ ~OfParent(c) /\ ~OfParent(p)
  BY <1>3, <1>5, <1>9
<1>7. CASE c.scope = "function"
  BY <1>6, <1>7 DEF RestsBelow
<1>8. CASE c.scope # "function"
  <2>1. r.moves \subseteq Binds(d)
    BY <1>3, <1>8
  <2>2. \A b \in r.moves : b.scope # "session"
    BY <1>1, <2>1, BindsBelowSession
  <2>3. p.binds \subseteq c.binds /\ (p.scope = "session" => p.inst = SessionInstance)
    BY <1>5, <2>1, <2>2
  <2> QED
    BY <1>6, <2>3 DEF RestsBelow
<1> QED
  BY <1>7, <1>8

LEMMA RestsStep == Types /\ RecsOK /\ RestsOK /\ [Next]_vars => RestsOK'
<1> SUFFICES ASSUME Types, RecsOK, RestsOK, [Next]_vars PROVE RestsOK'
  OBVIOUS
<1> DEFINE Goal == \A c \in cache' : \A r \in c.res : ~r.hidden =>
                     \A i \in 1..Len(pend') : \A p : p = pend'[i] /\ p.id = r.id => RestsWith(c, p)
<1>6. SUFFICES Goal
  <2>1. run' = run
    BY ControlSteps
  <2>2. \A x : OfParent(x)' <=> OfParent(x)
    BY <2>1, SameRun DEF OfParent, ParentNodes
  <2> QED
    BY <2>2 DEF RestsOK, RestsWith, RestsBelow
<1>1. next \in Nat /\ IdsBelow(got, next) /\ \A c \in cache : IdsBelow(c.res, next)
  BY NextSteps DEF RecsOK, Types, CacheOK
<1>2. IsSeq(pend) /\ Len(pend) \in Nat /\ \A i \in 1..Len(pend) : pend[i].id \in Nat /\ pend[i].id < next
  BY SeqFacts DEF Types, PendOK
<1>3. ASSUME NEW c \in cache, NEW r \in c.res, ~r.hidden,
             NEW i \in 1..Len(pend'), NEW p, p = pend'[i], p.id = r.id
      PROVE  RestsWith(c, p)
  <2>1. r.id \in Nat /\ r.id < next
    BY <1>1, <1>3 DEF IdsBelow
  <2>2. PICK k \in 1..Len(pend) : p = pend[k]
    BY <1>1, <1>3, <2>1, NewPend
  <2> QED
    BY <1>3, <2>2 DEF RestsOK
<1>4. CASE ~Execute
  <2> USE DEF hooks, counts, work
  <2>1. EnsureXunit => cache' = cache
    BY EnsureXunitFacts
  <2>2. cache' \subseteq cache
    BY <1>4, <2>1 DEF Next, Pick, RunFinalizer, EndTask, Start, BeginSetup, Resolve, SetupDone, Call,
                      EndItem, After, NextItem, Finish, vars
  <2> QED
    BY <1>3, <2>2
<1>5. CASE Execute
  <2>1. PICK d, rs :
          /\ d = frames[Len(frames)].def /\ rs = Rests(d, frames[Len(frames)].res)
          /\ \E k \in 1..Len(Defs) : d = Defs[k]
          /\ ExecutedPlain(d, rs) \/ ExecutedYield(d, rs) \/ ExecutedFault(d)
    BY <1>5, ExecuteFacts
  <2>2. PICK k \in 1..Len(Defs) : d = Defs[k]
    BY <2>1
  <2>3. CASE ExecutedPlain(d, rs)
    <3>1. PICK e : e = EntryOf(d, FALSE, rs)
      OBVIOUS
    <3>2. (\A c \in cache' : c \in cache \/ c = e) /\ pend' = pend
      BY <2>3, <3>1 DEF ExecutedPlain, Stores, Stored
    <3>3. /\ e.res = rs /\ e.scope = CacheScope(d, Item) /\ e.inst = CacheInstance(d, Item)
          /\ e.binds = Binds(d)
      BY <3>1 DEF EntryOf
    <3>4. \A r \in rs : ~r.hidden => \A i \in 1..Len(pend) : pend[i].id = r.id => RestsWith(e, pend[i])
      BY <1>5, <2>1, <2>2, <3>3, BuiltRests DEF RestsWith
    <3> QED
      BY <1>3, <3>2, <3>3, <3>4
  <2>4. CASE ExecutedYield(d, rs)
    <3>1. PICK own : own = Own(d)
      OBVIOUS
    <3>2. PICK e : e = EntryOf(d, FALSE, rs \cup {own})
      OBVIOUS
    <3>3. PICK w : w = PendingOf(d, rs)
      OBVIOUS
    <3>4. \A c \in cache' : c \in cache \/ c = e
      BY <2>4, <3>1, <3>2 DEF ExecutedYield, Stores, Stored
    <3>5. /\ e.res = rs \cup {own} /\ e.scope = CacheScope(d, Item) /\ e.inst = CacheInstance(d, Item)
          /\ e.binds = Binds(d)
      BY <3>2 DEF EntryOf
    <3>6. /\ w.scope = CacheScope(d, Item) /\ w.inst = CacheInstance(d, Item) /\ w.binds = Binds(d)
          /\ w.id = next /\ own.id = next
      BY <3>1, <3>3 DEF PendingOf, Own
    <3>7. Len(pend') = Len(pend) + 1 /\ pend'[Len(pend) + 1] = w
      BY <1>2, <2>4, <3>3, AppendFacts DEF ExecutedYield
    <3>8. \A i \in 1..Len(pend) : pend'[i] = pend[i]
      BY <1>2, <2>4, <3>3, AppendFacts DEF ExecutedYield
    <3>9. \A i \in 1..Len(pend') : i \in 1..Len(pend) \/ pend'[i] = w
      BY <1>2, <3>7
    <3>10. RestsWith(e, w)
      <4>1. MadeBy(e, d) /\ pos \in 1..N
        BY <1>5, <2>2, <3>2, ExecuteFacts, RunFacts DEF MadeBy, EntryOf, Types, ControlOK
      <4> QED
        BY <3>5, <3>6, <4>1, MadeNode DEF RestsWith
    <3>11. \A r \in rs : r.id < next
      <4>1. \A f \in 1..Len(frames) : IdsBelow(frames[f].res, next)
        BY DEF Types, FramesOK
      <4>2. Len(frames) \in 1..Len(frames)
        BY <1>5, ExecuteFacts, SeqFacts DEF Types, FramesOK
      <4>3. \A r \in frames[Len(frames)].res : IsRecord(r) /\ r.id < next
        BY <4>1, <4>2 DEF IdsBelow
      <4> QED
        BY <2>1, <4>3, RestsFacts
    <3>12. ASSUME NEW r \in rs, ~r.hidden, NEW i \in 1..Len(pend'), NEW p, p = pend'[i], p.id = r.id
           PROVE  RestsWith(e, p)
      <4>1. i \in 1..Len(pend) /\ p = pend[i]
        BY <1>1, <3>6, <3>8, <3>9, <3>11, <3>12
      <4> QED
        BY <1>5, <2>1, <2>2, <3>5, <3>12, <4>1, BuiltRests DEF RestsWith
    <3>13. ASSUME NEW i \in 1..Len(pend'), NEW p, p = pend'[i], p.id = own.id PROVE RestsWith(e, p)
      BY <1>1, <1>2, <3>6, <3>8, <3>9, <3>10, <3>13
    <3> QED
      BY <1>3, <3>4, <3>5, <3>12, <3>13
  <2>5. CASE ExecutedFault(d)
    <3>1. PICK e : e = EntryOf(d, TRUE, {})
      OBVIOUS
    <3>2. e.res = {}
      BY <3>1 DEF EntryOf
    <3>3. cache' = cache \/ cache' = Stored(e)
      BY <2>5, <3>1 DEF ExecutedFault
    <3>4. \A c \in cache' : c \in cache \/ c.res = {}
      BY <3>2, <3>3 DEF Stored
    <3> QED
      BY <1>3, <3>4
  <2> QED
    BY <2>1, <2>3, <2>4, <2>5
<1> QED
  BY <1>4, <1>5

(* While the run goes on, what a cached value rests on is there, or the    *)
(* cached value is about to go; what a test is set up with is there.       *)
Alive(v) == v = 0 \/ \E i \in 1..Len(pend) : pend[i].id = v

LiveOK ==
    /\ pc \notin {"final", "done"} =>
          \A c \in cache : \A r \in c.res : ~r.hidden => Alive(r.id) \/ Going(c)
    /\ pc \in {"early", "resolve", "call"} =>
          \A r : (InFrames(r) \/ r \in got) /\ ~r.hidden => Alive(r.id)

LEMMA LiveInit == Init => LiveOK
  BY DEF Init, LiveOK

LEMMA NothingGoes ==
    ASSUME Types, pc \notin {"between", "teardown", "params", "final"}
    PROVE  agenda = <<>> /\ \A x : ~Going(x)
<1>1. agenda = <<>>
  BY DEF Types, ControlOK
<1> QED
  BY <1>1, EmptyFacts DEF Going

\* A finalizer that is there stays until one is run.
LEMMA AliveStays ==
    ASSUME Types, [Next]_vars, ~RunFinalizer, NEW v, Alive(v)
    PROVE  Alive(v)'
<1>0. IsSeq(pend) /\ Len(pend) \in Nat
  BY SeqFacts DEF Types, PendOK
<1>1. pend' = pend \/ \E e : pend' = Append(pend, e)
  <2>1. EnsureXunit => pend' = pend \/ pend' = Append(pend, Xid(XunitFirst))
    BY EnsureXunitFacts
  <2>2. Execute => pend' = pend \/ \E e : pend' = Append(pend, e)
    BY ExecuteFacts DEF ExecutedPlain, ExecutedYield, ExecutedFault
  <2>3. CASE EnsureXunit \/ Execute
    BY <2>1, <2>2, <2>3
  <2>4. CASE ~EnsureXunit /\ ~Execute
    BY <2>4 DEF Next, Pick, EndTask, Start, BeginSetup, Resolve, SetupDone, Call, EndItem, After, NextItem,
                Finish, vars
  <2> QED
    BY <2>3, <2>4
<1>2. ASSUME NEW e, pend' = Append(pend, e) PROVE Alive(v)'
  <2>1. Len(pend') = Len(pend) + 1 /\ \A i \in 1..Len(pend) : pend'[i] = pend[i]
    BY <1>0, <1>2, AppendFacts
  <2>2. \A i \in 1..Len(pend) : i \in 1..Len(pend')
    BY <1>0, <2>1
  <2> QED
    BY <2>1, <2>2 DEF Alive
<1> QED
  BY <1>1, <1>2 DEF Alive

\* A teardown that finishes a value also takes the cached values that rest
\* on it, or another one that is due does.
LEMMA Carried ==
    ASSUME Types, Nested, TasksOK, agenda # <<>>, pc # "final", NEW c \in cache,
           NEW p, Matches(agenda[1], p), RestsWith(c, p)
    PROVE  Going(c)
<1>1. Len(agenda) \in Nat /\ 1 \in 1..Len(agenda)
  <2>1. IsSeq(agenda)
    BY DEF Types, ControlOK
  <2>2. Len(agenda) \in Nat /\ Len(agenda) # 0
    BY <2>1, SeqFacts
  <2> QED
    BY <2>2
<1>2. PICK t : t = agenda[1]
  OBVIOUS
<1>3. TaskOK(t) /\ Matches(t, p)
  BY <1>1, <1>2 DEF TasksOK
<1>4. Matches(t, c) => Going(c)
  BY <1>1, <1>2 DEF Going
<1>5. Due(c) => Going(c)
  BY ScopeTaskFacts DEF Due, Going
<1>6. HomeOK(c) /\ c \in Held
  BY DEF Nested, Held
<1>7. pc \in {"between", "teardown", "params"} /\ N \in Nat /\ pos \in 1..N
  BY RunFacts DEF Types, ControlOK
<1>11. ~OfParent(c)
  BY DEF RestsWith, RestsBelow
<1>8. CASE c.scope = p.scope /\ c.inst = p.inst /\ c.binds = p.binds
  BY <1>3, <1>4, <1>8 DEF Matches
<1>9. CASE c.scope = "function"
  <2>1. FunctionHome(c)
    BY <1>6, <1>9 DEF HomeOK
  <2> QED
    BY <1>5, <1>7, <2>1 DEF FunctionHome
<1>10. CASE /\ ~Wider(c.scope, p.scope) /\ c.scope # "function"
            /\ p.binds \subseteq c.binds /\ (p.scope = "session" => p.inst = SessionInstance)
  <2>1. CASE t.by # "scope"
    BY <1>3, <1>4, <1>10, <2>1 DEF Matches
  <2>2. CASE t.by = "scope"
    <3>1. p.scope = t.scope /\ p.inst = t.inst
      BY <1>3, <2>2 DEF Matches
    <3>2. pc # "teardown"
      <4>1. SUFFICES ASSUME pc = "teardown" PROVE FALSE
        OBVIOUS
      <4>2. t.scope = "function"
        BY <1>3, <4>1 DEF TaskOK, ScopeTask
      <4>3. c.scope \in Scopes
        BY <1>6 DEF HomeOK
      <4> QED
        BY <1>10, <3>1, <4>2, <4>3 DEF Wider, Rank, Scopes
    <3>3. pc # "params"
      BY <1>3, <1>10, <3>1 DEF TaskOK
    <3>4. /\ pc = "between" /\ pos > 1 /\ t.scope \in Torn
          /\ InstanceAt(Items[pos - 1], t.scope) # InstanceAt(Items[pos], t.scope)
      BY <1>3, <1>7, <2>2, <3>2, <3>3 DEF TaskOK
    <3>5. c.scope \in Torn /\ t.scope \in {"class", "module", "package"} /\ IsTorn(c)
      <4>1. c.scope \in Scopes
        BY <1>6 DEF HomeOK
      <4> QED
        BY <1>10, <1>11, <3>1, <3>4, <4>1 DEF Wider, Rank, Scopes, Torn, IsTorn
    <3>6. TornHome(c)
      BY <1>6, <3>5 DEF HomeOK
    <3>7. HomeAt(c, pos - 1) /\ (HomeAt(c, pos) \/ Due(c))
      BY <3>4, <3>6 DEF TornHome
    <3>8. ~HomeAt(c, pos)
      <4>1. SUFFICES ASSUME HomeAt(c, pos) PROVE FALSE
        OBVIOUS
      <4>2. pos - 1 \in 1..N /\ c.scope \in {"class", "module", "package"}
        BY <1>7, <3>4, <3>5 DEF Torn
      <4>3. InstanceAt(Items[pos - 1], c.scope) = InstanceAt(Items[pos], c.scope)
        BY <1>11, <3>7, <4>1 DEF HomeAt
      <4> QED
        BY <1>7, <1>10, <3>1, <3>4, <3>5, <4>2, <4>3, NodesNest DEF Types
    <3> QED
      BY <1>5, <3>7, <3>8
  <2> QED
    BY <2>1, <2>2
<1> QED
  BY <1>8, <1>9, <1>10 DEF RestsWith, RestsBelow

\* All that values rest on is there while no teardown is due.
LEMMA AllAlive ==
    ASSUME Types, LiveOK, pc \notin {"between", "teardown", "params", "final", "done"},
           NEW r, ~r.hidden, (\E c \in cache : r \in c.res) \/ (pc \in {"early", "resolve"} /\ Recorded(r))
    PROVE  Alive(r.id)
  BY NothingGoes DEF LiveOK, Recorded

LEMMA LiveStep == Types /\ Nested /\ TasksOK /\ RecsOK /\ RestsOK /\ LiveOK /\ [Next]_vars => LiveOK'
<1> SUFFICES ASSUME Types, Nested, TasksOK, RecsOK, RestsOK, LiveOK, [Next]_vars PROVE LiveOK'
  OBVIOUS
<1>1. IsSeq(pend) /\ Len(pend) \in Nat
  BY SeqFacts DEF Types, PendOK
<1>2. pc' \notin {"final", "done"} => pc \notin {"final", "done"}
  BY ControlSteps
<1>3. \A x : agenda' = agenda /\ Going(x) => Going(x)'
  BY DEF Going, Matches
<1> USE DEF hooks, counts, work
<1>4. CASE RunFinalizer
  <2>1. /\ agenda # <<>> /\ UNCHANGED <<pc, agenda, cache, frames, got>>
    BY <1>4 DEF RunFinalizer
  <2>2. pc \notin {"early", "resolve", "call"}
    BY <2>1 DEF Types, ControlOK
  <2>3. PICK i \in 1..Len(pend) :
            /\ Matches(agenda[1], pend[i]) /\ Len(pend') = Len(pend) - 1
            /\ \A j \in 1..Len(pend) - 1 : pend'[j] = IF j < i THEN pend[j] ELSE pend[j + 1]
    BY <1>4, FinalizerFacts
  <2>4. ASSUME NEW k \in 1..Len(pend), k # i PROVE \E j \in 1..Len(pend') : pend'[j] = pend[k]
    <3>1. CASE k < i
      <4>1. k \in 1..Len(pend') /\ pend'[k] = pend[k]
        BY <1>1, <2>3, <3>1
      <4> QED
        BY <4>1
    <3>2. CASE k > i
      <4>1. k - 1 \in 1..Len(pend') /\ pend'[k - 1] = pend[k]
        BY <1>1, <2>3, <3>2
      <4> QED
        BY <4>1
    <3> QED
      BY <1>1, <2>4, <3>1, <3>2
  <2>5. ASSUME pc \notin {"final", "done"}, NEW c \in cache, NEW r \in c.res, ~r.hidden
        PROVE  Alive(r.id)' \/ Going(c)'
    <3>1. Alive(r.id) \/ Going(c)
      BY <2>5 DEF LiveOK
    <3>2. CASE Going(c)
      BY <1>3, <2>1, <3>2
    <3>3. CASE Alive(r.id)
      <4> SUFFICES ASSUME r.id # 0 PROVE Alive(r.id)' \/ Going(c)'
        BY DEF Alive
      <4>1. PICK k \in 1..Len(pend) : pend[k].id = r.id
        BY <3>3 DEF Alive
      <4>2. CASE k # i
        BY <2>4, <4>1, <4>2 DEF Alive
      <4>3. CASE k = i
        <5>1. RestsWith(c, pend[i])
          BY <2>5, <4>1, <4>3 DEF RestsOK
        <5>2. Going(c)
          BY <2>1, <2>3, <2>5, <5>1, Carried
        <5> QED
          BY <1>3, <2>1, <5>2
      <4> QED
        BY <4>2, <4>3
    <3> QED
      BY <3>1, <3>2, <3>3
  <2> QED
    BY <2>1, <2>2, <2>5 DEF LiveOK
<1>5. ASSUME ~RunFinalizer, NEW v, Alive(v) PROVE Alive(v)'
  BY <1>5, AliveStays
<1>6. CASE EndTask
  <2>1. agenda # <<>> /\ UNCHANGED <<pc, frames, got>>
    BY <1>6 DEF EndTask
  <2>2. pc \notin {"early", "resolve", "call"}
    BY <2>1 DEF Types, ControlOK
  <2>3. cache' = {c \in cache : ~Matches(agenda[1], c)}
    BY <1>6, EndTaskFacts
  <2>4. ~RunFinalizer
    BY <1>6 DEF EndTask, RunFinalizer
  <2>5. ASSUME pc \notin {"final", "done"}, NEW c \in cache', NEW r \in c.res, ~r.hidden
        PROVE  Alive(r.id)' \/ Going(c)'
    <3>1. c \in cache /\ ~Matches(agenda[1], c)
      BY <2>3
    <3>2. Alive(r.id) \/ Going(c)
      BY <2>5, <3>1 DEF LiveOK
    <3> QED
      BY <1>5, <1>6, <2>4, <3>1, <3>2, GoingStays
  <2> QED
    BY <2>1, <2>2, <2>5 DEF LiveOK
<1>7. CASE Resolve \/ Execute
  <2>1. pc \in {"early", "resolve"} /\ ~RunFinalizer
    <3>1. Execute => pc \in {"early", "resolve"}
      BY ExecuteFacts
    <3>2. Resolve => pc \in {"early", "resolve"}
      BY DEF Resolve, Resolving
    <3> QED
      BY <1>7, <3>1, <3>2, NothingGoes DEF RunFinalizer
  <2>2. ASSUME NEW q, Recorded(q)', ~q.hidden PROVE Alive(q.id)'
    <3>1. ASSUME NEW r, Recorded(r), SameValue(q, r) PROVE Alive(q.id)'
      BY <1>5, <2>1, <2>2, <3>1, AllAlive DEF SameValue
    <3>2. ASSUME NEW d, NEW rs, Execute, ExecutedYield(d, rs), q = Own(d) PROVE Alive(q.id)'
      <4>1. PICK w : w = PendingOf(d, rs)
        OBVIOUS
      <4>2. w.id = next /\ q.id = next
        BY <3>2, <4>1 DEF PendingOf, Own
      <4>3. Len(pend') = Len(pend) + 1 /\ pend'[Len(pend) + 1] = w
        BY <1>1, <3>2, <4>1, AppendFacts DEF ExecutedYield
      <4>4. Len(pend) + 1 \in 1..Len(pend')
        BY <1>1, <4>3
      <4> QED
        BY <4>2, <4>3, <4>4 DEF Alive
    <3>3. ASSUME Resolve, NEW n \in DOMAIN Item.direct, q = ArgumentValue(n) PROVE Alive(q.id)'
      <4>1. pos \in 1..N
        BY <2>1, RunFacts DEF Types, ControlOK
      <4> QED
        BY <3>3, <4>1, ArgumentFacts DEF Alive
    <3> QED
      BY <2>2, <3>1, <3>2, <3>3, RecSteps DEF RecsOK
  <2> QED
    BY <2>2 DEF LiveOK, Recorded
<1>8. CASE BeginSetup \/ EnsureXunit
  <2>1. /\ pc \in {"setup", "early"} /\ ~RunFinalizer /\ cache' \subseteq cache
        /\ \/ frames' = <<>> /\ got' = {}
           \/ pc = "early" /\ UNCHANGED <<frames, got>>
    <3>1. BeginSetup => pc = "setup" /\ cache' \subseteq cache /\ frames' = <<>> /\ got' = {}
      BY DEF BeginSetup
    <3>2. EnsureXunit => pc = "early" /\ cache' = cache /\ (XunitGoesOn \/ Abort)
      BY EnsureXunitFacts
    <3> QED
      BY <1>8, <3>1, <3>2, NothingGoes DEF XunitGoesOn, Abort, RunFinalizer
  <2>2. \A c \in cache' : \A r \in c.res : ~r.hidden => Alive(r.id)'
    BY <1>5, <2>1, AllAlive
  <2>3. frames' = <<>> => \A r : ~InFrames(r)'
    BY EmptyFacts DEF InFrames
  <2>4. UNCHANGED <<frames, got>> => \A r : InFrames(r)' \/ r \in got' => Recorded(r)
    BY DEF InFrames, Recorded
  <2> QED
    BY <1>5, <2>1, <2>2, <2>3, <2>4, AllAlive DEF LiveOK
<1>9. CASE Pick \/ Start \/ SetupDone \/ Call \/ EndItem \/ After \/ NextItem \/ Finish
  <2>1. UNCHANGED <<cache, pend, frames, got>>
    BY <1>9 DEF Pick, Start, SetupDone, Call, EndItem, After, NextItem, Finish
  <2>2. agenda = <<>> /\ (pc' \in {"early", "resolve", "call"} => pc = "resolve")
    BY <1>9, NothingGoes DEF Pick, Start, SetupDone, Call, EndItem, After, NextItem, Finish
  <2>3. \A x : ~Going(x)
    BY <2>2, EmptyFacts DEF Going
  <2>4. \A v : Alive(v) => Alive(v)'
    BY <2>1 DEF Alive
  <2> QED
    BY <1>2, <2>1, <2>2, <2>3, <2>4 DEF LiveOK, InFrames
<1>10. CASE UNCHANGED vars
  BY <1>10 DEF LiveOK, Alive, Going, InFrames, vars, Matches
<1> QED
  BY <1>4, <1>6, <1>7, <1>8, <1>9, <1>10 DEF Next

LEMMA LiveInvariant == Spec => [](RecsOK /\ LiveOK)
<1> DEFINE Inv == RecsOK /\ RestsOK /\ LiveOK
<1>1. Init => Inv
  BY RecsInit, RestsInit, LiveInit
<1>2. Types /\ Nested /\ TasksOK /\ Inv /\ [Next]_vars => Inv'
  BY RecsStep, RestsStep, LiveStep
<1>3. Inv => RecsOK /\ LiveOK
  OBVIOUS
<1> QED
  BY <1>1, <1>2, <1>3, TypesInvariant, NestedInvariant, TasksInvariant, PTL DEF Spec

---------------------------------------------------------------------------
(* Parameters of the test itself.  One that a value rests on moves with    *)
(* the parametrization the value carries, so it is the one the item has.   *)
Fits(r) == ParamValue(Items[pos], r.name) = r.par

ArgumentOK(r) ==
    /\ r.par # "none" /\ r.scope \in Scopes
    /\ r.scope # "function" => \E b \in r.moves : b.name = r.name /\ b.val = r.par /\ b.scope = r.scope

GoesWith(r, c) ==
    IF c.scope = "function" THEN Fits(r) ELSE ~Wider(c.scope, r.scope) /\ r.moves \subseteq c.binds

InUse(r) == pc \in {"early", "resolve", "call"} /\ (InFrames(r) \/ r \in got)

DirectOK ==
    /\ \A r : Recorded(r) /\ r.id = 0 => ArgumentOK(r)
    /\ Local /\ ParamsFit => \A r : r.id = 0 /\ ~r.hidden =>
          /\ \A c \in cache : r \in c.res => GoesWith(r, c)
          /\ InUse(r) => Fits(r)

LEMMA DirectInit == Init => DirectOK
<1> SUFFICES ASSUME Init PROVE DirectOK
  OBVIOUS
<1>1. cache = {} /\ frames = <<>> /\ got = {}
  BY DEF Init
<1>2. ~\E f \in 1..Len(frames) : TRUE
  BY <1>1, EmptyFacts
<1> QED
  BY <1>1, <1>2 DEF DirectOK, Recorded, InUse, InFrames

LEMMA DirectFits ==
    ASSUME Types, KeysNested, DirectOK, Local, ParamsFit, pc \in {"early", "resolve", "call"},
           NEW r, Recorded(r), r.id = 0, ~r.hidden
    PROVE  Fits(r)
<1>1. CASE InUse(r)
  BY <1>1 DEF DirectOK
<1>2. CASE ~InUse(r)
  <2>1. PICK c \in cache : r \in c.res
    BY <1>2 DEF Recorded, InUse
  <2>2. GoesWith(r, c) /\ ArgumentOK(r) /\ c \in Held
    BY <2>1 DEF DirectOK, Held
  <2>3. KeyHome(c) /\ c.scope \in Scopes
    BY <2>2 DEF KeysNested, Types, CacheOK
  <2>4. CASE c.scope = "function"
    BY <2>2, <2>4 DEF GoesWith
  <2>5. CASE c.scope # "function"
    <3>1. ~Wider(c.scope, r.scope) /\ r.moves \subseteq c.binds
      BY <2>2, <2>5 DEF GoesWith
    <3>2. r.scope # "function"
      BY <2>3, <2>5, <3>1 DEF Wider, Rank, Scopes
    <3>3. PICK b \in r.moves : b.name = r.name /\ b.val = r.par /\ b.scope = r.scope
      BY <2>2, <3>2 DEF ArgumentOK
    <3>4. b \in c.binds /\ b.scope # "session"
      BY <2>3, <3>1, <3>3 DEF KeyHome
    <3>5. c.scope # "session"
      BY <2>2, <3>1, <3>3, <3>4 DEF ArgumentOK, Wider, Rank, Scopes
    <3>6. c.scope \in Torn /\ Carries(c, b)
      BY <2>2, <2>3, <2>5, <3>1, <3>3, <3>4, <3>5 DEF Torn, Scopes, Rank, Carries, ArgumentOK
    <3>7. BoundAt(b, pos)
      BY <2>3, <3>6 DEF KeyHome, BindKept, AtItem
    <3> QED
      BY <3>3, <3>7 DEF BoundAt, Fits
  <2> QED
    BY <2>4, <2>5
<1> QED
  BY <1>1, <1>2

\* The steps that lead into the setup or on with it.
LEMMA SetupSteps ==
    ASSUME Types, [Next]_vars, pc' \in {"early", "resolve", "call"}
    PROVE  \/ BeginSetup /\ frames' = <<>> /\ got' = {}
           \/ pc \in {"early", "resolve", "call"} /\ pos' = pos
<1>1. pc \in Pcs /\ (agenda # <<>> => pc \in {"between", "teardown", "params", "final"})
  BY DEF Types, ControlOK
<1>2. CASE BeginSetup
  BY <1>2 DEF BeginSetup
<1>3. CASE RunFinalizer \/ EndTask
  BY <1>1, <1>3 DEF RunFinalizer, EndTask
<1>4. CASE ~BeginSetup /\ ~RunFinalizer /\ ~EndTask
  <2>1. pc \in {"early", "resolve", "call"}
    <3>1. Execute => pc \in {"early", "resolve"}
      BY ExecuteFacts
    <3> QED
      BY <1>4, <3>1 DEF Next, Pick, Start, EnsureXunit, Resolve, Resolving, SetupDone, Call, EndItem,
                        After, NextItem, Finish, vars
  <2> QED
    BY <2>1, ControlSteps DEF AtItem
<1> QED
  BY <1>2, <1>3, <1>4

\* What a new entry of the cache rests on.
LEMMA NewEntry ==
    ASSUME Types, RecsOK, Execute, NEW c \in cache', c \notin cache, NEW q \in c.res, q.id = 0, ~q.hidden
    PROVE  \E r :
              /\ InFrames(r) /\ r.id = 0 /\ r.name = q.name /\ r.par = q.par /\ r.scope = q.scope /\ r.moves = q.moves
              /\ ~r.hidden
              /\ c.scope = "function" \/ (~Wider(c.scope, q.scope) /\ q.moves \subseteq c.binds)
<1>1. PICK d, rs :
        /\ d = frames[Len(frames)].def /\ rs = Rests(d, frames[Len(frames)].res)
        /\ ExecutedPlain(d, rs) \/ ExecutedYield(d, rs) \/ ExecutedFault(d)
  BY ExecuteFacts
<1>2. Len(frames) \in 1..Len(frames)
  BY ExecuteFacts, SeqFacts DEF Types, FramesOK
<1>3. next # 0
  BY RunnerAssumption DEF Types, CountsOK
<1>4. \A r \in frames[Len(frames)].res : IsRecord(r)
  BY <1>2 DEF Types, FramesOK, IdsBelow
<1>5. ASSUME NEW all, Stores(d, all)
      PROVE  c.res = all /\ c.scope = CacheScope(d, Item) /\ c.binds = Binds(d)
  <2>1. PICK e : e = EntryOf(d, FALSE, all)
    OBVIOUS
  <2>2. c = e
    BY <1>5, <2>1 DEF Stores, Stored
  <2> QED
    BY <2>1, <2>2 DEF EntryOf
<1>6. q \in rs /\ c.scope = CacheScope(d, Item) /\ c.binds = Binds(d)
  <2>1. CASE ExecutedPlain(d, rs)
    BY <1>5, <2>1 DEF ExecutedPlain
  <2>2. CASE ExecutedYield(d, rs)
    <3>1. PICK own : own = Own(d)
      OBVIOUS
    <3>2. own.id = next
      BY <3>1 DEF Own
    <3>3. Stores(d, rs \cup {own})
      BY <2>2, <3>1 DEF ExecutedYield
    <3> QED
      BY <1>3, <1>5, <3>2, <3>3
  <2>3. CASE ExecutedFault(d)
    <3>1. PICK e : e = EntryOf(d, TRUE, {})
      OBVIOUS
    <3>2. e.res = {}
      BY <3>1 DEF EntryOf
    <3>3. cache' = cache \/ cache' = Stored(e)
      BY <2>3, <3>1 DEF ExecutedFault
    <3>4. c = e
      BY <3>3 DEF Stored
    <3> QED
      BY <3>2, <3>4
  <2> QED
    BY <1>1, <2>1, <2>2, <2>3
<1>7. PICK r \in frames[Len(frames)].res :
          /\ q.id = r.id /\ q.name = r.name /\ q.par = r.par /\ q.scope = r.scope /\ q.moves = r.moves
          /\ ~q.hidden => /\ ~r.hidden /\ ~Wider(CacheScope(d, Item), r.scope)
                          /\ CacheScope(d, Item) = "function" \/ r.moves \subseteq Binds(d)
  BY <1>1, <1>4, <1>6, RestsFacts
<1>8. InFrames(r)
  BY <1>2, <1>7 DEF InFrames
<1> QED
  BY <1>6, <1>7, <1>8

LEMMA CacheGrows ==
    ASSUME Types, [Next]_vars, NEW c \in cache', c \notin cache
    PROVE  Execute
<1> USE DEF hooks, counts, work
<1>1. ~EnsureXunit
  BY EnsureXunitFacts
<1> QED
  BY <1>1 DEF Next, Pick, RunFinalizer, EndTask, Start, BeginSetup, Resolve, SetupDone, Call, EndItem,
              After, NextItem, Finish, vars

LEMMA DirectStep == Types /\ Nested /\ KeysNested /\ RecsOK /\ DirectOK /\ [Next]_vars => DirectOK'
<1> SUFFICES ASSUME Types, Nested, KeysNested, RecsOK, DirectOK, [Next]_vars PROVE DirectOK'
  OBVIOUS
<1>1. Items' = Items /\ Local' = Local /\ (ParamsFit' <=> ParamsFit)
  BY ControlSteps, SameRun DEF ParamsFit
<1>2. IdsBelow(got, next) /\ next # 0
  BY RunnerAssumption DEF RecsOK, Types, CountsOK
<1>3. pc \notin {"pick", "final", "done"} => pos \in 1..N
  BY RunFacts DEF Types, ControlOK
<1>4. ASSUME NEW q, Recorded(q)', q.id = 0
      PROVE  \/ \E r : Recorded(r) /\ SameValue(q, r) /\ r.id = 0
             \/ Resolve /\ pos' = pos /\ ArgumentOK(q) /\ Fits(q)
  <2>1. ASSUME Resolve, NEW n \in DOMAIN Item.direct, q = ArgumentValue(n)
        PROVE  pos' = pos /\ ArgumentOK(q) /\ Fits(q)
    <3>1. pos' = pos /\ pos \in 1..N
      BY <1>3, <2>1 DEF Resolve, Resolving
    <3> QED
      BY <2>1, <3>1, ArgumentFacts DEF ArgumentOK, Fits, Item
  <2>2. \A d : q # Own(d)
    BY <1>2, <1>4 DEF Own
  <2> QED
    BY <1>2, <1>4, <2>1, <2>2, RecSteps DEF SameValue
<1>5. ASSUME NEW q, Recorded(q)', q.id = 0 PROVE ArgumentOK(q)
  BY <1>4, <1>5 DEF DirectOK, ArgumentOK, SameValue
<1>6. ASSUME Local, ParamsFit, NEW q, q.id = 0, ~q.hidden, InUse(q)' PROVE Fits(q)'
  <2>1. pc' \in {"early", "resolve", "call"} /\ Recorded(q)' /\ (InFrames(q)' \/ q \in got')
    BY <1>6 DEF InUse, Recorded
  <2>2. ~(frames' = <<>> /\ got' = {})
    BY <2>1, EmptyFacts DEF InFrames
  <2>3. pc \in {"early", "resolve", "call"} /\ pos' = pos
    BY <2>1, <2>2, SetupSteps
  <2>4. ASSUME NEW r, Recorded(r), SameValue(q, r), r.id = 0 PROVE Fits(q)
    BY <1>6, <2>3, <2>4, DirectFits DEF SameValue, Fits
  <2>5. Fits(q)
    BY <1>4, <1>6, <2>1, <2>4
  <2> QED
    BY <1>1, <2>3, <2>5 DEF Fits
<1>7. ASSUME Local, ParamsFit, NEW q, q.id = 0, ~q.hidden, NEW c \in cache', q \in c.res
      PROVE  GoesWith(q, c)'
  <2>1. c.scope = "function" /\ c \in cache => pos' = pos
    <3>1. SUFFICES ASSUME c.scope = "function", c \in cache
                   PROVE  pos' = pos
      OBVIOUS
    <3>2. Nested'
      BY NestedStep
    <3>3. c \in Held /\ c \in Held'
      BY <3>1 DEF Held
    <3>4. /\ pc \in {"early", "resolve", "call", "teardown"}
          /\ pc' \in {"early", "resolve", "call", "teardown"}
      BY <3>1, <3>2, <3>3 DEF Nested, HomeOK, FunctionHome
    <3> QED
      BY <3>4, ControlSteps DEF AtItem
  <2>2. CASE c \in cache
    <3>1. GoesWith(q, c)
      BY <1>7, <2>2 DEF DirectOK
    <3> QED
      BY <1>1, <2>1, <2>2, <3>1 DEF GoesWith, Fits
  <2>3. CASE c \notin cache
    <3>1. Execute /\ pos' = pos /\ pc \in {"early", "resolve"}
      <4>1. Execute
        BY <2>3, CacheGrows
      <4> QED
        BY <4>1, ExecuteFacts
    <3>2. PICK r :
              /\ InFrames(r) /\ r.id = 0 /\ r.name = q.name /\ r.par = q.par /\ r.scope = q.scope /\ r.moves = q.moves
              /\ ~r.hidden
              /\ c.scope = "function" \/ (~Wider(c.scope, q.scope) /\ q.moves \subseteq c.binds)
      BY <1>7, <2>3, <3>1, NewEntry
    <3>3. Recorded(r)
      BY <3>2 DEF Recorded
    <3>4. Fits(r)
      BY <1>7, <3>1, <3>2, <3>3, DirectFits
    <3> QED
      BY <1>1, <3>1, <3>2, <3>4 DEF GoesWith, Fits
  <2> QED
    BY <2>2, <2>3
<1> QED
  BY <1>1, <1>5, <1>6, <1>7 DEF DirectOK, ArgumentOK

LEMMA DirectInvariant == Spec => []DirectOK
<1>1. Spec => []RecsOK
  BY LiveInvariant, PTL
<1> QED
  BY <1>1, TypesInvariant, NestedInvariant, KeysInvariant, DirectInit, DirectStep, PTL DEF Spec

(* Nothing a running test was given has been finalized: between two items  *)
(* whatever a teardown finishes takes the cached values that rest on it    *)
(* with it.  In the local loop what the test was given was built for the   *)
(* parameter it has now, and a parameter of the test is its own.           *)
THEOREM RunnerUsesLive == Spec => []UsesLive
<1>1. ASSUME Types, ParamsNested, KeysNested, RecsOK, LiveOK, DirectOK PROVE UsesLive
  <2> SUFFICES ASSUME pc = "call", NEW r \in got, ~r.hidden
               PROVE  r.id \in Live \cup {0} /\ (Local /\ ParamsFit => r.par = "none" \/ FitsParam(r))
    BY DEF UsesLive
  <2>1. Recorded(r) /\ Item = Items[pos]
    BY DEF Recorded, Item
  <2>2. CASE r.id = 0
    <3>1. Local /\ ParamsFit => Fits(r)
      BY <1>1, <2>1, <2>2, DirectFits
    <3> QED
      BY <2>1, <2>2, <3>1 DEF Fits, FitsParam
  <2>3. CASE r.id # 0
    <3>1. PICK i \in 1..Len(pend) : pend[i].id = r.id
      BY <1>1, <2>3 DEF LiveOK, Alive
    <3>2. r.id \in Live
      BY <3>1 DEF Live
    <3>3. PICK p : p = pend[i]
      OBVIOUS
    <3>4. Agrees(r, p) /\ p \in Held
      BY <1>1, <2>1, <3>1, <3>3 DEF RecsOK, Held
    <3>5. r.name = p.key.name /\ r.par = p.key.par
      BY <3>4 DEF Agrees
    <3>6. KeyHome(p) /\ p.scope \in Scopes
      BY <1>1, <3>3, <3>4 DEF KeysNested, Types, PendOK
    <3>7. ASSUME Local, ParamsFit, r.par # "none" PROVE r.par = ParamValue(Item, r.name)
      <4>1. CASE p.scope = "function"
        <5>1. r.par = ParOf(Item, r.name)
          BY <2>1, <3>5, <3>6, <4>1 DEF KeyHome
        <5> QED
          BY <3>7, <5>1 DEF ParOf, ParamValue
      <4>2. CASE p.scope \in Torn
        BY <2>1, <3>5, <3>6, <3>7, <4>2, ParamKept DEF AtItem
      <4>3. CASE p.scope = "session"
        <5>1. p.inst = <<r.name, r.par>>
          BY <3>5, <3>6, <3>7, <4>3 DEF KeyHome
        <5>2. p.inst # SessionInstance
          BY <5>1 DEF SessionInstance
        <5>3. UsedBy(p, pos)
          BY <1>1, <3>4, <3>7, <4>3, <5>2 DEF ParamsNested, ParamHome, AtItem
        <5>4. PICK n \in DOMAIN Item.par : p.inst = <<n, Item.par[n]>>
          BY <2>1, <5>3 DEF UsedBy
        <5>5. r.name = n /\ r.par = Item.par[n]
          BY <5>1, <5>4
        <5> QED
          BY <5>5 DEF ParamValue
      <4> QED
        BY <3>6, <3>7, <4>1, <4>2, <4>3 DEF Scopes, Rank, Torn
    <3> QED
      BY <3>2, <3>7 DEF FitsParam
  <2> QED
    BY <2>2, <2>3
<1> QED
  BY <1>1, TypesInvariant, ParamsInvariant, KeysInvariant, LiveInvariant, DirectInvariant, PTL
---------------------------------------------------------------------------
(* The refinement.  Values are numbered in the order they are made, and    *)
(* the finalizers stand in that order; a value is built on earlier ones,   *)
(* which are kept as long as it is, unless they are hidden from it; and    *)
(* the teardown of the session is the last of all.                         *)
Numbered ==
    /\ DOMAIN built = 1..next - 1
    /\ \A v \in 1..next - 1 : built[v] \subseteq 1..v - 1
    /\ \A i \in 1..Len(pend) : pend[i].id \in 1..next - 1
    /\ \A i, j \in 1..Len(pend) : i < j => pend[i].id < pend[j].id

BuiltBelow == \A i, j \in 1..Len(pend) :
    pend[i].id \in built[pend[j].id] => RestsBelow(pend[j], pend[i])

SessionLast == pc = "final" /\ agenda # <<>> =>
    agenda[Len(agenda)] = ScopeTask("session", SessionInstance)

LEMMA NumberedInit == Init => Numbered /\ BuiltBelow /\ SessionLast
<1> SUFFICES ASSUME Init PROVE Numbered /\ BuiltBelow /\ SessionLast
  OBVIOUS
<1>1. pend = <<>> /\ next = 1 /\ pc = "pick" /\ DOMAIN built = {}
  BY DEF Init
<1>2. ~\E i \in 1..Len(pend) : TRUE
  BY <1>1, EmptyFacts
<1>3. ~\E v \in 1..next - 1 : TRUE
  BY <1>1
<1>4. DOMAIN built = 1..next - 1
  BY <1>1, <1>3
<1> QED
  BY <1>1, <1>2, <1>3, <1>4 DEF Numbered, BuiltBelow, SessionLast

\* What a step that makes a value with a finalizer does.
Makes(p, on) == pend' = Append(pend, p) /\ p.id = next /\ Build(on)

LEMMA MakeSteps ==
    ASSUME Types, [Next]_vars
    PROVE  \/ UNCHANGED <<built, next>> /\ (RunFinalizer \/ pend' = pend)
           \/ EnsureXunit /\ Makes(Xid(XunitFirst), {})
           \/ \E d, rs : /\ Execute /\ \E k \in 1..Len(Defs) : d = Defs[k]
                         /\ rs = Rests(d, frames[Len(frames)].res)
                         /\ Makes(PendingOf(d, rs), {r.id : r \in {q \in rs : ~q.hidden}} \ {0})
<1> USE DEF hooks, counts, work
<1>1. CASE EnsureXunit
  <2>1. Xid(XunitFirst).id = next
    BY DEF Xid
  <2> QED
    BY <1>1, <2>1, EnsureXunitFacts DEF Makes
<1>2. CASE Execute
  <2>1. \A d, rs : PendingOf(d, rs).id = next
    BY DEF PendingOf
  <2> QED
    BY <1>2, <2>1, ExecuteFacts DEF Makes, ExecutedPlain, ExecutedYield, ExecutedFault
<1>3. CASE ~EnsureXunit /\ ~Execute
  BY <1>3 DEF Next, Pick, RunFinalizer, EndTask, Start, BeginSetup, Resolve, SetupDone, Call, EndItem,
              After, NextItem, Finish, vars
<1> QED
  BY <1>1, <1>2, <1>3

\* The finalizers after one has run: the others, in their order.
LEMMA OneLess ==
    ASSUME Types, RunFinalizer
    PROVE  \E i \in 1..Len(pend) :
             /\ Matches(agenda[1], pend[i])
             /\ \A j \in 1..Len(pend) : Matches(agenda[1], pend[j]) => j <= i
             /\ Len(pend) \in Nat /\ Len(pend') = Len(pend) - 1
             /\ \A j \in 1..Len(pend') : pend'[j] = IF j < i THEN pend[j] ELSE pend[j + 1]
             /\ \A k \in 1..Len(pend) : k # i => \E j \in 1..Len(pend') : pend'[j] = pend[k]
<1>1. Len(pend) \in Nat
  BY SeqFacts DEF Types, PendOK
<1>2. PICK i \in 1..Len(pend) :
          /\ Matches(agenda[1], pend[i])
          /\ \A j \in 1..Len(pend) : Matches(agenda[1], pend[j]) => j <= i
          /\ Len(pend') = Len(pend) - 1
          /\ \A j \in 1..Len(pend) - 1 : pend'[j] = IF j < i THEN pend[j] ELSE pend[j + 1]
  BY FinalizerFacts
<1>3. ASSUME NEW k \in 1..Len(pend), k # i PROVE \E j \in 1..Len(pend') : pend'[j] = pend[k]
  <2>1. CASE k < i
    <3>1. k \in 1..Len(pend') /\ pend'[k] = pend[k]
      BY <1>1, <1>2, <2>1
    <3> QED
      BY <3>1
  <2>2. CASE k > i
    <3>1. k - 1 \in 1..Len(pend') /\ pend'[k - 1] = pend[k]
      BY <1>1, <1>2, <2>2
    <3> QED
      BY <3>1
  <2> QED
    BY <1>1, <1>3, <2>1, <2>2
<1> QED
  BY <1>1, <1>2, <1>3

\* The finalizers after a value was made: those before it and its own.
LEMMA OneMore ==
    ASSUME Types, NEW p, NEW on, Makes(p, on)
    PROVE  /\ Len(pend) \in Nat /\ Len(pend') = Len(pend) + 1
           /\ \A i \in 1..Len(pend) : pend'[i] = pend[i]
           /\ pend'[Len(pend) + 1] = p
<1>1. IsSeq(pend) /\ Len(pend) \in Nat
  BY SeqFacts DEF Types, PendOK
<1>2. Len(pend') = Len(pend) + 1 /\ pend'[Len(pend) + 1] = p
  BY <1>1, AppendFacts DEF Makes
<1>3. \A i \in 1..Len(pend) : pend'[i] = pend[i]
  BY <1>1, AppendFacts DEF Makes
<1> QED
  BY <1>1, <1>2, <1>3

LEMMA BuildFacts ==
    ASSUME Types, Numbered, NEW p, NEW on, Makes(p, on)
    PROVE  /\ next \in 1..MaxValue /\ next' = next + 1 /\ next \in Nat
           /\ DOMAIN built' = 1..next' - 1 /\ built'[next] = on
           /\ \A v \in 1..next - 1 : built'[v] = built[v]
<1>1. next \in 1..MaxValue /\ next' = next + 1 /\ next \in Nat /\ next >= 1
  BY BuildTypes DEF Makes
<1>2. built' = [v \in DOMAIN built \cup {next} |-> IF v = next THEN on ELSE built[v]]
  BY DEF Makes, Build
<1>3. DOMAIN built = 1..next - 1
  BY DEF Numbered
<1>4. 1..next' - 1 = (1..next - 1) \cup {next}
  BY <1>1
<1> QED
  BY <1>1, <1>2, <1>3, <1>4

\* What a value is built on is there.
LEMMA BuiltAlive ==
    ASSUME Types, RecsOK, LiveOK, Execute, NEW k \in 1..Len(Defs), NEW d, d = Defs[k],
           NEW rs, rs = Rests(d, frames[Len(frames)].res), NEW q \in rs, ~q.hidden
    PROVE  Alive(q.id)
<1>1. Len(frames) \in 1..Len(frames) /\ pc \in {"early", "resolve"}
  BY ExecuteFacts, SeqFacts DEF Types, FramesOK
<1>2. \A r \in frames[Len(frames)].res : InFrames(r) /\ IsRecord(r)
  <2>1. \A r \in frames[Len(frames)].res : InFrames(r)
    BY <1>1 DEF InFrames
  <2> QED
    BY <2>1, RecordFacts DEF RecsOK, Recorded
<1>3. PICK r \in frames[Len(frames)].res : q.id = r.id /\ ~r.hidden
  BY <1>2, RestsFacts
<1> QED
  BY <1>1, <1>2, <1>3 DEF LiveOK

LEMMA NumberedStep ==
    ASSUME Types, RecsOK, LiveOK, Numbered, [Next]_vars
    PROVE  Numbered'
<1>1. Len(pend) \in Nat /\ next \in Nat
  BY SeqFacts, NextSteps DEF Types, PendOK
<1>2. CASE UNCHANGED <<built, next, pend>>
  BY <1>2 DEF Numbered
<1>3. CASE RunFinalizer /\ UNCHANGED <<built, next>>
  <2>1. PICK i \in 1..Len(pend) :
             /\ Len(pend') = Len(pend) - 1
             /\ \A j \in 1..Len(pend') : pend'[j] = IF j < i THEN pend[j] ELSE pend[j + 1]
    BY <1>3, OneLess
  <2> DEFINE At(j) == IF j < i THEN j ELSE j + 1
  <2>2. \A j \in 1..Len(pend') : At(j) \in 1..Len(pend) /\ pend'[j] = pend[At(j)]
    BY <1>1, <2>1
  <2>3. \A j, k \in 1..Len(pend') : j < k => At(j) < At(k)
    BY <1>1, <2>1
  <2> HIDE DEF At
  <2>4. \A j \in 1..Len(pend') : pend'[j].id \in 1..next - 1
    BY <2>2 DEF Numbered
  <2>5. \A j, k \in 1..Len(pend') : j < k => pend'[j].id < pend'[k].id
    BY <2>2, <2>3 DEF Numbered
  <2>6. DOMAIN built' = 1..next' - 1 /\ \A v \in 1..next' - 1 : built'[v] \subseteq 1..v - 1
    BY <1>3 DEF Numbered
  <2> QED
    BY <1>3, <2>4, <2>5, <2>6 DEF Numbered
<1>4. ASSUME NEW p, NEW on, Makes(p, on), on \subseteq 1..next - 1 PROVE Numbered'
  <2>1. /\ next' = next + 1 /\ DOMAIN built' = 1..next' - 1 /\ built'[next] = on
        /\ \A v \in 1..next - 1 : built'[v] = built[v]
    BY <1>4, BuildFacts
  <2>2. /\ Len(pend') = Len(pend) + 1 /\ \A i \in 1..Len(pend) : pend'[i] = pend[i]
        /\ pend'[Len(pend) + 1] = p
    BY <1>4, OneMore
  <2>3. p.id = next
    BY <1>4 DEF Makes
  <2>4. \A v \in 1..next' - 1 : built'[v] \subseteq 1..v - 1
    <3> SUFFICES ASSUME NEW v \in 1..next' - 1 PROVE built'[v] \subseteq 1..v - 1
      OBVIOUS
    <3>1. v \in 1..next - 1 \/ v = next
      BY <1>1, <2>1
    <3> QED
      BY <1>4, <2>1, <3>1 DEF Numbered
  <2>5. \A i \in 1..Len(pend') : i \in 1..Len(pend) \/ i = Len(pend) + 1
    BY <1>1, <2>2
  <2>6. next >= 1
    BY RunnerAssumption DEF Types, CountsOK
  <2>7. \A i \in 1..Len(pend) : pend'[i].id \in 1..next - 1
    BY <2>2 DEF Numbered
  <2>8. pend'[Len(pend) + 1].id = next
    BY <2>2, <2>3
  <2>9. \A i \in 1..Len(pend') : pend'[i].id \in 1..next' - 1
    BY <1>1, <2>1, <2>5, <2>6, <2>7, <2>8
  <2>10. \A i, j \in 1..Len(pend) : i < j => pend'[i].id < pend'[j].id
    BY <2>2 DEF Numbered
  <2>11. \A i, j \in 1..Len(pend') : i < j => pend'[i].id < pend'[j].id
    BY <1>1, <2>5, <2>7, <2>8, <2>10
  <2> QED
    BY <2>1, <2>4, <2>9, <2>11 DEF Numbered
<1>5. ASSUME NEW d, NEW rs, Execute, \E k \in 1..Len(Defs) : d = Defs[k],
             rs = Rests(d, frames[Len(frames)].res),
             NEW p, NEW on, on = {r.id : r \in {q \in rs : ~q.hidden}} \ {0}, Makes(p, on)
      PROVE  Numbered'
  <2>1. \A q \in rs : ~q.hidden => Alive(q.id)
    BY <1>5, BuiltAlive
  <2>2. \A v : Alive(v) => v = 0 \/ v \in 1..next - 1
    BY DEF Alive, Numbered
  <2>3. on \subseteq 1..next - 1
    BY <1>5, <2>1, <2>2
  <2> QED
    BY <1>4, <1>5, <2>3
<1> QED
  BY <1>2, <1>3, <1>4, <1>5, MakeSteps

LEMMA BuiltStep ==
    ASSUME Types, RecsOK, LiveOK, Numbered, BuiltBelow, [Next]_vars
    PROVE  BuiltBelow'
<1> DEFINE Goal == \A i, j \in 1..Len(pend') : \A x, y :
                     x = pend'[i] /\ y = pend'[j] /\ x.id \in built'[y.id] => RestsBelow(y, x)
<1>6. SUFFICES Goal
  <2>1. run' = run
    BY ControlSteps
  <2>2. \A x : OfParent(x)' <=> OfParent(x)
    BY <2>1, SameRun DEF OfParent, ParentNodes
  <2> QED
    BY <2>2 DEF BuiltBelow, RestsBelow
<1>1. Len(pend) \in Nat /\ next \in Nat
  BY SeqFacts, NextSteps DEF Types, PendOK
<1>2. CASE UNCHANGED <<built, next, pend>>
  BY <1>2 DEF BuiltBelow
<1>3. CASE RunFinalizer /\ UNCHANGED <<built, next>>
  <2>1. PICK i \in 1..Len(pend) :
             /\ Len(pend') = Len(pend) - 1
             /\ \A j \in 1..Len(pend') : pend'[j] = IF j < i THEN pend[j] ELSE pend[j + 1]
    BY <1>3, OneLess
  <2>2. ASSUME NEW j \in 1..Len(pend') PROVE \E k \in 1..Len(pend) : pend'[j] = pend[k]
    <3>1. j \in 1..Len(pend) /\ j + 1 \in 1..Len(pend)
      BY <1>1, <2>1
    <3>2. pend'[j] = pend[j] \/ pend'[j] = pend[j + 1]
      BY <2>1
    <3> QED
      BY <3>1, <3>2
  <2> QED
    BY <1>3, <2>2 DEF BuiltBelow
<1>4. ASSUME NEW p, NEW on, Makes(p, on),
             on \subseteq 1..next - 1,
             \A i \in 1..Len(pend) : pend[i].id \in on => RestsBelow(p, pend[i])
      PROVE  Goal
  <2>1. next' = next + 1 /\ built'[next] = on /\ \A v \in 1..next - 1 : built'[v] = built[v]
    BY <1>4, BuildFacts
  <2>2. /\ Len(pend') = Len(pend) + 1 /\ \A i \in 1..Len(pend) : pend'[i] = pend[i]
        /\ pend'[Len(pend) + 1] = p
    BY <1>4, OneMore
  <2>3. p.id = next
    BY <1>4 DEF Makes
  <2>4. \A i \in 1..Len(pend') : (i \in 1..Len(pend) /\ pend'[i] = pend[i]) \/ pend'[i] = p
    BY <1>1, <2>2
  <2>5. \A i \in 1..Len(pend) : pend[i].id \in 1..next - 1 /\ built[pend[i].id] \subseteq 1..pend[i].id - 1
    BY DEF Numbered
  <2>6. \A i \in 1..Len(pend) : built'[pend[i].id] = built[pend[i].id] /\ next \notin built[pend[i].id]
    <3> SUFFICES ASSUME NEW i \in 1..Len(pend)
                 PROVE  built'[pend[i].id] = built[pend[i].id] /\ next \notin built[pend[i].id]
      OBVIOUS
    <3>1. PICK v \in 1..next - 1 : v = pend[i].id
      BY <2>5
    <3>2. built'[v] = built[v] /\ built[v] \subseteq 1..v - 1
      BY <2>1, <2>5, <3>1
    <3>3. next \notin 1..v - 1
      BY <1>1, <3>1
    <3> QED
      BY <3>1, <3>2, <3>3
  <2>7. next \notin on
    BY <1>1, <1>4
  <2>8. ASSUME NEW i \in 1..Len(pend'), NEW j \in 1..Len(pend'), NEW x, x = pend'[i], NEW y, y = pend'[j],
               x.id \in built'[y.id]
        PROVE  RestsBelow(y, x)
    <3>1. CASE j \in 1..Len(pend) /\ y = pend[j]
      <4>1. x.id # next
        BY <2>6, <2>8, <3>1
      <4>2. i \in 1..Len(pend) /\ x = pend[i]
        BY <2>3, <2>4, <2>8, <4>1
      <4> QED
        BY <2>6, <2>8, <3>1, <4>2 DEF BuiltBelow
    <3>2. CASE y = p
      <4>1. x.id \in on /\ x.id # next
        BY <2>1, <2>3, <2>7, <2>8, <3>2
      <4>2. i \in 1..Len(pend) /\ x = pend[i]
        BY <2>3, <2>4, <2>8, <4>1
      <4> QED
        BY <1>4, <3>2, <4>1, <4>2
    <3> QED
      BY <2>4, <2>8, <3>1, <3>2
  <2> QED
    BY <2>8
<1>5. ASSUME NEW d, NEW rs, Execute, \E k \in 1..Len(Defs) : d = Defs[k],
             rs = Rests(d, frames[Len(frames)].res),
             NEW p, p = PendingOf(d, rs), NEW on, on = {r.id : r \in {q \in rs : ~q.hidden}} \ {0}, Makes(p, on)
      PROVE  Goal
  <2>1. p.scope = CacheScope(d, Item) /\ p.inst = CacheInstance(d, Item) /\ p.binds = Binds(d)
    BY <1>5 DEF PendingOf
  <2>2. \A q \in rs : ~q.hidden => \A i \in 1..Len(pend) : pend[i].id = q.id => RestsBelow(p, pend[i])
    BY <1>5, <2>1, BuiltRests
  <2>3. \A i \in 1..Len(pend) : pend[i].id \in on => RestsBelow(p, pend[i])
    BY <1>5, <2>2
  <2>4. \A q \in rs : ~q.hidden => Alive(q.id)
    BY <1>5, BuiltAlive
  <2>5. \A v : Alive(v) => v = 0 \/ v \in 1..next - 1
    BY DEF Alive, Numbered
  <2>6. on \subseteq 1..next - 1
    BY <1>5, <2>4, <2>5
  <2> QED
    BY <1>4, <1>5, <2>3, <2>6
<1> QED
  BY <1>2, <1>3, <1>4, <1>5, MakeSteps

LEMMA SessionLastStep == Types /\ SessionLast /\ [Next]_vars => SessionLast'
<1> SUFFICES ASSUME Types, SessionLast, [Next]_vars, pc' = "final", agenda' # <<>>
             PROVE  agenda'[Len(agenda')] = ScopeTask("session", SessionInstance)
  BY DEF SessionLast, ScopeTask, SessionInstance
<1> DEFINE last == ScopeTask("session", SessionInstance)
<1>1. CASE pc = "final" /\ agenda' = agenda
  BY <1>1 DEF SessionLast
<1>2. ASSUME NEW i, agenda' = FinalTasks(i) PROVE agenda'[Len(agenda')] = last
  <2> DEFINE c == ScopeTask("class", InstanceAt(Items[i], "class"))
             m == ScopeTask("module", InstanceAt(Items[i], "module"))
             p == ScopeTask("package", InstanceAt(Items[i], "package"))
             h == PackageTask(Items[i])
  <2>1. agenda' = <<last>> \/ agenda' = <<c, m, last>> \/ agenda' = <<c, m, p, h, last>>
    BY <1>2, FinalShape
  <2> HIDE DEF last, c, m, p, h
  <2>2. CASE agenda' = <<last>>
    BY <2>2
  <2>3. CASE agenda' = <<c, m, last>>
    BY <2>3
  <2>4. CASE agenda' = <<c, m, p, h, last>>
    BY <2>4
  <2> QED
    BY <2>1, <2>2, <2>3, <2>4
<1>3. CASE EndTask
  <2>1. pc = "final" /\ agenda # <<>> /\ Len(agenda) \in Nat
    BY <1>3, SeqFacts DEF EndTask, Types, ControlOK
  <2>2. /\ IsSeq(agenda') /\ Len(agenda) >= 1 /\ Len(agenda') = Len(agenda) - 1
        /\ \A k \in 1..Len(agenda) - 1 : agenda'[k] = agenda[k + 1]
    BY <1>3, EndTaskFacts
  <2>3. Len(agenda') # 0
    BY <2>2, SeqFacts
  <2>4. Len(agenda) - 1 \in 1..Len(agenda) - 1
    BY <2>1, <2>2, <2>3
  <2>5. agenda'[Len(agenda')] = agenda[Len(agenda) - 1 + 1]
    BY <2>2, <2>4
  <2> QED
    BY <2>1, <2>5 DEF SessionLast
<1>4. CASE Pick
  BY <1>2, <1>4 DEF Pick
<1>5. CASE After
  BY <1>2, <1>5 DEF After
<1>6. CASE RunFinalizer \/ Start \/ BeginSetup \/ SetupDone \/ Call \/ EndItem \/ NextItem \/ Finish
  BY <1>1, <1>6 DEF RunFinalizer, Start, BeginSetup, SetupDone, Call, EndItem, NextItem, Finish
<1>7. CASE EnsureXunit
  BY <1>7, EnsureXunitFacts DEF XunitGoesOn, Abort
<1>8. CASE Resolve
  BY <1>8, ResolveFacts DEF Abort, Asked, AskedArgument, Resolve, Resolving
<1>9. CASE Execute
  BY <1>9, ExecuteFacts DEF ExecutedPlain, ExecutedYield, ExecutedFault, Stores, Abort
<1>10. CASE UNCHANGED vars
  BY <1>1, <1>10 DEF vars
<1> QED
  BY <1>3, <1>4, <1>5, <1>6, <1>7, <1>8, <1>9, <1>10 DEF Next

RefInv == RecsOK /\ RestsOK /\ LiveOK /\ Numbered /\ BuiltBelow /\ SessionLast

LEMMA RefInvariant == Spec => []RefInv
<1>1. Init => RefInv
  BY RecsInit, RestsInit, LiveInit, NumberedInit DEF RefInv
<1>2. Types /\ Nested /\ TasksOK /\ RefInv /\ [Next]_vars => RefInv'
  BY RecsStep, RestsStep, LiveStep, NumberedStep, BuiltStep, SessionLastStep DEF RefInv
<1> QED
  BY <1>1, <1>2, TypesInvariant, NestedInvariant, TasksInvariant, PTL DEF Spec

\* Of a value and one that is built on it, the teardown that finishes the
\* first also finishes the second, until that of the session is due.
LEMMA GoesFirst ==
    ASSUME Types, Nested, TasksOK, SessionLast, agenda # <<>>, ~SessionIsDue, NEW q \in Held,
           NEW p, Matches(agenda[1], p), RestsBelow(q, p)
    PROVE  Matches(agenda[1], q)
<1>1. Len(agenda) \in Nat /\ 1 \in 1..Len(agenda)
  <2>1. IsSeq(agenda)
    BY DEF Types, ControlOK
  <2>2. Len(agenda) \in Nat /\ Len(agenda) # 0
    BY <2>1, SeqFacts
  <2> QED
    BY <2>2
<1>2. PICK t : t = agenda[1]
  OBVIOUS
<1>3. TaskOK(t) /\ Matches(t, p)
  BY <1>1, <1>2 DEF TasksOK
<1>4. HomeOK(q) /\ q.scope \in Scopes
  BY DEF Nested, HomeOK
<1>5. pc \in {"between", "teardown", "params", "final"} /\ N \in Nat /\ (pc # "final" => pos \in 1..N)
  BY RunFacts DEF Types, ControlOK
<1>6. q.scope = "function" => pc = "teardown" /\ HomeAt(q, pos)
  BY <1>4, <1>5 DEF HomeOK, FunctionHome
<1>7. CASE pc = "teardown"
  <2>1. t = ScopeTask("function", InstanceAt(Items[pos], "function"))
    BY <1>3, <1>7 DEF TaskOK
  <2>2. p.scope = "function"
    BY <1>3, <2>1, ScopeTaskFacts
  <2>3. q.scope = "function"
    BY <1>4, <2>2 DEF RestsBelow, Wider, Rank, Scopes
  <2>4. q.inst = InstanceAt(Items[pos], "function")
    BY <1>6, <2>3 DEF HomeAt, OfParent
  <2> QED
    BY <1>2, <2>1, <2>3, <2>4, ScopeTaskFacts
<1>8. CASE pc # "teardown"
  <2>1. /\ q.scope # "function" /\ ~Wider(q.scope, p.scope) /\ p.binds \subseteq q.binds
        /\ (p.scope = "session" => p.inst = SessionInstance)
    BY <1>6, <1>8 DEF RestsBelow
  <2>4. ~OfParent(q) /\ ~OfParent(p)
    BY DEF RestsBelow
  <2>2. CASE t.by # "scope"
    BY <1>2, <1>3, <2>1, <2>2 DEF Matches
  <2>3. CASE t.by = "scope"
    <3>1. p.scope = t.scope /\ p.inst = t.inst
      BY <1>3, <2>3 DEF Matches
    <3>2. pc # "params"
      BY <1>3, <2>1, <3>1 DEF TaskOK
    <3>3. t.scope \in Torn
      <4>1. CASE pc = "between"
        BY <1>3, <2>3, <4>1 DEF TaskOK
      <4>2. CASE pc = "final"
        <5>1. Len(agenda) > 1 /\ Len(agenda) \in 1..Len(agenda)
          BY <1>1, <4>2 DEF SessionIsDue
        <5>2. PICK u : u = agenda[Len(agenda)]
          OBVIOUS
        <5>3. u = ScopeTask("session", SessionInstance)
          BY <4>2, <5>2 DEF SessionLast
        <5>4. u.by = "scope" /\ u.scope = "session"
          BY <5>3, ScopeTaskFacts
        <5>5. t.scope \in Torn \cup {"session"}
          BY <1>3, <2>3, <4>2 DEF TaskOK
        <5>6. SUFFICES ASSUME t.scope = "session" PROVE FALSE
          BY <5>5
        <5>7. OfScope(t) /\ OfScope(u)
          BY <2>3, <5>4, <5>6 DEF OfScope, OfParent
        <5>8. Rank[t.scope] < Rank[u.scope]
          BY <1>1, <1>2, <4>2, <5>1, <5>2, <5>7 DEF TasksOK, NarrowFirst
        <5> QED
          BY <5>4, <5>6, <5>8 DEF Rank
      <4> QED
        BY <1>5, <1>8, <3>2, <4>1, <4>2
    <3>4. q.scope \in Torn /\ t.scope \in {"class", "module", "package"}
      BY <1>4, <2>1, <3>1, <3>3 DEF Wider, Rank, Scopes, Torn
    <3>5. TornHome(q) /\ ~OfParent(q) /\ ~OfParent(p)
      BY <1>4, <2>4, <3>4 DEF HomeOK, IsTorn
    <3>6. Due(q)
      <4>1. CASE pc = "final"
        BY <3>5, <4>1 DEF TornHome
      <4>2. CASE pc = "between"
        <5>1. pos > 1 /\ InstanceAt(Items[pos - 1], t.scope) # InstanceAt(Items[pos], t.scope)
          BY <1>3, <2>3, <4>2 DEF TaskOK
        <5>2. HomeAt(q, pos - 1) /\ (HomeAt(q, pos) \/ Due(q))
          BY <3>5, <4>2 DEF TornHome
        <5>3. SUFFICES ASSUME HomeAt(q, pos) PROVE FALSE
          BY <5>2
        <5>4. pos - 1 \in 1..N /\ pos \in 1..N /\ q.scope \in {"class", "module", "package"}
          BY <1>5, <3>4, <4>2, <5>1 DEF Torn
        <5>5. InstanceAt(Items[pos - 1], q.scope) = InstanceAt(Items[pos], q.scope)
          BY <3>5, <5>2, <5>3 DEF HomeAt
        <5> QED
          BY <2>1, <3>1, <3>4, <5>1, <5>4, <5>5, NodesNest DEF Types
      <4> QED
        BY <1>5, <1>8, <3>2, <4>1, <4>2
    <3>7. PICK k \in 1..Len(agenda) : agenda[k] = ScopeTask(q.scope, q.inst)
      BY <3>6 DEF Due
    <3>8. k = 1
      <4>1. SUFFICES ASSUME k # 1 PROVE FALSE
        OBVIOUS
      <4>2. /\ agenda[k].by = "scope" /\ agenda[k].scope = q.scope /\ agenda[k].inst = q.inst
        BY <3>7, ScopeTaskFacts
      <4>5. OfScope(agenda[k]) /\ OfScope(t)
        BY <2>3, <3>1, <3>5, <4>2 DEF OfScope, OfParent
      <4>3. 1 < k /\ pc \in {"between", "final"}
        BY <1>1, <1>5, <1>8, <3>2, <4>1
      <4>4. Rank[t.scope] < Rank[q.scope]
        BY <1>1, <1>2, <4>2, <4>3, <4>5 DEF TasksOK, NarrowFirst
      <4> QED
        BY <2>1, <3>1, <3>4, <4>4 DEF Wider, Rank, Torn
    <3> QED
      BY <3>7, <3>8, ScopeTaskFacts
  <2> QED
    BY <2>2, <2>3
<1> QED
  BY <1>7, <1>8

\* What FixtureLife sees: the values that have a finalizer, and at the end
\* those that the last teardown still finishes.
Stays == {pend[i].id : i \in {k \in 1..Len(pend) : pend[k].scope = "session"
                                                    /\ pend[k].inst = SessionInstance}}
Lives == IF SessionIsDue THEN Stays ELSE Live

LEMMA InitImplements == Init => Life!Init
<1> SUFFICES ASSUME Init PROVE Life!Init
  OBVIOUS
<1>1. pend = <<>> /\ pc = "pick" /\ built = [v \in {} |-> {}]
  BY DEF Init
<1>2. ~\E i \in 1..Len(pend) : TRUE
  BY <1>1, EmptyFacts
<1>3. Live = {} /\ ~SessionIsDue
  BY <1>1, <1>2 DEF Live, SessionIsDue
<1> QED
  BY <1>1, <1>3 DEF Life!Init

\* Where the last teardown comes to be due.
LEMMA DueSteps ==
    ASSUME Types, TasksOK, [Next]_vars
    PROVE  /\ SessionIsDue => SessionIsDue'
           /\ ~SessionIsDue /\ SessionIsDue' => pend' = pend /\ built' = built
           /\ EnsureXunit \/ Execute => ~SessionIsDue /\ ~SessionIsDue'
           /\ RunFinalizer => SessionIsDue' = SessionIsDue
<1>1. IsSeq(agenda) /\ Len(agenda) \in Nat
  BY SeqFacts DEF Types, ControlOK
<1>2. CASE EndTask
  <2>1. UNCHANGED <<pc, pend, built>> /\ ~EnsureXunit /\ ~Execute /\ ~RunFinalizer
    BY <1>2, NothingGoes DEF EndTask, work, RunFinalizer, EnsureXunit, Execute, Resolving
  <2>2. Len(agenda') = Len(agenda) - 1
    BY <1>2, EndTaskFacts
  <2> QED
    BY <1>1, <2>1, <2>2 DEF SessionIsDue
<1>3. CASE RunFinalizer
  <2>1. UNCHANGED <<pc, agenda>> /\ ~EnsureXunit /\ ~Execute
    BY <1>3, NothingGoes DEF RunFinalizer, EnsureXunit, Execute, Resolving
  <2> QED
    BY <1>3, <2>1 DEF SessionIsDue
<1>4. CASE EnsureXunit \/ Execute
  <2>1. pc \in {"early", "resolve"} /\ pc' \in {"early", "resolve", "teardown"} /\ ~RunFinalizer
    <3>1. Execute => pc \in {"early", "resolve"} /\ pc' \in {"early", "resolve", "teardown"}
      BY ExecuteFacts DEF ExecutedPlain, ExecutedYield, ExecutedFault, Stores, Abort
    <3>2. EnsureXunit => pc = "early" /\ pc' \in {"early", "resolve", "teardown"}
      BY EnsureXunitFacts DEF XunitGoesOn, Abort
    <3> QED
      BY <1>4, <3>1, <3>2, NothingGoes DEF RunFinalizer
  <2> QED
    BY <2>1 DEF SessionIsDue
<1> DEFINE Grows == /\ SessionIsDue => SessionIsDue'
                    /\ ~SessionIsDue /\ SessionIsDue' => pend' = pend /\ built' = built
<1>5. ASSUME Pick \/ Start \/ BeginSetup \/ Resolve \/ SetupDone \/ Call \/ EndItem \/ After \/ NextItem
             \/ Finish
      PROVE  Grows
  <2>1. UNCHANGED <<pend, built>>
    BY <1>5 DEF Pick, Start, BeginSetup, Resolve, SetupDone, Call, EndItem, After, NextItem, Finish, work
  <2>2. pc # "done" /\ (pc = "final" => agenda = <<>>)
    BY <1>5 DEF Pick, Start, BeginSetup, Resolve, Resolving, SetupDone, Call, EndItem, After, NextItem, Finish
  <2>3. pc = "final" => pc' \in {"final", "done"} /\ agenda' = agenda
    BY <1>5 DEF Pick, Start, BeginSetup, Resolve, Resolving, SetupDone, Call, EndItem, After, NextItem, Finish
  <2> QED
    BY <2>1, <2>2, <2>3 DEF SessionIsDue
<1>6. ASSUME UNCHANGED vars PROVE Grows
  BY <1>6 DEF vars, SessionIsDue
<1>7. Grows
  BY <1>2, <1>3, <1>4, <1>5, <1>6 DEF Next
<1> QED
  BY <1>3, <1>4, <1>7

LEMMA InStays ==
    ASSUME NEW v
    PROVE  v \in Stays <=> \E i \in 1..Len(pend) : /\ pend[i].id = v /\ pend[i].scope = "session"
                                                 /\ pend[i].inst = SessionInstance
  BY DEF Stays

LEMMA InLive ==
    ASSUME NEW v
    PROVE  v \in Live <=> \E i \in 1..Len(pend) : pend[i].id = v
  BY DEF Live

\* The teardown of the session comes to be due: what is left besides the
\* values of the session will not be finished, and nothing in the session
\* was built on it.
LEMMA LeaveStep ==
    ASSUME Types, Numbered, BuiltBelow, ~SessionIsDue, SessionIsDue', pend' = pend, built' = built
    PROVE  [Life!Next]_(Life!vars)
<1>1. Stays' = Stays /\ Lives = Live /\ Lives' = Stays /\ Stays \subseteq Live
  <2>1. Stays' = Stays
    BY DEF Stays, SessionInstance
  <2>2. Stays \subseteq Live
    BY InStays, InLive
  <2> QED
    BY <2>1, <2>2 DEF Lives
<1>2. ASSUME NEW w \in Stays, NEW v \in built[w], v \in Live PROVE v \in Stays
  <2>1. PICK j \in 1..Len(pend) : pend[j].id = w /\ pend[j].scope = "session"
    BY InStays
  <2>2. PICK i \in 1..Len(pend) : pend[i].id = v
    BY <1>2, InLive
  <2>3. PICK p, q : p = pend[i] /\ q = pend[j]
    OBVIOUS
  <2>4. RestsBelow(q, p) /\ p.scope \in Scopes
    BY <2>1, <2>2, <2>3 DEF BuiltBelow, Types, PendOK
  <2>5. p.scope = "session"
    BY <2>1, <2>3, <2>4 DEF RestsBelow, Wider, Rank, Scopes
  <2>6. p.inst = SessionInstance
    BY <2>1, <2>3, <2>4, <2>5 DEF RestsBelow
  <2> QED
    BY <2>2, <2>3, <2>5, <2>6, InStays
<1>3. PICK vs : vs = Live \ Stays
  OBVIOUS
<1>4. vs \in SUBSET Live /\ Live \ vs = Stays /\ \A w \in Live \ vs : built[w] \cap vs = {}
  BY <1>1, <1>2, <1>3
<1>5. Life!Leave(vs)
  BY <1>1, <1>4 DEF Life!Leave, Lives, Stays
<1> QED
  BY <1>1, <1>4, <1>5 DEF Life!Next, Lives, Stays

\* The finalizer that runs is that of a value no other is built on.
LEMMA FinishStep ==
    ASSUME Types, Nested, TasksOK, Numbered, BuiltBelow, SessionLast, RunFinalizer,
           SessionIsDue' = SessionIsDue
    PROVE  [Life!Next]_(Life!vars)
<1>1. PICK i \in 1..Len(pend) :
          /\ Matches(agenda[1], pend[i])
          /\ \A j \in 1..Len(pend) : Matches(agenda[1], pend[j]) => j <= i
          /\ Len(pend) \in Nat /\ Len(pend') = Len(pend) - 1
          /\ \A j \in 1..Len(pend') : pend'[j] = IF j < i THEN pend[j] ELSE pend[j + 1]
          /\ \A k \in 1..Len(pend) : k # i => \E j \in 1..Len(pend') : pend'[j] = pend[k]
  BY OneLess
<1>2. PICK p, v : p = pend[i] /\ v = p.id
  OBVIOUS
<1>3. agenda # <<>> /\ built' = built
  BY DEF RunFinalizer, work
<1>4. \A j, k \in 1..Len(pend) : pend[j].id = pend[k].id => j = k
  <2> SUFFICES ASSUME NEW j \in 1..Len(pend), NEW k \in 1..Len(pend), pend[j].id = pend[k].id, j # k
               PROVE  FALSE
    OBVIOUS
  <2>1. j < k \/ k < j
    BY <1>1
  <2>2. pend[j].id \in 1..next - 1
    BY DEF Numbered
  <2>3. pend[j].id < pend[k].id \/ pend[k].id < pend[j].id
    BY <2>1 DEF Numbered
  <2> QED
    BY <2>2, <2>3
<1>5. ASSUME NEW j \in 1..Len(pend') PROVE \E k \in 1..Len(pend) : k # i /\ pend'[j] = pend[k]
  <2>1. CASE j < i
    <3>1. j \in 1..Len(pend) /\ j # i /\ pend'[j] = pend[j]
      BY <1>1, <2>1
    <3> QED
      BY <3>1
  <2>2. CASE ~(j < i)
    <3>1. j + 1 \in 1..Len(pend) /\ j + 1 # i /\ pend'[j] = pend[j + 1]
      BY <1>1, <2>2
    <3> QED
      BY <3>1
  <2> QED
    BY <2>1, <2>2
<1>6. Live' = Live \ {v}
  <2>1. ASSUME NEW w PROVE w \in Live' <=> (w \in Live /\ w # v)
    <3>1. ASSUME w \in Live' PROVE w \in Live /\ w # v
      <4>1. PICK j \in 1..Len(pend') : pend'[j].id = w
        BY <3>1 DEF Live
      <4>2. PICK k \in 1..Len(pend) : k # i /\ pend'[j] = pend[k]
        BY <1>5
      <4> QED
        BY <1>2, <1>4, <4>1, <4>2, InLive
    <3>2. ASSUME w \in Live, w # v PROVE w \in Live'
      <4>1. PICK k \in 1..Len(pend) : pend[k].id = w
        BY <3>2, InLive
      <4>2. PICK j \in 1..Len(pend') : pend'[j] = pend[k]
        BY <1>1, <1>2, <3>2, <4>1
      <4> QED
        BY <4>1, <4>2 DEF Live
    <3> QED
      BY <3>1, <3>2
  <2> QED
    BY <2>1
<1>7. Stays' = Stays \ {v}
  <2>1. ASSUME NEW w PROVE w \in Stays' <=> (w \in Stays /\ w # v)
    <3>1. ASSUME w \in Stays' PROVE w \in Stays /\ w # v
      <4>1. PICK j \in 1..Len(pend') : /\ pend'[j].id = w /\ pend'[j].scope = "session"
                                       /\ pend'[j].inst = SessionInstance
        BY <3>1 DEF Stays, SessionInstance
      <4>2. PICK k \in 1..Len(pend) : k # i /\ pend'[j] = pend[k]
        BY <1>5
      <4> QED
        BY <1>2, <1>4, <4>1, <4>2, InStays
    <3>2. ASSUME w \in Stays, w # v PROVE w \in Stays'
      <4>1. PICK k \in 1..Len(pend) : /\ pend[k].id = w /\ pend[k].scope = "session"
                                      /\ pend[k].inst = SessionInstance
        BY <3>2, InStays
      <4>2. PICK j \in 1..Len(pend') : pend'[j] = pend[k]
        BY <1>1, <1>2, <3>2, <4>1
      <4> QED
        BY <4>1, <4>2 DEF Stays, SessionInstance
    <3> QED
      BY <3>1, <3>2
  <2> QED
    BY <2>1
<1>8. Lives' = Lives \ {v}
  BY <1>6, <1>7 DEF Lives
<1>9. SessionIsDue => agenda[1] = ScopeTask("session", SessionInstance)
  <2> SUFFICES ASSUME SessionIsDue PROVE agenda[1] = ScopeTask("session", SessionInstance)
    OBVIOUS
  <2>1. IsSeq(agenda) /\ Len(agenda) \in Nat /\ Len(agenda) # 0 /\ pc = "final"
    BY <1>3, SeqFacts DEF Types, ControlOK, SessionIsDue
  <2>2. Len(agenda) = 1
    <3> DEFINE n == Len(agenda)
    <3>1. n <= 1
      BY DEF SessionIsDue
    <3>2. n \in Nat /\ n # 0
      BY <2>1
    <3> HIDE DEF n
    <3>3. n = 1
      BY <3>1, <3>2
    <3> QED
      BY <3>3 DEF n
  <2> QED
    BY <1>3, <2>1, <2>2 DEF SessionLast
<1>10. v \in Lives
  <2>1. CASE SessionIsDue
    <3>1. p.scope = "session" /\ p.inst = SessionInstance
      BY <1>1, <1>2, <1>9, <2>1, ScopeTaskFacts
    <3> QED
      BY <1>2, <2>1, <3>1, InStays DEF Lives
  <2>2. CASE ~SessionIsDue
    BY <1>2, <2>2, InLive DEF Lives
  <2> QED
    BY <2>1, <2>2
<1>11. ASSUME NEW w \in Lives, v \in built[w] PROVE FALSE
  <2>1. PICK j \in 1..Len(pend) : /\ pend[j].id = w
                                  /\ SessionIsDue => pend[j].scope = "session" /\ pend[j].inst = SessionInstance
    BY InStays, InLive DEF Lives
  <2>2. PICK q : q = pend[j]
    OBVIOUS
  <2>3. RestsBelow(q, p) /\ q \in Held
    BY <1>2, <1>11, <2>1, <2>2 DEF BuiltBelow, Held
  <2>4. Matches(agenda[1], q)
    <3>1. CASE SessionIsDue
      BY <1>9, <2>1, <2>2, <3>1, ScopeTaskFacts
    <3>2. CASE ~SessionIsDue
      BY <1>1, <1>2, <1>3, <2>3, <3>2, GoesFirst
    <3> QED
      BY <3>1, <3>2
  <2>5. j <= i
    BY <1>1, <2>2, <2>4
  <2>6. w \in 1..next - 1 /\ built[w] \subseteq 1..w - 1 /\ next \in Nat
    BY <2>1 DEF Numbered, Types, CountsOK
  <2>7. v \in 1..w - 1
    BY <1>11, <2>6
  <2>8. j # i
    BY <1>2, <2>1, <2>6, <2>7
  <2>9. pend[j].id < pend[i].id
    BY <1>1, <2>5, <2>8 DEF Numbered
  <2> QED
    BY <1>2, <2>1, <2>6, <2>7, <2>9
<1>12. Life!Finish(v)
  BY <1>3, <1>8, <1>10, <1>11 DEF Life!Finish, Lives, Stays
<1> QED
  BY <1>10, <1>12 DEF Life!Next, Lives, Stays

\* A value is set up on values that are there.
LEMMA SetUpStep ==
    ASSUME Types, Numbered, ~SessionIsDue, ~SessionIsDue', NEW p, NEW on, Makes(p, on), on \subseteq Live
    PROVE  [Life!Next]_(Life!vars)
<1>1. /\ next \in 1..MaxValue /\ next \in Nat
      /\ built' = [v \in DOMAIN built \cup {next} |-> IF v = next THEN on ELSE built[v]]
      /\ DOMAIN built = 1..next - 1
  BY BuildFacts DEF Makes, Build, Numbered
<1>2. next \notin DOMAIN built
  BY <1>1
<1>3. /\ Len(pend) \in Nat /\ Len(pend') = Len(pend) + 1
      /\ \A i \in 1..Len(pend) : pend'[i] = pend[i]
      /\ pend'[Len(pend) + 1] = p
  BY OneMore
<1>4. p.id = next
  BY DEF Makes
<1>5. \A i : i \in 1..Len(pend') <=> i \in 1..Len(pend) \/ i = Len(pend) + 1
  BY <1>3
<1>6. Live' = Live \cup {next}
  <2>1. ASSUME NEW w PROVE w \in Live' <=> (w \in Live \/ w = next)
    <3>1. w \in Live' <=> \E i \in 1..Len(pend') : pend'[i].id = w
      BY DEF Live
    <3>2. w \in Live <=> \E i \in 1..Len(pend) : pend'[i].id = w
      BY <1>3, InLive
    <3> QED
      BY <1>3, <1>4, <1>5, <3>1, <3>2
  <2> QED
    BY <2>1
<1>7. Lives = Live /\ Lives' = Live'
  BY DEF Lives
<1>8. Life!SetUp(next, on)
  <2>1. SessionIsDue' = SessionIsDue
    BY DEF SessionIsDue
  <2>2. Lives' = Lives \cup {next} /\ on \in SUBSET Lives
    BY <1>6, <1>7
  <2>3. next \in 1..MaxValue \ DOMAIN built
    BY <1>1, <1>2
  <2> QED
    BY <1>1, <2>1, <2>2, <2>3 DEF Life!SetUp, Lives, Stays
<1> QED
  BY <1>1, <1>7, <1>8 DEF Life!Next, Lives, Stays

LEMMA LifeStep ==
    ASSUME Types, Nested, TasksOK, RefInv, [Next]_vars
    PROVE  [Life!Next]_(Life!vars)
<1> USE DEF RefInv
<1>1. CASE pend' = pend /\ built' = built /\ SessionIsDue' = SessionIsDue
  <2>1. Live' = Live /\ Stays' = Stays
    BY <1>1 DEF Live, Stays, SessionInstance
  <2>2. Lives' = Lives
    BY <1>1, <2>1 DEF Lives
  <2> QED
    BY <1>1, <2>2 DEF Life!vars, Lives, Stays
<1>2. CASE ~SessionIsDue /\ SessionIsDue'
  BY <1>2, DueSteps, LeaveStep
<1>3. CASE RunFinalizer
  BY <1>3, DueSteps, FinishStep
<1>4. CASE EnsureXunit /\ Makes(Xid(XunitFirst), {})
  BY <1>4, DueSteps, SetUpStep
<1>5. ASSUME NEW d, NEW rs, Execute, NEW k \in 1..Len(Defs), d = Defs[k],
             rs = Rests(d, frames[Len(frames)].res),
             NEW p, NEW on, on = {r.id : r \in {q \in rs : ~q.hidden}} \ {0}, Makes(p, on)
      PROVE  [Life!Next]_(Life!vars)
  <2>1. \A q \in rs : ~q.hidden => Alive(q.id)
    BY <1>5, BuiltAlive
  <2>2. on \subseteq Live
    BY <1>5, <2>1, InLive DEF Alive
  <2> QED
    BY <1>5, <2>2, DueSteps, SetUpStep
<1>6. SessionIsDue => SessionIsDue'
  BY DueSteps
<1>7. \/ pend' = pend /\ built' = built
      \/ RunFinalizer
      \/ EnsureXunit /\ Makes(Xid(XunitFirst), {})
      \/ \E d, rs : /\ Execute /\ \E k \in 1..Len(Defs) : d = Defs[k]
                    /\ rs = Rests(d, frames[Len(frames)].res)
                    /\ Makes(PendingOf(d, rs), {r.id : r \in {q \in rs : ~q.hidden}} \ {0})
  BY MakeSteps
<1>8. (SessionIsDue' = SessionIsDue) \/ (~SessionIsDue /\ SessionIsDue')
  BY <1>6 DEF SessionIsDue
<1> QED
  BY <1>1, <1>2, <1>3, <1>4, <1>5, <1>7, <1>8

(* The fixture engine does what FixtureLife says: every value is set up on *)
(* values that are there, a finalizer runs only when nothing built on its  *)
(* value is left, and what the loops leave at the end is left together     *)
(* with all that was built on it.                                          *)
THEOREM RunnerImplements == Spec => Implements
<1>1. Init => Life!Init
  BY InitImplements
<1>2. Types /\ Nested /\ TasksOK /\ RefInv /\ [Next]_vars => [Life!Next]_(Life!vars)
  BY LifeStep
<1> QED
  BY <1>1, <1>2, TypesInvariant, NestedInvariant, TasksInvariant, RefInvariant, PTL
     DEF Spec, Implements, Life!Spec
---------------------------------------------------------------------------
(* What FixtureLife promises.  The values that are live, as Life has them. *)
LifeLive == IF SessionIsDue
            THEN {pend[i].id : i \in {k \in 1..Len(pend) : pend[k].scope = "session"
                                                            /\ pend[k].inst = SessionInstance}}
            ELSE Live

(* live and needs stay within the values a run can build.                  *)
THEOREM LifeTypes == Life!Spec => []Life!TypeOK
<1>1. Life!Init => Life!TypeOK
  BY DEF Life!Init, Life!TypeOK, LifeLive
<1>2. Life!TypeOK /\ [Life!Next]_(Life!vars) => Life!TypeOK'
  <2> SUFFICES ASSUME Life!TypeOK, [Life!Next]_(Life!vars) PROVE Life!TypeOK'
    OBVIOUS
  <2>1. ASSUME NEW v \in (1..MaxValue), NEW on \in SUBSET LifeLive, Life!SetUp(v, on) PROVE Life!TypeOK'
    <3>1. DOMAIN built' = DOMAIN built \cup {v}
      BY <2>1 DEF Life!SetUp, LifeLive
    <3>2. \A w \in DOMAIN built' : built'[w] = IF w = v THEN on ELSE built[w]
      BY <2>1 DEF Life!SetUp, LifeLive
    <3> QED
      BY <2>1, <3>1, <3>2 DEF Life!SetUp, Life!TypeOK, LifeLive
  <2>2. ASSUME NEW v \in LifeLive, Life!Finish(v) PROVE Life!TypeOK'
    BY <2>2 DEF Life!Finish, Life!TypeOK, LifeLive
  <2>3. ASSUME NEW vs \in SUBSET LifeLive, Life!Leave(vs) PROVE Life!TypeOK'
    BY <2>3 DEF Life!Leave, Life!TypeOK, LifeLive
  <2>4. CASE UNCHANGED Life!vars
    BY <2>4 DEF Life!TypeOK, Life!vars, LifeLive
  <2> QED
    BY <2>1, <2>2, <2>3, <2>4 DEF Life!Next, LifeLive
<1> QED
  BY <1>1, <1>2, PTL DEF Life!Spec

(* A value is never used, or finished, after what it was built on: at any  *)
(* time everything a live value rests on is live.                          *)
THEOREM LifeNothingMissing == Life!Spec => []Life!NothingMissing
<1>1. Life!Init => Life!NothingMissing
  BY DEF Life!Init, Life!NothingMissing, LifeLive
<1>2. Life!TypeOK /\ Life!NothingMissing /\ [Life!Next]_(Life!vars) => Life!NothingMissing'
  <2> SUFFICES ASSUME Life!TypeOK, Life!NothingMissing, [Life!Next]_(Life!vars) PROVE Life!NothingMissing'
    OBVIOUS
  <2>1. ASSUME NEW v \in (1..MaxValue), NEW on \in SUBSET LifeLive, Life!SetUp(v, on) PROVE Life!NothingMissing'
    <3>1. v \notin LifeLive
      BY <2>1 DEF Life!SetUp, Life!TypeOK, LifeLive
    <3>2. \A w \in LifeLive' : built'[w] = IF w = v THEN on ELSE built[w]
      BY <2>1 DEF Life!SetUp, Life!TypeOK, LifeLive
    <3>3. LifeLive' = LifeLive \cup {v}
      BY <2>1 DEF Life!SetUp, LifeLive
    <3> SUFFICES ASSUME NEW w \in LifeLive' PROVE built'[w] \subseteq LifeLive'
      BY DEF Life!NothingMissing, LifeLive
    <3>4. CASE w = v
      BY <3>2, <3>3, <3>4
    <3>5. CASE w \in LifeLive /\ w # v
      BY <3>2, <3>3, <3>5 DEF Life!NothingMissing, LifeLive
    <3> QED
      BY <3>3, <3>4, <3>5
  <2>2. ASSUME NEW v \in LifeLive, Life!Finish(v) PROVE Life!NothingMissing'
    <3>1. \A w \in LifeLive' : w \in LifeLive /\ built'[w] = built[w] /\ v \notin built[w]
      BY <2>2 DEF Life!Finish, LifeLive
    <3> QED
      BY <2>2, <3>1 DEF Life!Finish, Life!NothingMissing, LifeLive
  <2>3. ASSUME NEW vs \in SUBSET LifeLive, Life!Leave(vs) PROVE Life!NothingMissing'
    <3>1. \A w \in LifeLive' : w \in LifeLive /\ built'[w] = built[w] /\ built[w] \cap vs = {}
      BY <2>3 DEF Life!Leave, LifeLive
    <3> QED
      BY <2>3, <3>1 DEF Life!Leave, Life!NothingMissing, LifeLive
  <2>4. CASE UNCHANGED Life!vars
    BY <2>4 DEF Life!NothingMissing, Life!vars, LifeLive
  <2> QED
    BY <2>1, <2>2, <2>3, <2>4 DEF Life!Next, LifeLive
<1> QED
  BY <1>1, <1>2, LifeTypes, PTL DEF Life!Spec

(* No value is finished twice: once it has left live it never returns.     *)
THEOREM LifeOnceOnly == Life!Spec => Life!OnceOnly
<1> DEFINE A == /\ \A v \in DOMAIN built : v \in LifeLive' => v \in LifeLive
                /\ \A v \in DOMAIN built : v \in DOMAIN built' /\ built'[v] = built[v]
<1>1. Life!TypeOK /\ [Life!Next]_(Life!vars) => [A]_(Life!vars)
  <2> SUFFICES ASSUME Life!TypeOK, Life!Next PROVE A
    OBVIOUS
  <2>1. ASSUME NEW v \in (1..MaxValue), NEW on \in SUBSET LifeLive, Life!SetUp(v, on) PROVE A
    <3>1. DOMAIN built' = DOMAIN built \cup {v} /\ v \notin DOMAIN built
      BY <2>1 DEF Life!SetUp, LifeLive
    <3>2. \A w \in DOMAIN built : built'[w] = built[w]
      BY <2>1, <3>1 DEF Life!SetUp, LifeLive
    <3> QED
      BY <2>1, <3>1, <3>2 DEF Life!SetUp, LifeLive
  <2>2. ASSUME NEW v \in LifeLive, Life!Finish(v) PROVE A
    BY <2>2 DEF Life!Finish, LifeLive
  <2>3. ASSUME NEW vs \in SUBSET LifeLive, Life!Leave(vs) PROVE A
    BY <2>3 DEF Life!Leave, LifeLive
  <2> HIDE DEF A
  <2> QED
    BY <2>1, <2>2, <2>3 DEF Life!Next, LifeLive
<1> QED
  BY <1>1, LifeTypes, PTL DEF Life!Spec, Life!OnceOnly, LifeLive

(* While values are still set up, whatever one of them was built on has    *)
(* not been finished, whatever was hidden from it apart.                   *)
THEOREM RunnerNothingMissing == Spec => []Life!NothingMissing
BY RunnerImplements, LifeNothingMissing, PTL DEF Implements
=============================================================================
