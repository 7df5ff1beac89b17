------------------------------- MODULE Runner -------------------------------
(***************************************************************************)
(* One process runs a list of tests: the item loop (runner/mod.rs          *)
(* run_items, or worker.rs run_batch in a worker of a -n run), the setup,  *)
(* call and teardown of an item (runner/item), the fixture cache and the   *)
(* vector of pending finalizers (runner/fixtures.rs, runner/teardown.rs)   *)
(* and the event loops of the asyncio plugin.                              *)
(*                                                                         *)
(* The process is single-threaded; what a model checker adds is every test *)
(* list of Suites, either loop, and every choice of which fixture body,    *)
(* test or finalizer fails, at most MaxFaults of them in a run.            *)
(***************************************************************************)
EXTENDS FixtureDefs, FiniteSetsExt

CONSTANTS
    Suites,     \* named test lists: a function to records [defs, items, xunit, batches]
    Modes,      \* "local" (run_items) and "worker" (run_batch)
    MaxFails,   \* values of --maxfail to try, 0 is none
    Stepwises,  \* whether --stepwise is given
    Reruns,     \* attempts a protocol hook makes at a failing item; 0: no such hook
    MaxFaults,  \* bound: failures of user code in one run
    MaxValue    \* bound: values with a finalizer that one run builds

ASSUME RunnerAssumption ==
    /\ Modes \subseteq {"local", "worker"} /\ Stepwises \subseteq BOOLEAN
    /\ MaxFails \subseteq Nat /\ Reruns \subseteq Nat /\ MaxFaults \in Nat
    /\ MaxValue \in Nat

(* A scope is one of five, a parametrization with a scope sort key has one *)
(* above function, "none" stands for no parameter.  The nodes of an item   *)
(* are prefixes of its node ID: a class lies in one module, a module in    *)
(* one package.  A name is parametrized for a fixture or directly.         *)
ASSUME SuitesAssumption == \A s \in DOMAIN Suites :
    LET defs == Suites[s].defs
        items == Suites[s].items
    IN  /\ Len(defs) \in Nat /\ DOMAIN defs = 1..Len(defs)
        /\ Len(items) \in Nat /\ DOMAIN items = 1..Len(items)
        /\ \A k \in DOMAIN defs : defs[k].scope \in Scopes /\ defs[k].loop \in Scopes
        /\ \A i \in DOMAIN items :
             /\ items[i].loop \in Scopes /\ IsFiniteSet(DOMAIN items[i].par)
             /\ DOMAIN items[i].par \cap DOMAIN items[i].direct = {}
             /\ \A n \in DOMAIN items[i].par : items[i].par[n] # "none"
             /\ \A n \in DOMAIN items[i].direct : items[i].direct[n] # "none"
             /\ \A n \in DOMAIN items[i].keys : items[i].keys[n] \in Scopes \ {"function"}
        /\ \A i, j \in DOMAIN items :
             /\ items[i].cls = items[j].cls => items[i].mod = items[j].mod
             /\ items[i].mod = items[j].mod =>
                   items[i].pkg = items[j].pkg /\ items[i].parent = items[j].parent
             /\ items[i].mod # items[j].parent

VARIABLES
    run,      \* the test list and options of this run
    pc,       \* what the process does next
    pos,      \* index of the current item
    agenda,   \* teardowns still to do before going on
    errs,     \* whether a finalizer of the current teardown failed
    want,     \* fixtures the current item still has to set up
    frames,   \* fixtures being resolved, outermost first
    got,      \* what the values handed to the current item rest on
    cache,    \* the fixture cache
    pend,     \* pending finalizers, oldest first
    built,    \* what each value with a finalizer was built on (history)
    next,     \* identity of the next value that is built
    xdone,    \* modules and packages whose setup_module is recorded
    loops,    \* open event loops
    curMod,   \* module the asyncio plugin saw last
    failed,   \* failures counted
    bad,      \* the current attempt failed
    attempt,  \* attempts made at the current item
    stop,     \* pytest.exit was called
    faults,   \* failures of user code so far
    tdrep,    \* outcome of each item's teardown report
    heldHook, \* item whose teardown hook is held back, 0 if none
    saw       \* outcome the teardown hook of each item was called with

vars == <<run, pc, pos, agenda, errs, want, frames, got, cache, pend, built, next, xdone,
          loops, curMod, failed, bad, attempt, stop, faults, tdrep, heldHook, saw>>
work == <<want, frames, got, built, next>>
counts == <<failed, bad, attempt, stop>>
hooks == <<tdrep, heldHook, saw>>

Items == Suites[run.suite].items
Defs == Suites[run.suite].defs
Item == Items[pos]
N == Len(Items)
Local == run.mode = "local"
Live == {pend[i].id : i \in 1..Len(pend)}
NoLoop == [scope |-> "none", key |-> <<>>, mod |-> ""]
Fault == faults < MaxFaults /\ faults' = faults + 1
MaxFailHit == run.maxfail > 0 /\ failed >= run.maxfail

---------------------------------------------------------------------------
(* Teardown tasks: all finalizers of one scope instance, or all that carry *)
(* a parametrization that ended.                                           *)

ScopeTask(scope, inst) == [by |-> "scope", scope |-> scope, inst |-> inst, ended |-> {}]
EndedTask(ended) == [by |-> "params", scope |-> "none", inst |-> <<>>, ended |-> ended]

Matches(task, x) ==
    IF task.by = "scope" THEN x.scope = task.scope /\ x.inst = task.inst
                         ELSE x.binds \cap task.ended # {}

(* What lies between two items at one scope: the scope's own teardown when *)
(* its node changes, else the parametrizations that move on, if any.       *)
Boundary(scope, prev, it) ==
    IF InstanceAt(prev, scope) # InstanceAt(it, scope)
    THEN ScopeTask(scope, InstanceAt(prev, scope))
    ELSE EndedTask(EndedParamBindings(prev, it, scope))

(* What setup_module of the package around an item's module is undone by.  *)
PackageTask(it) == IF it.parent = "" THEN EndedTask({}) ELSE ScopeTask("module", <<it.parent>>)

LocalBoundary(prev, it) ==
    <<Boundary("class", prev, it), Boundary("module", prev, it), Boundary("package", prev, it),
      IF prev.parent # it.parent THEN PackageTask(prev) ELSE EndedTask({})>>

(* A worker tears scopes down when their node changes, and does no more.   *)
WorkerBoundary(prev, it) ==
    LET Left(scope) == IF InstanceAt(prev, scope) # InstanceAt(it, scope)
                       THEN Boundary(scope, prev, it) ELSE EndedTask({})
    IN  <<Left("class"), Left("module")>>

MutSessionParams(i) ==     \* mutant: the value of the next item is not compared
    LET ended == {n \in DOMAIN Items[i].par : i = N \/ n \notin DOMAIN Items[i + 1].par}
    IN  [k \in 1..Cardinality(ended) |->
            LET n == SetToSeq(ended)[k] IN ScopeTask("session", <<n, Items[i].par[n]>>)]

(* After an item: the session-scoped parametrized fixtures that the next   *)
(* item does not use with the same value.                                  *)
SessionParams(i) ==
    LET Ends(n) == /\ Known(Defs, n, Items[i]) /\ Lookup(Defs, n, Items[i]).scope = "session"
                   /\ i = N \/ ~(n \in DOMAIN Items[i + 1].par
                                 /\ Items[i + 1].par[n] = Items[i].par[n])
        ended == {n \in DOMAIN Items[i].par : Ends(n)}
    IN  [k \in 1..Cardinality(ended) |->
            LET n == SetToSeq(ended)[k] IN ScopeTask("session", <<n, Items[i].par[n]>>)]

(* The last teardowns, for the nodes of the last item that was reached.    *)
MutFinalTasks(i) ==     \* mutant: the local loop forgets setup_module of the package
    LET At(s) == ScopeTask(s, InstanceAt(Items[i], s))
        last == ScopeTask("session", SessionInstance)
    IN  IF i = 0 THEN <<last>> ELSE <<At("class"), At("module"), At("package"), last>>

FinalTasks(i) ==
    LET At(s) == ScopeTask(s, InstanceAt(Items[i], s))
        last == ScopeTask("session", SessionInstance)
    IN  IF i = 0 THEN <<last>>
        ELSE IF Local
        THEN <<At("class"), At("module"), At("package"), PackageTask(Items[i]), last>>
        ELSE <<At("class"), At("module"), last>>

---------------------------------------------------------------------------
Init ==
    /\ run \in [suite : DOMAIN Suites, mode : Modes, maxfail : MaxFails, sw : Stepwises, rerun : Reruns]
    /\ (run.sw => run.mode = "local" /\ run.maxfail = 0)
    /\ pc = "pick" /\ pos = 1 /\ agenda = <<>> /\ errs = FALSE
    /\ want = <<>> /\ frames = <<>> /\ got = {} /\ cache = {} /\ pend = <<>>
    /\ built = [v \in {} |-> {}] /\ next = 1
    /\ xdone = {} /\ loops = {} /\ curMod = <<>>
    /\ failed = 0 /\ bad = FALSE /\ attempt = 0 /\ stop = FALSE /\ faults = 0
    /\ tdrep = [i \in 1..Len(Suites[run.suite].items) |-> "none"]
    /\ saw = [i \in 1..Len(Suites[run.suite].items) |-> "none"] /\ heldHook = 0

(* The head of the loop.  A worker looks at pytest.exit only between       *)
(* batches.                                                                *)
Leaves == \/ pos > N \/ MaxFailHit
          \/ stop /\ (Local \/ pos \in Suites[run.suite].batches)

Pick ==
    /\ pc = "pick"
    /\ IF Leaves
       THEN pc' = "final" /\ agenda' = FinalTasks(pos - 1)
       ELSE /\ pc' = "between"
            /\ agenda' = IF pos = 1 THEN <<>>
                         ELSE IF Local THEN LocalBoundary(Items[pos - 1], Item)
                                       ELSE WorkerBoundary(Items[pos - 1], Item)
    /\ attempt' = 0 /\ bad' = FALSE
    /\ UNCHANGED <<run, pos, errs, work, cache, pend, xdone, loops, curMod, failed, stop, faults,
                   hooks>>

(* The youngest matching finalizer runs, and is gone whether or not it     *)
(* fails.  One that needs an event loop that was closed fails.             *)
MutYoungest(hits) == Min(hits)     \* mutant: the oldest
Youngest(hits) == Max(hits)

RunFinalizer ==
    /\ agenda # <<>>
    /\ LET hits == {i \in 1..Len(pend) : Matches(Head(agenda), pend[i])}
           i == Youngest(hits)
       IN  /\ hits # {}
           /\ pend' = RemoveAt(pend, i)
           /\ IF pend[i].loop \in loops \cup {NoLoop}
              THEN UNCHANGED <<errs, faults>> \/ (Fault /\ errs' = TRUE)
              ELSE errs' = TRUE /\ UNCHANGED faults
    /\ UNCHANGED <<run, pc, pos, agenda, work, cache, xdone, loops, curMod, counts, hooks>>

(* A failed teardown between items belongs to the item before: its passed  *)
(* teardown report becomes a failed one, or it gets another report, whose  *)
(* hook is called at once.  A worker only streams the report.              *)
ScopeFailure ==
    LET last == IF pc = "between" \/ pc = "final" THEN pos - 1 ELSE pos
    IN  IF Local
        THEN /\ failed' = failed + 1
             /\ tdrep' = [tdrep EXCEPT ![last] = "failed"]
             /\ saw' = IF tdrep[last] = "passed" THEN saw ELSE [saw EXCEPT ![last] = "failed"]
        ELSE UNCHANGED <<failed, tdrep, saw>>

(* No finalizer matches any more: the cached values of the instance go.    *)
EndTask ==
    /\ agenda # <<>> /\ ~\E i \in 1..Len(pend) : Matches(Head(agenda), pend[i])
    /\ cache' = {c \in cache : ~Matches(Head(agenda), c)}
    /\ agenda' = Tail(agenda)
    /\ IF pc = "teardown" THEN UNCHANGED <<errs, failed, tdrep, saw>>
       ELSE /\ errs' = FALSE
            /\ IF errs THEN ScopeFailure ELSE UNCHANGED <<failed, tdrep, saw>>
    /\ UNCHANGED <<run, pc, pos, work, pend, xdone, loops, curMod, bad, attempt, stop, faults,
                   heldHook>>

(* The teardown hook of the item before is called once its report is final *)
MutFlush == heldHook = 0 /\ UNCHANGED <<saw, heldHook>>     \* mutant: waits for a hook nobody calls
Flush == /\ saw' = IF heldHook = 0 THEN saw ELSE [saw EXCEPT ![heldHook] = tdrep[heldHook]]
         /\ heldHook' = 0

Start ==
    /\ pc = "between" /\ agenda = <<>>
    /\ Flush
    /\ pc' = IF Item.skip THEN "after" ELSE "setup"
    /\ UNCHANGED <<run, pos, agenda, errs, work, cache, pend, xdone, loops, curMod, counts,
                   faults, tdrep>>

---------------------------------------------------------------------------
(* Setup.  An attempt driven by a protocol hook forgets the xunit state    *)
(* and the cached setup failures first.  The asyncio plugin closes the     *)
(* loops of the module before.  Then, one after the other: autouse         *)
(* fixtures above function scope, the xunit hooks, and the closure in its  *)
(* order.                                                                  *)

EarlyNames(defs, it) ==
    LET early == SelectSeq(AutouseFor(defs, it), LAMBDA d : d.scope # "function")
    IN  [i \in DOMAIN early |-> early[i].name]

ClosureNames(defs, it) ==
    LET ignore == DOMAIN it.direct
    IN  SelectSeq(Closure(defs, it, InitialNames(defs, it, it.args), ignore),
                  LAMBDA n : n \notin ignore \cup {"request"})

(* What the registry says of each item of each list; constants of a run.   *)
Prepared == [s \in DOMAIN Suites |->
    LET defs == Suites[s].defs
    IN  [i \in DOMAIN Suites[s].items |->
            LET it == Suites[s].items[i]
            IN  [early |-> EarlyNames(defs, it), names |-> ClosureNames(defs, it),
                 binds |-> [d \in ToSet(defs) |-> Bindings(defs, d, it)]]]]

MutLeftLoop(l) == l.mod # Item.mod     \* mutant: every loop of another module
LeftLoop(l) == l.scope \in {"class", "module"} /\ <<l.mod>> = curMod

BeginSetup ==
    /\ pc = "setup" /\ attempt' = attempt + 1
    /\ xdone' = IF run.rerun > 0 THEN {} ELSE xdone
    /\ cache' = IF run.rerun > 0 THEN {c \in cache : ~c.err} ELSE cache
    /\ loops' = IF curMod = <<Item.mod>> THEN loops
                ELSE {l \in loops : ~LeftLoop(l)}
    /\ curMod' = <<Item.mod>>
    /\ pc' = "early" /\ want' = Prepared[run.suite][pos].early
    /\ frames' = <<>> /\ got' = {} /\ bad' = FALSE
    /\ UNCHANGED <<run, pos, agenda, errs, pend, built, next, failed, stop, faults, hooks>>

Abort == /\ bad' = TRUE /\ want' = <<>> /\ frames' = <<>> /\ got' = {}
         /\ pc' = "teardown" /\ agenda' = <<ScopeTask("function", <<Item.id>>)>>

MutXid(m) ==     \* mutant: torn down with the item's class
    [scope |-> "class", inst |-> <<Item.cls>>, binds |-> {}, id |-> next, res |-> {}, loop |-> NoLoop,
     key |-> [scope |-> "module", name |-> "xunit", base |-> m, inst |-> <<m>>, par |-> "none"]]
Xid(m) == [scope |-> "module", inst |-> <<m>>, binds |-> {}, id |-> next, res |-> {}, loop |-> NoLoop,
           key |-> [scope |-> "module", name |-> "xunit", base |-> m, inst |-> <<m>>, par |-> "none"]]

MutBuild(on) == UNCHANGED <<next, built>>     \* mutant: the counter stands still
Build(on) == /\ next <= MaxValue /\ next' = next + 1
             /\ built' = [v \in DOMAIN built \cup {next} |-> IF v = next THEN on ELSE built[v]]

(* setup_module of the package around the item's module, then of the       *)
(* module, each once; when one failed every later item below it fails with *)
(* it.  (The hooks of classes and functions that follow are left out.)     *)
XunitNames(it) == IF it.parent = "" THEN {it.mod} ELSE {it.parent, it.mod}
XunitDue(m) == m \in Suites[run.suite].xunit /\ ~\E x \in xdone : x.mod = m
XunitFailed(m) == [mod |-> m, ok |-> FALSE] \in xdone

SetupModule(m) ==
    LET Record(ok) == xdone' = xdone \cup {[mod |-> m, ok |-> ok]}
    IN  \/ /\ Record(TRUE) /\ pend' = Append(pend, Xid(m)) /\ Build({})
           /\ UNCHANGED <<want, frames, got, bad, pc, agenda, faults>>
        \/ Record(FALSE) /\ Fault /\ Abort /\ UNCHANGED <<pend, built, next>>

EnsureXunit ==
    /\ pc = "early" /\ frames = <<>> /\ want = <<>>
    /\ LET todo == {m \in XunitNames(Item) : XunitDue(m) \/ XunitFailed(m)}
           first == IF Item.parent \in todo THEN Item.parent ELSE Item.mod
       IN  IF todo = {}
           THEN /\ pc' = "resolve" /\ want' = Prepared[run.suite][pos].names
                /\ UNCHANGED <<agenda, frames, got, bad, xdone, pend, built, next, faults>>
           ELSE IF XunitFailed(first)
           THEN Abort /\ UNCHANGED <<xdone, pend, built, next, faults>>
           ELSE SetupModule(first)
    /\ UNCHANGED <<run, pos, errs, cache, loops, curMod, failed, attempt, stop, hooks>>

Frame(d) == [def |-> d, todo |-> d.deps, res |-> {}]
Requesting == IF frames = <<>> THEN {} ELSE {Last(frames).def}

(* The loop scope of an asyncio fixture or test, and the loop it runs on.  *)
(* Plain functions share the class loop of their file.                     *)
LoopKey(scope, it) ==
    CASE scope = "session" -> SessionInstance
      [] scope = "class" /\ it.cls = it.id -> <<it.mod>>
      [] OTHER -> InstanceAt(it, scope)
LoopAt(scope, it) == [scope |-> scope, key |-> LoopKey(scope, it), mod |-> it.mod]
Loop(scope, it) ==
    IF scope \in {"session", "package"} THEN [LoopAt(scope, it) EXCEPT !.mod = ""] ELSE LoopAt(scope, it)

(* A value is handed to the fixture that asked for it, or to the test.     *)
HandOver(fs, res) ==
    IF fs = <<>> THEN frames' = fs /\ got' = got \cup res
    ELSE frames' = [fs EXCEPT ![Len(fs)].res = @ \cup res] /\ UNCHANGED got

(* resolve_fixture_def up to its cache hit: a definition already on the    *)
(* stack, a narrower one than the one that asks, one without its           *)
(* parameter, and a cached failure end the setup; a cached value is handed *)
(* over; else what the definition asks for comes next.                     *)
Ask(d, fs, rest) ==
    LET hit == {c \in cache : c.key = CacheKey(d, Item)}
        refused == \/ \E i \in 1..Len(frames) : frames[i].def = d
                   \/ \E p \in Requesting : Wider(p.scope, d.scope)
                   \/ d.par /\ d.name \notin DOMAIN Item.par \cup DOMAIN Item.direct
    IN  IF refused \/ \E c \in hit : c.err
        THEN Abort
        ELSE /\ want' = rest /\ UNCHANGED <<bad, pc, agenda>>
             /\ IF hit # {}
                THEN HandOver(fs, UNION {c.res : c \in hit})
                ELSE frames' = Append(fs, Frame(d)) /\ UNCHANGED got

KeyScope(it, n) == IF n \in DOMAIN it.keys THEN it.keys[n] ELSE "function"

(* A value that is a parameter of the test itself and no fixture's: it has *)
(* no finalizer, so no identity, and moves with its parametrization.       *)
ArgumentValue(n) ==
    [id |-> 0, name |-> n, par |-> Item.direct[n], scope |-> KeyScope(Item, n),
     moves |-> {BindingAt(Item, m) : m \in {n} \cap DOMAIN Item.keys}, hidden |-> FALSE]

(* resolve_fixture: a directly parametrized name is its argument and its   *)
(* fixture never runs; a name already on the stack means what the          *)
(* innermost definition of it overrides, that of the fixture itself above  *)
(* all; any other name means the last definition registered.               *)
Request(n, fs, rest) ==
    LET above == {i \in 1..Len(frames) : frames[i].def.name = n}
        cands == IF above = {} THEN Candidates(Defs, n, Item)
                               ELSE Overridden(Defs, frames[Max(above)].def, Item)
    IN  IF n \in DOMAIN Item.direct
        THEN HandOver(fs, {ArgumentValue(n)}) /\ want' = rest /\ UNCHANGED <<bad, pc, agenda>>
        ELSE IF cands = {} THEN Abort
        ELSE Ask(Defs[Max(cands)], fs, rest)

AskForItem ==
    /\ frames = <<>> /\ want # <<>>
    /\ Request(Head(want), frames, Tail(want))

(* The next dependency of the fixture on top.                              *)
AskForFixture ==
    /\ frames # <<>> /\ Last(frames).todo # <<>>
    /\ LET n == Head(Last(frames).todo)
           popped == [frames EXCEPT ![Len(frames)].todo = Tail(@)]
       IN  IF n = "request" THEN frames' = popped /\ UNCHANGED <<bad, want, got, pc, agenda>>
           ELSE Request(n, popped, want)

Resolving == pc \in {"early", "resolve"}

Resolve ==
    /\ Resolving
    /\ AskForItem \/ AskForFixture
    /\ UNCHANGED <<run, pos, errs, cache, pend, built, next, xdone, loops, curMod, failed, attempt,
                   stop, faults, hooks>>

(* What a value rests on is a set of records                               *)
(*   [id, name, par, scope, moves, hidden]                                 *)
(* moves are the parametrizations that end it, a session-scoped one with   *)
(* them.  It is hidden when a value built on it was cached beyond its      *)
(* scope (a fixture widened by its parametrization that asks for a         *)
(* narrower one) or without a record of all that ends it.                  *)
Moves(d, binds) ==
    LET inst == CacheInstance(d, Item)
    IN  binds \cup {[scope |-> "session", inst |-> inst, name |-> d.name, val |-> inst[2]] :
                        k \in {2} \cap DOMAIN inst}

RestsOn(d, binds, res) ==
    LET scope == CacheScope(d, Item)
    IN  {[r EXCEPT !.hidden = \/ @ \/ Wider(scope, r.scope)
                              \/ scope # "function" /\ ~(r.moves \subseteq binds)] : r \in res}

(* A key has one value: the last one stored.                               *)
Stored(entry) == {c \in cache : c.key # entry.key} \cup {entry}

(* resolve_fixture_def after the dependencies: the body runs.  A failure   *)
(* is cached, except that of a fixture the asyncio plugin claims.          *)
Execute ==
    /\ Resolving /\ frames # <<>> /\ Last(frames).todo = <<>>
    /\ LET d == Last(frames).def
           binds == Prepared[run.suite][pos].binds[d]
           res == RestsOn(d, binds, Last(frames).res)
           own == {[id |-> next, name |-> d.name, par |-> CacheKey(d, Item).par,
                    scope |-> CacheScope(d, Item), moves |-> Moves(d, binds), hidden |-> FALSE]}
           loop == IF d.kind = "aio" THEN Loop(d.loop, Item) ELSE NoLoop
           Entry(err, rs) == [key |-> CacheKey(d, Item), scope |-> CacheScope(d, Item),
                              inst |-> CacheInstance(d, Item), binds |-> binds, err |-> err, res |-> rs]
           pending == [scope |-> CacheScope(d, Item), inst |-> CacheInstance(d, Item),
                       binds |-> binds, id |-> next, res |-> res, loop |-> loop,
                       key |-> CacheKey(d, Item)]
       IN  /\ loops' = IF d.kind = "aio" THEN loops \cup {loop} ELSE loops
           /\ \/ /\ LET all == IF d.kind = "value" THEN res ELSE res \cup own
                    IN  cache' = Stored(Entry(FALSE, all)) /\ HandOver(Front(frames), all)
                 /\ IF d.kind = "value" THEN UNCHANGED <<pend, built, next>>
                    ELSE /\ pend' = Append(pend, pending)
                         /\ Build({r.id : r \in {q \in res : ~q.hidden}} \ {0})
                 /\ UNCHANGED <<bad, want, pc, agenda, faults>>
              \/ /\ Fault /\ Abort
                 /\ cache' = IF d.kind = "aio" THEN cache ELSE Stored(Entry(TRUE, {}))
                 /\ UNCHANGED <<pend, built, next>>
    /\ UNCHANGED <<run, pos, errs, xdone, curMod, failed, attempt, stop, hooks>>

---------------------------------------------------------------------------
(* Call and teardown.  An asyncio test runs on the loop of its own scope.  *)
SetupDone ==
    /\ pc = "resolve" /\ frames = <<>> /\ want = <<>>
    /\ pc' = "call"
    /\ loops' = IF Item.aio THEN loops \cup {Loop(Item.loop, Item)} ELSE loops
    /\ UNCHANGED <<run, pos, agenda, errs, work, cache, pend, xdone, curMod, counts, faults, hooks>>

Call ==
    /\ pc = "call"
    /\ \/ UNCHANGED <<bad, stop, faults>>                 \* passes
       \/ Fault /\ bad' = TRUE /\ UNCHANGED stop          \* fails
       \/ Fault /\ stop' = TRUE /\ UNCHANGED bad          \* pytest.exit
    /\ pc' = "teardown" /\ agenda' = <<ScopeTask("function", <<Item.id>>)>>
    /\ UNCHANGED <<run, pos, errs, work, cache, pend, next, xdone, loops, curMod, failed, attempt, hooks>>

AnotherAttempt == (bad \/ errs) /\ attempt < run.rerun

(* The local loop holds the hook back until the scopes around the item are *)
(* torn down.                                                              *)
MutReportTeardown(outcome) ==     \* mutant: the hook is called at once
    tdrep' = [tdrep EXCEPT ![pos] = outcome] /\ saw' = [saw EXCEPT ![pos] = outcome] /\ UNCHANGED heldHook

ReportTeardown(outcome) ==
    /\ tdrep' = [tdrep EXCEPT ![pos] = outcome]
    /\ IF Local THEN heldHook' = pos /\ UNCHANGED saw
       ELSE saw' = [saw EXCEPT ![pos] = outcome] /\ UNCHANGED heldHook

(* The function's finalizers have run: its loops are closed, its teardown  *)
(* reported.  A protocol hook makes another attempt at a failed item; the  *)
(* local loop does not count the attempt as a failure, a worker does.      *)
EndItem ==
    /\ pc = "teardown" /\ agenda = <<>>
    /\ loops' = {l \in loops : ~(l.scope = "function" /\ l.key = <<Item.id>>)}
    /\ errs' = FALSE
    /\ IF AnotherAttempt
       THEN pc' = "setup" /\ failed' = failed + (IF Local THEN 0 ELSE 1) /\ UNCHANGED <<bad, hooks>>
       ELSE /\ pc' = "after" /\ bad' = (bad \/ errs)
            /\ failed' = failed + (IF bad THEN 1 ELSE 0) + (IF errs THEN 1 ELSE 0)
            /\ ReportTeardown(IF errs THEN "failed" ELSE "passed")
    /\ UNCHANGED <<run, pos, agenda, work, cache, pend, xdone, curMod, attempt, stop, faults>>

(* --stepwise leaves the loop here, before the session-scoped parameters.  *)
After ==
    /\ pc = "after"
    /\ IF run.sw /\ bad THEN pc' = "final" /\ agenda' = FinalTasks(pos) /\ pos' = pos + 1
       ELSE IF Local THEN pc' = "params" /\ agenda' = SessionParams(pos) /\ UNCHANGED pos
       ELSE pc' = "pick" /\ pos' = pos + 1 /\ UNCHANGED agenda
    /\ UNCHANGED <<run, errs, work, cache, pend, xdone, loops, curMod, counts, faults, hooks>>

NextItem ==
    /\ pc = "params" /\ agenda = <<>>
    /\ pc' = "pick" /\ pos' = pos + 1
    /\ UNCHANGED <<run, agenda, errs, work, cache, pend, xdone, loops, curMod, counts, faults, hooks>>

(* The last hook is called and the asyncio plugin closes what is left.     *)
Finish ==
    /\ pc = "final" /\ agenda = <<>>
    /\ Flush /\ pc' = "done" /\ loops' = {}
    /\ UNCHANGED <<run, pos, agenda, errs, work, cache, pend, xdone, curMod, counts, faults, tdrep>>

Next == \/ Pick \/ RunFinalizer \/ EndTask \/ Start \/ BeginSetup \/ EnsureXunit \/ Resolve
        \/ Execute \/ SetupDone \/ Call \/ EndItem \/ After \/ NextItem \/ Finish

(* The process goes on: user code is taken to return.                      *)
Spec == Init /\ [][Next]_vars /\ WF_vars(Next)
---------------------------------------------------------------------------
(* Properties.                                                             *)

Pcs == {"pick", "between", "setup", "early", "resolve", "call", "teardown", "after", "params", "final", "done"}

(* Every variable has its shape; the counters that are bounded stay in     *)
(* their range.                                                            *)
TypeOK ==
    /\ pc \in Pcs /\ pos \in 1..N + 1 /\ next \in 1..MaxValue + 1
    /\ \A i \in 1..Len(pend) : pend[i].id < next /\ pend[i].scope \in Scopes
    /\ \A c \in cache : c.err \in BOOLEAN /\ \A r \in c.res : r.id < next
    /\ faults \in 0..MaxFaults /\ failed \in Nat /\ attempt \in 0..Max({1, run.rerun})
    /\ bad \in BOOLEAN /\ stop \in BOOLEAN /\ errs \in BOOLEAN
    /\ tdrep \in [1..N -> {"none", "passed", "failed"}]
    /\ saw \in [1..N -> {"none", "passed", "failed"}] /\ heldHook \in 0..N

(* The parametrizations of a list fit the fixtures they are for: they have *)
(* the scope of the fixture or a wider one, below session scope unless the *)
(* fixture has it, and the same one for every test.  What the item loop    *)
(* does about parameters relies on it; the code does not enforce it.       *)
Given(it) == DOMAIN it.par \cup DOMAIN it.direct \cup DOMAIN it.keys

ParamsFit ==
    \A i \in 1..N :
        /\ \A n \in DOMAIN Items[i].par :
             /\ Known(Defs, n, Items[i])
             /\ \A k \in DOMAIN Defs : Defs[k].name = n =>
                  /\ ~Wider(Defs[k].scope, KeyScope(Items[i], n))
                  /\ KeyScope(Items[i], n) = "session" => Defs[k].scope = "session"
        /\ \A j \in 1..N : \A n \in Given(Items[i]) \cap Given(Items[j]) :
             KeyScope(Items[i], n) = KeyScope(Items[j], n)

(* Nothing the running test was given, directly or through other fixtures, *)
(* has been finalized; in the local loop, and if parametrizations fit, it  *)
(* was also built for the parameter the test is bound to, or for none.     *)
(* What has no finalizer is a parameter itself, and is to be the one the   *)
(* test is bound to.  This is about values whose cached holder recorded    *)
(* what they move with, which one that is kept longer than they are never  *)
(* does: see UsesCurrent for the others.                                   *)
FitsParam(r) ==
    r.name \in DOMAIN Item.par \cup DOMAIN Item.direct => r.par = ParamValue(Item, r.name)

UsesLive ==
    pc = "call" => \A r \in got : ~r.hidden =>
        r.id \in Live \cup {0} /\ (Local /\ ParamsFit => r.par = "none" \/ FitsParam(r))

(* The same of all values and in both loops: "every fixture carrying that  *)
(* binding is torn down and evicted before the next value is set up"       *)
(* (runner/fixtures.rs).                                                   *)
UsesCurrent == pc = "call" => \A r \in got : r.id \in Live \cup {0} /\ FitsParam(r)

(* In the local loop two values of one fixture in one scope instance, for  *)
(* two parameters, are never set up at the same time, if parametrizations  *)
(* fit and no two definitions have the same name and base.  The value for  *)
(* no parameter, of a test that asks for the fixture without one, is kept  *)
(* beside the one for a parameter.                                         *)
OneDefPerBase == \A k, l \in DOMAIN Defs :
    Defs[k].name = Defs[l].name /\ Defs[k].base = Defs[l].base => k = l

Slot(key) == [scope |-> key.scope, name |-> key.name, base |-> key.base, node |-> Head(key.inst),
              given |-> key.par # "none"]

OneValueAtATime ==
    Local /\ ParamsFit /\ OneDefPerBase => \A i, j \in 1..Len(pend) :
        pend[i].key.name # "xunit" /\ Slot(pend[i].key) = Slot(pend[j].key) => i = j

(* At the end every finalizer has run, except what the loops leave behind: *)
(* a session-scoped parametrized fixture when the local loop stopped early *)
(* or its parametrization does not fit, and in a worker also a             *)
(* package-scoped one and teardown_module of a package.                    *)
OfPackage(p) ==
    \/ p.scope = "package"
    \/ p.scope = "module" /\ p.inst \in {<<Items[i].parent>> : i \in 1..N}

LeftBehind(p) ==
    \/ Len(p.inst) = 2 /\ (~Local \/ stop \/ MaxFailHit \/ run.sw \/ ~ParamsFit)
    \/ OfPackage(p) /\ ~Local

AllTornDown == pc = "done" => \A i \in 1..Len(pend) : LeftBehind(pend[i])

(* An async fixture's finalizer always finds its event loop open, unless   *)
(* the fixture lives longer than the loop scope it was given.              *)
LoopsOutliveFixtures ==
    pc # "done" => \A i \in 1..Len(pend) :
        (pend[i].loop # NoLoop /\ ~Wider(pend[i].scope, pend[i].loop.scope))
            => pend[i].loop \in loops

(* The hook that is told how an item's teardown went is never told that it *)
(* passed when a later scope teardown failed it.                           *)
HookSawFinal == pc = "done" => \A i \in 1..N : tdrep[i] # "none" => saw[i] = tdrep[i]

(* A test of a module, or of a package around it, that has setup_module    *)
(* runs between it and teardown_module, as long as the run has not left    *)
(* the module or package before.                                           *)
FirstVisit(m) == \A i \in 1..pos :
    m \in XunitNames(Items[i]) => \A j \in i..pos : m \in XunitNames(Items[j])

XunitReady == pc = "call" =>
    \A m \in XunitNames(Item) \cap Suites[run.suite].xunit : FirstVisit(m) =>
        \E i \in 1..Len(pend) : pend[i].key.name = "xunit" /\ pend[i].inst = <<m>>

(* The fixture engine sets up and finishes values in the order FixtureLife *)
(* allows, dependents before what they rest on, for the values whose       *)
(* holders recorded what they move with.  What no remaining teardown       *)
(* matches is left behind when the last one, the session's, is due.        *)
SessionIsDue == pc \in {"final", "done"} /\ Len(agenda) <= 1

Life == INSTANCE FixtureLife WITH
    Value <- 1..MaxValue,
    live <- IF SessionIsDue
            THEN {pend[i].id : i \in {k \in 1..Len(pend) : pend[k].scope = "session"
                                                            /\ pend[k].inst = SessionInstance}}
            ELSE Live,
    needs <- built,
    over <- SessionIsDue

Implements == Life!Spec

(* The run ends, whatever fails.                                           *)
Finishes == <>(pc = "done")
=============================================================================
