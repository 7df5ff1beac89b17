---------------------------- MODULE FixtureDefs ----------------------------
(***************************************************************************)
(* The fixture registry (core/src/fixture.rs) and what the engine computes *)
(* from it for one item: which definition a name resolves to, the closure  *)
(* a test sets up, and under which key a value is cached.  Pure operators; *)
(* the registry is the sequence of its definitions in registration order.  *)
(*                                                                         *)
(* A definition is a record                                                *)
(*   [name, base, scope, deps, auto, alpha, par, kind, loop]               *)
(* base is the node it was registered under ("" for all), deps its         *)
(* parameter names in order, alpha the rank of its name in the alphabet,   *)
(* par whether it has params=, kind "value" (plain), "yield" (generator)   *)
(* or "aio" (an async generator asyncio claims), loop its event loop scope.*)
(*                                                                         *)
(* An item is a record                                                     *)
(*   [id, cls, mod, pkg, parent, args, par, direct, keys, skip, aio, loop] *)
(* cls is its class instance (the item itself for a plain function),       *)
(* parent the package one dot above its module ("" if none), args the      *)
(* fixtures it asks for, par the parameters bound to fixtures and direct   *)
(* those bound to arguments (functions from names to values), keys the     *)
(* scope of each parametrization (scope_sort_keys).                        *)
(***************************************************************************)
EXTENDS Naturals, Sequences, SequencesExt, FiniteSets, FiniteSetsExt, TLC

Rank == [function |-> 0, class |-> 1, module |-> 2, package |-> 3, session |-> 4]
Scopes == DOMAIN Rank
Wider(a, b) == Rank[a] > Rank[b]

Dedup(s) ==
    FoldLeft(LAMBDA acc, x : IF Contains(acc, x) THEN acc ELSE Append(acc, x), <<>>, s)

(* nodeid.starts_with(baseid) *)
Visible(d, it) == d.base \in {"", it.pkg, it.mod, it.cls}

BaseDepth(d, it) ==
    CASE d.base = "" -> 0 [] d.base = it.pkg -> 1 [] d.base = it.mod -> 2 [] OTHER -> 3

(* The definitions a name may mean for it, as indices of the registry; the *)
(* last one registered is what it resolves to.                             *)
Candidates(defs, name, it) ==
    {i \in DOMAIN defs : defs[i].name = name /\ Visible(defs[i], it)}

GetFixtureDefs(defs, name, it) ==
    SelectSeq(defs, LAMBDA d : d.name = name /\ Visible(d, it))

Known(defs, name, it) == Candidates(defs, name, it) # {}

Lookup(defs, name, it) == defs[Max(Candidates(defs, name, it))]

(* The visible definitions of the same name registered before cur.         *)
Overridden(defs, cur, it) ==
    {i \in Candidates(defs, cur.name, it) : \A j \in DOMAIN defs : defs[j] = cur => i < j}

---------------------------------------------------------------------------

(* For each autouse name the most specific autouse definition that is      *)
(* visible, the highest scope first, then the most general base, then the  *)
(* name.                                                                   *)
MostSpecific(autos) ==
    {autos[i] : i \in {j \in DOMAIN autos :
                        \A k \in DOMAIN autos : autos[k].name = autos[j].name => k <= j}}

AutouseFor(defs, it) ==
    LET Before(a, b) == \/ Wider(a.scope, b.scope)
                        \/ /\ a.scope = b.scope
                           /\ \/ BaseDepth(a, it) < BaseDepth(b, it)
                              \/ BaseDepth(a, it) = BaseDepth(b, it) /\ a.alpha < b.alpha
    IN  SetToSortSeq(MostSpecific(SelectSeq(defs, LAMBDA d : d.auto /\ Visible(d, it))), Before)

InitialNames(defs, it, requested) ==
    LET Named(ds) == [i \in DOMAIN ds |-> ds[i].name]
    IN  Dedup(Named(AutouseFor(defs, it)) \o requested)

ScopeOf(defs, it, ignore, n) ==
    IF n \in ignore \/ ~Known(defs, n, it) THEN "function" ELSE Lookup(defs, n, it).scope

SortByScope(names, Of(_)) ==
    LET order == <<"session", "package", "module", "class", "function">>
    IN  FlattenSeq([k \in DOMAIN order |-> SelectSeq(names, LAMBDA n : Of(n) = order[k])])

(* getfixtureclosure: the depth-first walk from every initial name, then a *)
(* stable sort by scope, the highest first.  level[n] counts how many      *)
(* overrides of n are on the path above, 0 before n was reached; after the *)
(* walk of n it is 1 (the code's -1), which means done.                    *)
Closure(defs, it, initial, ignore) ==
    LET Names == ToSet(initial) \cup UNION {ToSet(defs[i].deps) : i \in DOMAIN defs}
        Walk == [closure : Seq(Names), level : [Names -> 0..Len(defs) + 1]]
        process_argname[st \in Walk, n \in Names] ==
            LET seen == IF Contains(st.closure, n) THEN st
                                                   ELSE [st EXCEPT !.closure = Append(@, n)]
                chain == GetFixtureDefs(defs, n, it)
                at == IF st.level[n] = 0 THEN 1 ELSE st.level[n]
            IN  IF st.level[n] = 1 THEN st
                ELSE IF n \in ignore \/ at > Len(chain) THEN seen
                ELSE [FoldLeft(LAMBDA s, dep : process_argname[s, dep],
                               [seen EXCEPT !.level[n] = at + 1],
                               chain[Len(chain) + 1 - at].deps) EXCEPT !.level[n] = at]
    IN  SortByScope(FoldLeft(LAMBDA s, n : process_argname[s, n],
                             [closure |-> initial, level |-> [n \in Names |-> 0]], initial).closure,
                    LAMBDA n : ScopeOf(defs, it, ignore, n))

(* What the names of todo ask for, directly or not, with seen, whose own   *)
(* requests are not followed.  A registry has no longer chains of requests *)
(* than definitions.                                                       *)
Reach(defs, it, todo, seen) ==
    LET new == todo \ (seen \cup {"request"})
        within[k \in 0..Len(defs)] ==
            IF k = 0 THEN new
            ELSE LET ns == within[k - 1]
                 IN  ns \cup (UNION {ToSet(Lookup(defs, n, it).deps) : n \in {m \in ns : Known(defs, m, it)}}
                             \ (seen \cup {"request"}))
    IN  seen \cup within[Len(defs)]

(* Everything d asks for, directly or not, by name.  The name of d itself  *)
(* is seen from the start, so what an overridden d asks for is not.        *)
TransitiveArgnames(defs, it, d) == Reach(defs, it, ToSet(d.deps), {d.name})

---------------------------------------------------------------------------

(* instance_at: the node a scope stays constant within.                    *)
InstanceAt(it, scope) ==
    CASE scope = "function" -> <<it.id>> [] scope = "class" -> <<it.cls>>
      [] scope = "package" -> <<it.pkg>> [] OTHER -> <<it.mod>>

SessionInstance == <<"">>

(* A parametrize(indirect, scope=...) wider than the fixture's own scope    *)
(* decides where the value is kept.                                        *)
CacheScope(d, it) ==
    IF d.name \in DOMAIN it.par \cap DOMAIN it.keys /\ Wider(it.keys[d.name], d.scope)
    THEN it.keys[d.name] ELSE d.scope

CacheInstance(d, it) ==
    IF CacheScope(d, it) # "session" THEN InstanceAt(it, CacheScope(d, it))
    ELSE IF d.name \in DOMAIN it.par THEN <<d.name, it.par[d.name]>> ELSE SessionInstance

ParamValue(it, n) ==
    IF n \in DOMAIN it.par THEN it.par[n]
    ELSE IF n \in DOMAIN it.direct THEN it.direct[n] ELSE "none"

BindingAt(it, n) ==
    [scope |-> it.keys[n], inst |-> InstanceAt(it, it.keys[n]), name |-> n, val |-> ParamValue(it, n)]

(* The parametrizations below session scope that a value of d depends on.  *)
Bindings(defs, d, it) ==
    {BindingAt(it, n) :
        n \in {m \in DOMAIN it.keys \cap TransitiveArgnames(defs, it, d) : it.keys[m] # "session"}}

MutEndedParamBindings(prev, next, s) ==     \* mutant: dropped ones only
    {[scope |-> s, inst |-> InstanceAt(prev, s), name |-> n, val |-> ParamValue(prev, n)] :
        n \in {m \in DOMAIN prev.keys : /\ prev.keys[m] = s /\ ParamValue(next, m) = "none"
                                        /\ InstanceAt(next, s) = InstanceAt(prev, s)}}

(* ended_param_bindings: the parametrizations of scope s whose value group *)
(* ends between prev and next although the scope's node stays the same.    *)
EndedParamBindings(prev, next, s) ==
    {[scope |-> s, inst |-> InstanceAt(prev, s), name |-> n, val |-> ParamValue(prev, n)] :
        n \in {m \in DOMAIN prev.keys :
                 /\ prev.keys[m] = s
                 /\ InstanceAt(next, s) = InstanceAt(prev, s)
                 /\ ~(ParamValue(next, m) # "none" /\ ParamValue(next, m) = ParamValue(prev, m))}}

CacheKey(d, it) ==
    [scope |-> CacheScope(d, it), name |-> d.name, base |-> d.base, inst |-> CacheInstance(d, it),
     par |-> IF d.name \in DOMAIN it.par THEN it.par[d.name] ELSE "none"]
=============================================================================
