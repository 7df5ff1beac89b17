------------------------------ MODULE Generate ------------------------------
(***************************************************************************)
(* From one test function to its items: the parametrize marks and the     *)
(* marks a pytest_generate_tests hook adds (python/collecting/             *)
(* parametrize.rs), the parameters of the fixtures in its closure          *)
(* (python/fixtures.rs), and the order items are run in when a parameter   *)
(* is wider than a function (engine/collect/reorder.rs).                   *)
(*                                                                         *)
(* A function is a record                                                  *)
(*   [name, mod, pkg, cls, method, args, uses, marks, hook, testcase, tags,*)
(*    behave]                                                              *)
(* mod is its file, cls the class it belongs to (method) or itself, args   *)
(* its parameters in order, those with a default left out, uses its        *)
(* usefixtures names, marks its parametrize marks, hook what a generate    *)
(* hook adds to it, tags the names of its other marks.                     *)
(*                                                                         *)
(* A parametrize mark is [names, sets, ids, indirect, scope]; a parameter  *)
(* set is [vals, id, tags].  Values and IDs are sequences of one-character *)
(* tokens, so that joined and numbered IDs collide exactly when the        *)
(* strings do.                                                             *)
(*                                                                         *)
(* An item is the function with [id, part, par, direct, keys, top]: par    *)
(* the fixture parameters and direct the arguments it binds, keys its      *)
(* sort keys <<name, scope, index>>, top its widest parameter scope.       *)
(***************************************************************************)
EXTENDS FixtureDefs, Lists

NoId == <<>>
Hidden == <<"HIDDEN_PARAM">>
Digits == {"0", "1", "2", "3", "4", "5", "6", "7", "8", "9"}

NodeId(f, part) == [mod |-> f.mod, cls |-> f.cls, name |-> f.name, part |-> part]

Join(parts) ==
    FoldLeft(LAMBDA acc, p : IF acc = <<>> THEN p ELSE acc \o <<"-">> \o p, <<>>, parts)

MaxScope(scopes) ==
    CHOOSE s \in scopes \cup {"function"} : \A t \in scopes : Rank[t] <= Rank[s]

---------------------------------------------------------------------------
(* Parametrize marks.                                                      *)

(* The names a generate hook sees: the arguments, the usefixtures names    *)
(* and what those ask for, directly or not.                                *)
ClosureNames(defs, f) ==
    LET named == ToSet(f.args) \cup ToSet(f.uses)
    IN  named \cup Reach(defs, f, named, {})

(* The marks of a hook come last, the fastest dimension, unless it runs    *)
(* before the built-in one.                                                *)
AllMarks(f) == IF f.hook.prepend THEN f.hook.marks \o f.marks ELSE f.marks \o f.hook.marks

(* Fixtures a hook adds are set up, but not passed to the function.        *)
ExtraFixtures(f) == Where(f.hook.names, LAMBDA n : ~Contains(f.args, n))

(* validate_parametrize_argnames: a mark with values names only what the   *)
(* function takes (arguments with a default apart) or its fixtures do.     *)
BadArgname(defs, f) ==
    \E m \in ToSet(AllMarks(f)) :
        /\ m.sets # <<>>
        /\ \E n \in ToSet(m.names) \ {"request"} :
              /\ n \notin ClosureNames(defs, f) \cup ToSet(ExtraFixtures(f))
              /\ ~( /\ Known(defs, n, f)
                    /\ Contains(Closure(defs, f, InitialNames(defs, f, f.args \o ExtraFixtures(f)), {}), n))

(* The scope of a dimension: the mark's own, or for indirect names the     *)
(* narrowest of their fixtures.                                            *)
DimScope(defs, f, m) ==
    LET found == {Lookup(defs, n, f).scope : n \in {x \in m.indirect : Known(defs, x, f)}}
    IN  IF m.scope # "" THEN m.scope
        ELSE IF found = {} THEN "function"
        ELSE CHOOSE s \in found : \A t \in found : Rank[s] <= Rank[t]

(* The ID of the i-th set: hidden by pytest.param or by ids=, else the     *)
(* explicit ID, else the one in ids=, else the joined values.              *)
SetPart(m, i) ==
    LET own == m.sets[i].id
        listed == IF i <= Len(m.ids) THEN m.ids[i] ELSE NoId
    IN  IF Hidden \in {own, listed} THEN Hidden
        ELSE IF own # NoId THEN own
        ELSE IF listed # NoId THEN listed
        ELSE Join(m.sets[i].vals)

WrongCount(m) == \E s \in ToSet(m.sets) : Len(s.vals) # Len(m.names)

Repeated(parts, p) == Cardinality({i \in DOMAIN parts : parts[i] = p}) > 1

(* Under strict_parametrization_ids every repeated ID is an error,         *)
(* otherwise only two hidden ones are.                                     *)
DuplicateError(parts, strict) ==
    \/ strict /\ \E p \in ToSet(parts) : Repeated(parts, p)
    \/ Repeated(parts, Hidden)

Numbered(p, k) ==
    p \o (IF Last(p) \in Digits THEN <<"_">> ELSE <<>>) \o <<ToString(k)>>

MutNextFree(acc, p) == acc.next[p]          \* mutant: taken IDs are not skipped

(* The next number that makes an ID no set of the mark has yet.            *)
NextFree(acc, p) == Min({j \in acc.next[p]..9 : Numbered(p, j) \notin acc.used})

Claim(acc, p, k) ==
    [out |-> Append(acc.out, Numbered(p, k)), used |-> acc.used \cup {Numbered(p, k)},
     next |-> [acc.next EXCEPT ![p] = k + 1]]

(* dedup_param_ids: every set of a repeated ID gets a number.              *)
DedupIds(parts) ==
    LET Step(acc, p) ==
            IF Repeated(parts, p) THEN Claim(acc, p, NextFree(acc, p))
            ELSE [acc EXCEPT !.out = Append(@, p)]
    IN  FoldLeft(Step, [out |-> <<>>, used |-> ToSet(parts) \ {Hidden},
                        next |-> [p \in ToSet(parts) |-> 0]], parts).out

(* No values: one set without a value, marked as configured (skip).        *)
NotSet(m) ==
    <<[part |-> <<"N">>, vals |-> [i \in DOMAIN m.names |-> <<"N">>], tags |-> {"skip"}]>>

(* One mark as a dimension of the product.                                 *)
DimWith(m, scope, parts) ==
    [names |-> m.names, indirect |-> m.indirect, scope |-> scope,
     sets |-> IF m.sets = <<>> THEN NotSet(m)
              ELSE [i \in DOMAIN m.sets |->
                      [part |-> parts[i], vals |-> m.sets[i].vals, tags |-> m.sets[i].tags]]]

Parts(m) == [i \in DOMAIN m.sets |-> SetPart(m, i)]

Dim(defs, f, m) == DimWith(m, DimScope(defs, f, m), DedupIds(Parts(m)))

(* Every choice of one set per dimension, the last dimension fastest.      *)
Rows(dims) ==
    FoldLeft(LAMBDA rows, d :
                FlattenSeq([r \in DOMAIN rows |->
                                [i \in DOMAIN d.sets |-> Append(rows[r], i)]]),
             << <<>> >>, dims)

(* What one dimension binds in a row.  In the sort keys a direct argument  *)
(* counts as the number of the row, an indirect one as that of its value.  *)
Binding(dim, name, val, direct, index) ==
    [name |-> name, val |-> val, direct |-> direct, index |-> index, scope |-> dim.scope]

DimBindings(dim, chosen, serial, direct) ==
    LET of(j) == Binding(dim, dim.names[j], dim.sets[chosen].vals[j], direct,
                         IF direct THEN serial ELSE chosen)
        At(js) == [a \in DOMAIN js |-> of(js[a])]
    IN  At(Where(Indices(dim.names),
                     LAMBDA j : (dim.names[j] \notin dim.indirect) = direct))

BoundValues(bs, direct) ==
    [n \in {b.name : b \in {c \in ToSet(bs) : c.direct = direct}} |->
        (CHOOSE b \in ToSet(bs) : b.name = n /\ b.direct = direct).val]

BoundKeys(bs) == [i \in DOMAIN bs |-> <<bs[i].name, bs[i].scope, bs[i].index>>]

VariantOf(dims, sets, bound) ==
    [part |-> Join(Where([k \in DOMAIN dims |-> sets[k].part], LAMBDA p : p # Hidden)),
     direct |-> BoundValues(bound, TRUE), par |-> BoundValues(bound, FALSE),
     tags |-> UNION {sets[k].tags : k \in DOMAIN dims},
     keys |-> BoundKeys(Where(bound, LAMBDA b : Wider(b.scope, "function"))),
     top |-> MaxScope({dims[k].scope : k \in DOMAIN dims})]

(* The variant of one row; serial is the number of the row.                *)
Variant(dims, row, serial) ==
    VariantOf(dims, [k \in DOMAIN dims |-> dims[k].sets[row[k]]],
              FlattenSeq([j \in 1..(2 * Len(dims)) |->
                  DimBindings(dims[(j + 1) \div 2], row[(j + 1) \div 2], serial, j % 2 = 1)]))

(* push_test_items: an error, or one item per variant.                     *)
ItemOf(f, v) ==
    Merge(Merge([v EXCEPT !.tags = @ \cup f.tags], [id |-> NodeId(f, v.part), unsupported |-> FALSE]), f)

VariantItems(f, dims, rows) == [i \in DOMAIN rows |-> ItemOf(f, Variant(dims, rows[i], i))]

Product(f, dims) == VariantItems(f, dims, Rows(dims))

WrongMark(m, strict) == WrongCount(m) \/ DuplicateError(Parts(m), strict)

PushTestItems(defs, f, strict) ==
    IF BadArgname(defs, f) \/ \E m \in ToSet(AllMarks(f)) : WrongMark(m, strict)
    THEN [error |-> TRUE, items |-> <<>>]
    ELSE [error |-> FALSE,
          items |-> Product(f, [k \in DOMAIN AllMarks(f) |-> Dim(defs, f, AllMarks(f)[k])])]

---------------------------------------------------------------------------
(* Parametrized fixtures.                                                  *)

Base(it) == [it.id EXCEPT !.part = NoId]

(* The nearest parametrized definition that d overrides, when d and every  *)
(* definition between them only builds on its own name.                    *)
Supers(defs, it, d) ==
    LET chain == GetFixtureDefs(defs, d.name, it)
        at == SelectLastInSeq(chain, LAMBDA e : e = d)
        Builds(i) == ~chain[i].par /\ Contains(chain[i].deps, d.name)
    IN  {chain[j] : j \in {k \in 1..(at - 1) : chain[k].par /\ \A i \in (k + 1)..at : Builds(i)}}

(* Fixtures, with the parametrized ones each of them overrides.            *)
WithSupers(defs, it, ds) ==
    ds \o Dedup(FlattenSeq([i \in DOMAIN ds |-> SetToSeq(Supers(defs, it, ds[i]))]))

FoundDefs(defs, it, ns) == [i \in DOMAIN ns |-> Lookup(defs, ns[i], it)]

(* The fixtures whose params multiply the item, outermost first: those of  *)
(* its closure that no mark parametrizes already.                          *)
Axes(defs, it) ==
    Where(WithSupers(defs, it, FoundDefs(defs, it, Where(
                  Closure(defs, it, InitialNames(defs, it, Dedup(it.uses \o it.args)), DOMAIN it.direct),
                  LAMBDA n : Known(defs, n, it)))),
              LAMBDA d : d.par /\ d.name \notin DOMAIN it.par \cup DOMAIN it.direct)

FixtureSets(d) ==
    IF d.params = <<>> THEN <<[id |-> <<"N">>, val |-> <<"N">>, tags |-> {"skip"}]>>
    ELSE [i \in DOMAIN d.params |->
            [d.params[i] EXCEPT !.id = IF @ = NoId THEN d.params[i].val ELSE @]]

(* One item of a group for one row of the fixtures' values: their IDs and  *)
(* sort keys lead.                                                         *)
WideKeys(axes, row, wide) ==
    [i \in DOMAIN wide |-> <<axes[wide[i]].name, axes[wide[i]].scope, row[wide[i]]>>]

WithSets(axes, it, sets, part, keys) ==
    [it EXCEPT !.part = part, !.id.part = part, !.keys = keys \o @,
               !.par = Merge(@, [n \in {d.name : d \in ToSet(axes)} |->
                                   sets[CHOOSE k \in DOMAIN axes : axes[k].name = n].val]),
               !.tags = @ \cup UNION {sets[k].tags : k \in DOMAIN axes},
               !.top = MaxScope({it.top} \cup {k[2] : k \in ToSet(keys)})]

JoinPart(lead, part) == IF part = NoId THEN lead ELSE lead \o <<"-">> \o part

WithFixtures(axes, it, row, sets) ==
    WithSets(axes, it, sets, JoinPart(Join([k \in DOMAIN sets |-> sets[k].id]), it.part),
             WideKeys(axes, row, Where(Indices(axes),
                                           LAMBDA k : Wider(axes[k].scope, "function"))))

MultiplyGroup(axes, group, rows) ==
    FlattenSeq([r \in DOMAIN rows |->
        [i \in DOMAIN group |->
            WithFixtures(axes, group[i], rows[r],
                         [k \in DOMAIN axes |-> FixtureSets(axes[k])[rows[r][k]]])]])

ExpandGroup(axes, group) ==
    IF axes = <<>> THEN group
    ELSE IF Head(group).testcase THEN [i \in DOMAIN group |-> [group[i] EXCEPT !.unsupported = TRUE]]
    ELSE MultiplyGroup(axes, group, Rows([k \in DOMAIN axes |-> [sets |-> FixtureSets(axes[k])]]))

(* expand_fixture_params: the consecutive items of one function share the  *)
(* fixtures' values, which vary slower than the function's own.            *)
ItemGroups(items) ==
    LET Step(groups, it) ==
            IF groups # <<>> /\ Base(Head(Last(groups))) = Base(it)
            THEN [groups EXCEPT ![Len(groups)] = Append(@, it)]
            ELSE Append(groups, <<it>>)
    IN  FoldLeft(Step, <<>>, items)

ExpandGroups(defs, groups) ==
    FlattenSeq([g \in DOMAIN groups |-> ExpandGroup(Axes(defs, Head(groups[g])), groups[g])])

ExpandFixtureParams(defs, items) == ExpandGroups(defs, ItemGroups(items))

---------------------------------------------------------------------------
(* Reordering by scoped parameters.                                        *)

HighScopes == {"session", "package", "module", "class"}

(* scope_boundary: what a parameter of that scope is shared within.        *)
ScopeBoundary(it, scope) ==
    CASE scope = "session" -> "" [] scope = "package" -> it.pkg
      [] scope = "class" /\ it.method -> it.cls [] OTHER -> it.mod

ArgKeys(it, scope) ==
    LET own == Where(it.keys, LAMBDA k : k[2] = scope)
    IN  Dedup([i \in DOMAIN own |-> <<own[i][1], own[i][3], ScopeBoundary(it, scope)>>])

(* i moves to the front of every list it is in, at every scope.            *)
MoveToFront(byKey, keysAt, i) ==
    [s \in HighScopes |->
        [k \in DOMAIN byKey[s] |->
            IF Contains(keysAt[s][i], k)
            THEN <<i>> \o Where(byKey[s][k], LAMBDA j : j # i) ELSE byKey[s][k]]]

MoveAll(byKey, keysAt, list) ==
    FoldLeft(LAMBDA b, i : MoveToFront(b, keysAt, i), byKey, Reverse(list))

(* All items of a key, in their order, come to the front of the queue.     *)
TakeSlice(keysAt, scope, items, st, key) ==
    LET matching == Where(st.byKey[scope][key], LAMBDA j : Contains(items, j))
    IN  [st EXCEPT !.queue = matching \o Tail(@), !.slice = {key},
                   !.byKey = MoveAll(@, keysAt, matching)]

(* The inner loop: what is done leaves the queue, items without a key left *)
(* are set aside; the first other item brings those of its last key.       *)
PopItems(keysAt, scope, items, st) ==
    LET Left(i) == Where(keysAt[scope][i], LAMBDA k : k \notin st.ignore)
        waiting == {k \in DOMAIN st.queue :
                        ~Contains(st.done, st.queue[k]) /\ Left(st.queue[k]) # <<>>}
        Without(n) ==
            [st EXCEPT !.queue = SubSeq(@, n + 1, Len(@)),
                       !.aside = Dedup(Where(SubSeq(st.queue, 1, n),
                                                 LAMBDA i : ~Contains(st.done, i)))]
    IN  IF waiting = {} THEN Without(Len(st.queue))
        ELSE TakeSlice(keysAt, scope, items, Without(Min(waiting) - 1),
                       Last(Left(st.queue[Min(waiting)])))

(* The outer loop goes on until the queue is empty: every pass but the     *)
(* last uses up a key.  r is the order of what was set aside at the next   *)
(* lower scope.                                                            *)
Ordering(out, byKey) == [out |-> out, byKey |-> byKey]
AfterPass(st, r) ==
    [st EXCEPT !.done = Dedup(@ \o r.out), !.byKey = r.byKey, !.aside = <<>>,
               !.ignore = @ \cup st.slice, !.slice = {}]
Passes(byKey, scope) == [k \in 1..(Cardinality(DOMAIN byKey[scope]) + 1) |-> k]

(* reorder_items_atscope: slice by slice; the items of a slice that have   *)
(* no key left are ordered at the next lower scope, by Below.              *)
AtScope(Below(_, _), keysAt, scope, items, byKey) ==
    LET Pass(p) == AfterPass(p, Below(p.aside, p.byKey))
        last == FoldLeft(LAMBDA st, k : IF st.queue = <<>> THEN st
                                        ELSE Pass(PopItems(keysAt, scope, items, st)),
                         [queue |-> items, done |-> <<>>, aside |-> <<>>, ignore |-> {},
                          slice |-> {}, byKey |-> byKey],
                         Passes(byKey, scope))
    IN  IF Len(items) < 3 THEN Ordering(items, byKey) ELSE Ordering(last.done, last.byKey)

AtClass(keysAt, items, byKey) == AtScope(Ordering, keysAt, "class", items, byKey)
AtModule(keysAt, items, byKey) ==
    AtScope(LAMBDA its, bs : AtClass(keysAt, its, bs), keysAt, "module", items, byKey)
AtPackage(keysAt, items, byKey) ==
    AtScope(LAMBDA its, bs : AtModule(keysAt, its, bs), keysAt, "package", items, byKey)
AtSession(keysAt, items, byKey) ==
    AtScope(LAMBDA its, bs : AtPackage(keysAt, its, bs), keysAt, "session", items, byKey)

MutReorder(items) ==                        \* mutant: only puts those without a parameter last
    FlattenSeq([s \in 1..2 |-> Where(items, LAMBDA it : (it.keys = <<>>) = (s = 2))])

(* reorder_items_by_param_scope: applied when it is a full permutation.    *)
Applied(order, items) ==
    IF Len(order) # Len(items) THEN items ELSE [i \in DOMAIN items |-> items[order[i]]]

ByKey(items, keysAt) ==
    [s \in HighScopes |->
        [k \in UNION {ToSet(keysAt[s][i]) : i \in DOMAIN items} |->
            Where(Indices(items), LAMBDA i : Contains(keysAt[s][i], k))]]

Ordered(items, keysAt) ==
    Applied(AtSession(keysAt, [i \in DOMAIN items |-> i], ByKey(items, keysAt)).out, items)

Reorder(items) ==
    IF \A it \in ToSet(items) : it.top = "function" THEN items
    ELSE Ordered(items, [s \in HighScopes |-> [i \in DOMAIN items |-> ArgKeys(items[i], s)]])
=============================================================================
