----------------------------- MODULE MCSession ------------------------------
(* Small projects, options and behaviours for Session: files a and b in    *)
(* package p, file c in q.                                                 *)
EXTENDS Session

(* Tests.                                                                  *)
NoHook == [marks |-> <<>>, names |-> <<>>, prepend |-> FALSE]
Fn(file, name, place) ==
    [name |-> name, mod |-> file, pkg |-> IF file = "c" THEN "q" ELSE "p", cls |-> name,
     method |-> FALSE, args |-> <<>>, uses |-> <<>>, marks |-> <<>>, hook |-> NoHook,
     testcase |-> FALSE, tags |-> {}, line |-> place, alpha |-> place, rank |-> place]
Method(file, cls, name, place) == [Fn(file, name, place) EXCEPT !.cls = cls, !.method = TRUE]
Takes(f, args) == [f EXCEPT !.args = args]
Marked(f, tags) == [f EXCEPT !.tags = tags]

Value(v) == [vals |-> <<v>>, id |-> NoId, tags |-> {}]
Vals(vs) == [i \in DOMAIN vs |-> Value(vs[i])]
Pmark(name, sets) == [names |-> <<name>>, sets |-> sets, ids |-> <<>>, indirect |-> {}, scope |-> ""]
Direct(f, marks) == [f EXCEPT !.args = [i \in DOMAIN marks |-> marks[i].names[1]], !.marks = marks]

Fixture(name, scope, deps, vals) ==
    [name |-> name, base |-> "", scope |-> scope, deps |-> deps, auto |-> FALSE, alpha |-> 1,
     par |-> vals # <<>>, kind |-> "value", loop |-> scope,
     params |-> [i \in DOMAIN vals |-> [id |-> NoId, val |-> vals[i], tags |-> {}]]]

(* Modules, files and projects.                                            *)
Entry(f) == [kind |-> "function", f |-> f, imported |-> FALSE, claimed |-> FALSE, collected |-> TRUE]
Claimed(f) == [Entry(f) EXCEPT !.claimed = TRUE]
Imported(f) == [Entry(f) EXCEPT !.imported = TRUE]
Uncollected(f) == [Entry(f) EXCEPT !.collected = FALSE]
Generator(f) == [Entry(f) EXCEPT !.kind = "generator"]
Class(kind, bases, fixtures, tags) ==
    [kind |-> kind, imported |-> FALSE, claimed |-> FALSE, collected |-> TRUE, bases |-> bases,
     fixtures |-> fixtures, tags |-> tags, marks |-> <<>>, badInit |-> FALSE, lifecycle |-> fixtures]
Module(members) ==
    [fixtures |-> <<>>, members |-> members, nocollect |-> FALSE, imports |-> "ok", doctests |-> <<>>,
     tags |-> {}, marks |-> <<>>, plugins |-> <<>>]
Tests(fs) == Module([i \in DOMAIN fs |-> Entry(fs[i])])

Place == [a |-> <<1, 1>>, b |-> <<1, 2>>, c |-> <<2, 1>>, d |-> <<1, 3>>, e |-> <<2, 2>>, f |-> <<3>>]
NoCustom == [result |-> "none", items |-> <<>>]
File(name, mod) ==
    [name |-> name, path |-> Place[name], pkg |-> "p", kind |-> "py", test |-> TRUE, mod |-> mod,
     ignored |-> "no", custom |-> NoCustom]
Dir == [norecurse |-> FALSE, usual |-> FALSE, venv |-> FALSE, ignored |-> FALSE, collector |-> "default",
        wanted |-> {}, testnamed |-> FALSE]
Times == [a |-> 1, b |-> 2, c |-> 2, d |-> 0, e |-> 0, f |-> 0]
Proj(files) ==
    [files |-> files, dirs |-> << >> @@ (<<>> :> Dir) @@ (<<1>> :> Dir) @@ (<<2>> :> Dir),
     conftests |-> << >>, modules |-> << >>, entrypoints |-> <<>>, defs |-> <<>>, fileHook |-> FALSE,
     mtime |-> Times]
Conftest0 == [name |-> "conftest", imports |-> TRUE, fixtures |-> <<>>, ignores |-> {}, plugins |-> <<>>,
              declares |-> FALSE]
WithConftest(p, dir, c) == [p EXCEPT !.conftests = (dir :> c) @@ @]

(* Options.                                                                *)
Nothing == [kind |-> "none", names |-> {}]
Names(ns) == [kind |-> "names", names |-> ns]
Run == [args |-> <<>>, testpaths |-> <<>>, ignore |-> {}, keepdup |-> FALSE, venv |-> FALSE, maxfail |-> 0,
        doctests |-> FALSE, doctestIgnoreErrors |-> FALSE, noImported |-> FALSE, strictIds |-> FALSE,
        dist |-> FALSE, strictMarkers |-> FALSE, registered |-> {"skip"}, deselect |-> {},
        keyword |-> Nothing, markexpr |-> Nothing, lf |-> FALSE, ff |-> FALSE, nf |-> FALSE, sw |-> FALSE,
        swReset |-> FALSE, swSkip |-> FALSE, lfnf |-> "all", splits |-> 0, group |-> 0,
        leastDuration |-> FALSE, storeDurations |-> FALSE, cleanDurations |-> FALSE, may |-> {},
        mode |-> "run", cacheClear |-> FALSE, continue |-> FALSE, unknownHook |-> FALSE, hooks |-> <<>>,
        reporter |-> TRUE, loopReplaced |-> FALSE, noTerminal |-> FALSE, exitCode |-> 7, runxfail |-> FALSE,
        setupOnly |-> FALSE, plugins |-> <<>>, blocked |-> {}, autoload |-> TRUE, envPlugins |-> <<>>,
        noconftest |-> FALSE, confcutdir |-> <<>>]
Path(p) == [path |-> p, sel |-> <<>>, part |-> NoId]
Node(p, sel) == [path |-> p, sel |-> sel, part |-> NoId]
Hook(plugin, does, tag) ==
    [plugin |-> plugin, wrapper |-> FALSE, tryfirst |-> FALSE, trylast |-> FALSE, does |-> does, tag |-> tag]

(* Behaviours.                                                             *)
Pass == [kind |-> "test", custom |-> <<>>, marks |-> "none", xfail |-> <<>>, addedInSetup |-> <<>>,
         addedInCall |-> <<>>, context |-> TRUE, setup |-> "ok", call |-> "ok", teardown |-> "ok",
         leaks |-> {}, subs |-> <<>>, protocol |-> "native", wrapper |-> "ok", code |-> 9, time |-> 1,
         deadline |-> FALSE]
Fail == [Pass EXCEPT !.call = "fail"]
BadSetup == [Pass EXCEPT !.setup = "fail"]
BadTeardown == [Pass EXCEPT !.teardown = "fail"]
Skip == [Pass EXCEPT !.marks = "skip"]
Again(b) == [b EXCEPT !.protocol = "rerun"]
Flaky == <<Again(Fail), Again(Pass)>>
Xfail(runs, strict) == <<[run |-> runs, strict |-> strict, raises |-> {"fail"}]>>
Custom(made) == [Pass EXCEPT !.kind = "custom", !.custom = made]
Reports(phase, made, torn) ==
    Custom(<<[phase |-> phase, outcome |-> made], [phase |-> "teardown", outcome |-> torn]>>)
Once(bs) == {<<b>> : b \in bs}
Always(names, bs) == [n \in names |-> bs]

Scenario(projects, runs, behaves) == [projects |-> projects, runs |-> runs, behaves |-> behaves]
---------------------------------------------------------------------------
(* Failures that are remembered, over an edit that renames t1.             *)
Remembered ==
    LET b == File("b", Tests(<<Fn("b", "t3", 1)>>))
        m == Class("class", <<<<Method("a", "C", "t2", 2)>>>>, <<>>, {})
        before == File("a", Module(<<Entry(Fn("a", "t1", 1)), m>>))
        after == File("a", Module(<<Entry(Fn("a", "t4", 1)), m>>))
        bs == [t1 |-> Once({Pass, BadSetup}), t2 |-> Once({Pass, BadTeardown}),
               t3 |-> {<<Pass>>, <<Fail>>, Flaky}, t4 |-> Once({Skip})]
    IN  Scenario(<<Proj(<<before, b>>), Proj(<<after, b>>)>>,
                 <<Run, [Run EXCEPT !.lf = TRUE], [Run EXCEPT !.lf = TRUE, !.lfnf = "none"]>>, bs)

(* The same failures first, new tests first, and the cache cleared.        *)
FirstOnes ==
    LET a == File("a", Tests(<<Fn("a", "t1", 1), Fn("a", "t2", 2)>>))
        b == File("b", Tests(<<Fn("b", "t3", 1)>>))
    IN  Scenario(<<Proj(<<a>>), Proj(<<a, b>>)>>,
                 <<Run, [Run EXCEPT !.ff = TRUE, !.nf = TRUE],
                   [Run EXCEPT !.lf = TRUE, !.cacheClear = TRUE, !.args = <<Node(<<1, 1>>, <<"t1">>)>>]>>,
                 Always({"t1", "t2", "t3"}, Once({Pass, Fail})))

Four == <<File("a", Tests(<<Fn("a", "t1", 1), Fn("a", "t2", 2), Fn("a", "t3", 3)>>)),
          File("b", Tests(<<Fn("b", "t4", 1)>>))>>
Steps ==
    LET sw == [Run EXCEPT !.sw = TRUE]
    IN  Scenario(<<Proj(Four)>>, <<sw, [sw EXCEPT !.swSkip = TRUE], sw>>,
                 Always({"t1", "t2", "t3"}, Once({Pass, Fail})) @@
                 [t4 |-> {<<Pass>>, Flaky, <<BadTeardown>>}])
StepsReset ==
    LET sw == [Run EXCEPT !.sw = TRUE]
    IN  Scenario(<<Proj(Four)>>, <<[sw EXCEPT !.maxfail = 1], [sw EXCEPT !.swReset = TRUE], sw>>,
                 Always({"t1", "t3", "t4"}, Once({Pass})) @@
                 [t2 |-> Once({Pass, Fail, [Fail EXCEPT !.protocol = "twice"], [Pass EXCEPT !.call = "exit"],
                               [Pass EXCEPT !.call = "interrupt"], [Pass EXCEPT !.deadline = TRUE]})])

(* Parameters at every scope.                                              *)
Params(scope) ==
    LET P == Fixture("P", scope, <<>>, <<<<"x">>, <<"y">>>>)
        t(file, name, place) == Takes(Fn(file, name, place), <<"P">>)
        a == Tests(<<t("a", "t1", 1), Fn("a", "t2", 2), t("a", "t3", 3)>>)
        k == Class("class", <<<<Takes(Method("b", "K", "t4", 1), <<"P">>),
                                Takes(Method("b", "K", "t5", 2), <<"P">>)>>>>, <<>>, {})
    IN  Scenario(<<[Proj(<<File("a", a), File("b", Module(<<k>>))>>) EXCEPT !.defs = <<P>>]>>,
                 <<[Run EXCEPT !.mode = "collectonly"]>>, Always({}, {}))
(* A module-scoped mark next to a session fixture.                         *)
MixedParams ==
    LET P == Fixture("P", "session", <<>>, <<<<"x">>, <<"y">>>>)
        q == [Pmark("q", Vals(<<<<"1">>, <<"2">>>>)) EXCEPT !.scope = "module"]
        t(file, name) == [Takes(Fn(file, name, 1), <<"P", "q">>) EXCEPT !.marks = <<q>>]
        u(file, name) == [Takes(Fn(file, name, 2), <<"q">>) EXCEPT !.marks = <<q>>]
    IN  Scenario(<<[Proj(<<File("a", Tests(<<t("a", "t1"), u("a", "t2")>>)),
                           File("b", Tests(<<u("b", "t3"), Takes(Fn("b", "t4", 3), <<"P">>)>>))>>)
                      EXCEPT !.defs = <<P>>]>>,
                 <<[Run EXCEPT !.mode = "collectonly"]>>, Always({}, {}))
(* A module-scoped mark or the session fixture: never both.                *)
EitherParam ==
    LET P == Fixture("P", "session", <<>>, <<<<"x">>, <<"y">>>>)
        q == [Pmark("q", Vals(<<<<"1">>, <<"2">>>>)) EXCEPT !.scope = "module"]
        t(name, place) == Takes(Fn("a", name, place), <<"P">>)
        u(name, place) == [Takes(Fn("a", name, place), <<"q">>) EXCEPT !.marks = <<q>>]
    IN  Scenario(<<[Proj(<<File("a", Tests(<<u("t1", 1), t("t2", 2), Fn("a", "t3", 3), u("t4", 4), t("t5", 5)>>))>>)
                      EXCEPT !.defs = <<P>>]>>,
                 <<[Run EXCEPT !.mode = "collectonly"]>>, Always({}, {}))

(* IDs: values that collide with numbers, hidden and explicit IDs, marks   *)
(* that do not fit, fixtures that override parametrized ones, two marks    *)
(* and one fixture that give two items one ID.                             *)
IdsProject ==
    LET collide == Direct(Fn("a", "t1", 1), <<Pmark("x", Vals(<<<<"v">>, <<"v">>, <<"v", "0">>, <<"1">>, <<"1">>>>))>>)
        hidden == Direct(Fn("a", "t2", 2),
                    <<Pmark("x", <<[vals |-> <<<<"u">>>>, id |-> Hidden, tags |-> {}],
                                  [vals |-> <<<<"w">>>>, id |-> <<"i">>, tags |-> {"skip"}],
                                  Value(<<"z">>)>>),
                      [Pmark("y", Vals(<<<<"1">>, <<"2">>>>)) EXCEPT !.ids = <<<<"p">>, Hidden>>]>>)
        stacked == Direct(Fn("a", "t9", 9), <<Pmark("x", Vals(<<<<"a">>, <<"a", "-", "b">>>>)),
                                              Pmark("y", Vals(<<<<"b", "-", "c">>, <<"c">>>>))>>)
        twice == Takes(Fn("a", "t10", 10), <<"H">>)
        H == Fixture("H", "function", <<>>, <<<<"h">>, <<"h">>>>)
        empty == Direct(Fn("a", "t3", 3), <<Pmark("x", <<>>)>>)
        hooked == [Takes(Fn("a", "t4", 4), <<"x">>) EXCEPT
                      !.hook = [marks |-> <<Pmark("x", Vals(<<<<"1">>, <<"2">>>>))>>, names |-> <<"G">>,
                                prepend |-> TRUE]]
        G == Fixture("G", "function", <<>>, <<<<"x">>, <<"y">>>>)
        over == [Fixture("G", "function", <<"G">>, <<>>) EXCEPT !.base = "a"]
        indirect == [Takes(Fn("a", "t5", 5), <<"G">>) EXCEPT
                       !.marks = <<[Pmark("G", Vals(<<<<"8">>, <<"9">>>>)) EXCEPT !.indirect = {"G"}]>>]
        none == [Fixture("E", "module", <<>>, <<>>) EXCEPT !.par = TRUE]
        unused == Takes(Fn("a", "t6", 6), <<"E", "G">>)
        case == Class("testcase", <<<<[Method("a", "T", "t8", 8) EXCEPT !.uses = <<"G">>],
                                      Method("a", "T", "t7", 7)>>>>, <<none>>, {})
    IN  [Proj(<<[File("a", Module(<<Entry(collide), Entry(hidden), Entry(empty), Entry(hooked),
                                    Entry(indirect), Entry(unused), case, Entry(stacked), Entry(twice)>>))
                   EXCEPT !.mod.fixtures = <<over>>]>>) EXCEPT !.defs = <<G, none, H>>]
IdCases == Scenario(<<IdsProject>>, <<Run>>,
                    Always({"t1", "t2", "t3", "t4", "t5", "t6", "t7", "t8", "t9", "t10"}, Once({Pass})))
StrictIds == Scenario(<<IdsProject>>, <<[Run EXCEPT !.strictIds = TRUE, !.continue = TRUE, !.maxfail = 3]>>,
                      Always({}, {}))

---------------------------------------------------------------------------
(* Which files are read: arguments, ignores and the hooks about them.      *)
Tree ==
    LET one(file, name) == File(file, Tests(<<Fn(file, name, 1)>>))
        b == [one("b", "t2") EXCEPT !.ignored = "skip"]
        d == [one("d", "t4") EXCEPT !.test = FALSE, !.mod.doctests = <<Fn("d", "doc", 1)>>]
        e == [one("e", "t5") EXCEPT !.kind = "text", !.mod.doctests = <<Fn("e", "text", 1)>>]
        f == [one("f", "t6") EXCEPT !.kind = "other"]
    IN  Proj(<<one("a", "t1"), b, d, one("c", "t3"), e, f>>)
Walks ==
    LET under(p, dir) == [p EXCEPT !.dirs[<<2>>] = dir]
    IN  Scenario(<<Tree, under(Tree, [Dir EXCEPT !.norecurse = TRUE]), under(Tree, [Dir EXCEPT !.venv = TRUE]),
                   under(Tree, [Dir EXCEPT !.ignored = TRUE]),
                   under(Tree, [Dir EXCEPT !.collector = "rejected", !.usual = TRUE]),
                   under(Tree, [Dir EXCEPT !.collector = "custom", !.wanted = {"e"}])>>,
                 <<[Run EXCEPT !.mode = "collectonly"],
                   [Run EXCEPT !.doctests = TRUE, !.ignore = {<<1, 1>>}, !.mode = "collectonly"]>>,
                 Always({}, {}))
Arguments ==
    LET runs == <<[Run EXCEPT !.args = <<Path(<<2>>), Path(<<1, 1>>), Node(<<1, 1>>, <<"t1">>), Path(<<2, 1>>)>>],
                  [Run EXCEPT !.args = <<Node(<<1, 1>>, <<"t1">>), Path(<<1, 1>>)>>, !.keepdup = TRUE],
                  [Run EXCEPT !.args = <<Node(<<1, 1>>, <<"none">>)>>],
                  [Run EXCEPT !.args = <<Path(<<9>>)>>],
                  [Run EXCEPT !.testpaths = <<Path(<<2>>)>>],
                  [Run EXCEPT !.args = <<Path(<<3>>)>>]>>
        all == [r \in DOMAIN runs |-> [runs[r] EXCEPT !.mode = "collectonly", !.reporter = r # 1]]
    IN  Scenario(<<Tree, WithConftest(Tree, <<>>, [Conftest0 EXCEPT !.ignores = {<<1, 1>>}])>>, all, Always({}, {}))

(* Plugins named twice over, and conftest files: one that declares plugins *)
(* below the root, one that fails, in a directory that may be ignored.     *)
Plugged ==
    LET plugin(hooks, fixtures) == [imports |-> TRUE, hooks |-> hooks, fixtures |-> fixtures]
        P == Fixture("P", "module", <<>>, <<<<"x">>, <<"y">>>>)
        a == Tests(<<Takes(Fn("a", "t1", 1), <<"P">>), Fn("a", "t2", 2)>>)
        c == [Tests(<<Takes(Fn("c", "t3", 1), <<"P">>)>>) EXCEPT !.plugins = <<"hooked", "plain", "gone">>]
    IN  WithConftest(WithConftest(
            [Proj(<<File("a", a), File("c", c)>>) EXCEPT
                !.modules = [hooked |-> plugin(TRUE, <<>>), plain |-> plugin(FALSE, <<P>>),
                             failing |-> [plugin(TRUE, <<>>) EXCEPT !.imports = FALSE]],
                !.entrypoints = <<[name |-> "point", module |-> "hooked"], [name |-> "other", module |-> "plain"],
                                  [name |-> "failing", module |-> "failing"]>>,
                !.dirs[<<2>>].testnamed = TRUE],
            <<>>, [Conftest0 EXCEPT !.plugins = <<"hooked">>, !.declares = TRUE]),
            <<2>>, [Conftest0 EXCEPT !.plugins = <<"plain">>, !.declares = TRUE])
Plugs ==
    LET runs == <<[Run EXCEPT !.plugins = <<"point", "plain", "failing", "gone">>, !.envPlugins = <<"hooked">>],
                  [Run EXCEPT !.plugins = <<"point", "hooked">>, !.blocked = {"point"}, !.maxfail = 2],
                  [Run EXCEPT !.autoload = FALSE, !.envPlugins = <<"hooked", "plain">>, !.args = <<Path(<<2>>)>>],
                  [Run EXCEPT !.noconftest = TRUE, !.args = <<Path(<<1, 1>>), Path(<<2, 1>>)>>]>>
    IN  Scenario(<<Plugged>>, runs, Always({"t1", "t2", "t3"}, Once({Pass})))
Confs ==
    LET broken == WithConftest(WithConftest(Tree, <<1>>, Conftest0), <<2>>, [Conftest0 EXCEPT !.imports = FALSE])
        runs == <<[Run EXCEPT !.mode = "help"], Run, [Run EXCEPT !.args = <<Path(<<1, 3>>)>>],
                  [Run EXCEPT !.confcutdir = <<<<2, 5>>>>], [Run EXCEPT !.noconftest = TRUE]>>
    IN  Scenario(<<broken, [broken EXCEPT !.dirs[<<2>>].ignored = TRUE]>>,
                 [r \in DOMAIN runs |-> IF r = 1 THEN runs[r] ELSE [runs[r] EXCEPT !.mode = "collectonly"]],
                 Always({}, {}))

(* Files that fail, and what the hook makes of them.                       *)
Broken(what) ==
    LET a == [File("a", Module(<<Entry(Fn("a", "t1", 1)), Generator(Fn("a", "t2", 2)), Entry(Fn("a", "t5", 3))>>))
                EXCEPT !.mod.doctests = <<Fn("a", "doc", 4)>>]
        b == [File("b", Tests(<<Fn("b", "t3", 1)>>)) EXCEPT !.mod.imports = what]
        c == [File("c", Tests(<<Fn("c", "t4", 1)>>)) EXCEPT !.mod.imports = "error"]
    IN  Proj(<<a, b, c>>)
Errors(what) ==
    Scenario(<<Broken(what)>>,
             <<[Run EXCEPT !.continue = TRUE, !.sw = TRUE], [Run EXCEPT !.maxfail = 1],
               [Run EXCEPT !.doctests = TRUE, !.doctestIgnoreErrors = TRUE],
               [Run EXCEPT !.mode = "collectonly"], [Run EXCEPT !.lf = TRUE]>>,
             Always({"t1", "t3"}, Once({Fail})))
Repaired ==
    Scenario(<<Broken("ok"), Proj(<<File("a", Tests(<<Fn("a", "t1", 1)>>)), File("b", Tests(<<Fn("b", "t3", 1)>>))>>)>>,
             <<[Run EXCEPT !.continue = TRUE], [Run EXCEPT !.lf = TRUE], Run>>,
             Always({"t1", "t3"}, Once({Pass, Fail})))
MadeFiles ==
    LET made(result, fs) == [result |-> result, items |-> fs]
        a == [File("a", Tests(<<Fn("a", "t1", 3)>>)) EXCEPT
                !.custom = made("items", <<Fn("a", "t1", 3), Fn("a", "made", 1)>>)]
        b == [File("b", Tests(<<Fn("b", "t2", 1)>>)) EXCEPT !.custom = made("skip", <<>>)]
        c == [File("c", Tests(<<Fn("c", "t3", 1)>>)) EXCEPT !.custom = made("bare", <<>>), !.test = FALSE]
        d == [File("d", Tests(<<Fn("d", "t4", 1)>>)) EXCEPT !.custom = made("bare", <<>>)]
        e == [File("e", Module(<<Generator(Fn("e", "t5", 1))>>)) EXCEPT !.custom = made("bare", <<>>), !.test = FALSE]
        f == [File("f", Tests(<<>>)) EXCEPT !.kind = "other",
                !.custom = made("items", <<Fn("f", "yaml", 1)>>)]
        bad == [f EXCEPT !.custom = made("error", <<>>)]
    IN  Scenario(<<[Proj(<<a, b, d, c, e, f>>) EXCEPT !.fileHook = TRUE],
                   [Proj(<<a, b, d, c, e, bad>>) EXCEPT !.fileHook = TRUE]>>,
                 <<[Run EXCEPT !.continue = TRUE],
                   [Run EXCEPT !.args = <<Path(<<3>>), Path(<<1, 1>>)>>, !.continue = TRUE]>>,
                 Always({"t1", "t4", "t3"}, Once({Pass})) @@
                 [made |-> Once({Custom(<<>>), Reports("call", "passed", "passed"), Reports("setup", "skipped", "passed")}),
                  yaml |-> Once({Reports("call", "failed", "passed"), Reports("call", "xfailed", "failed")})])
Members ==
    LET base == <<Method("a", "K", "t2", 1), Method("a", "K", "t3", 2)>>
        k == Class("class", <<<<Method("a", "K", "t2", 5)>>, base>>, <<Fixture("S", "class", <<>>, <<>>)>>, {"skip"})
        bad == [Class("class", <<base>>, <<>>, {}) EXCEPT !.badInit = TRUE]
        c == Class("testcase", <<<<Method("b", "T", "t5", 4)>>, <<Method("b", "T", "t4", 3)>>>>, <<>>, {"skip"})
        a == [Module(<<k, bad, Imported(Fn("a", "t6", 6)), Claimed(Fn("a", "t7", 7)), Uncollected(Fn("a", "t8", 8))>>)
                EXCEPT !.doctests = <<Fn("a", "doc", 9)>>]
        b == Module(<<c>>)
        n == [Tests(<<Fn("c", "t9", 1)>>) EXCEPT !.nocollect = TRUE]
    IN  Scenario(<<Proj(<<File("a", a), File("b", b), File("c", n)>>)>>,
                 <<[Run EXCEPT !.noImported = TRUE, !.doctests = TRUE], Run>>,
                 Always({"t2", "t3", "t4", "t5", "t6", "t7", "doc"}, Once({Pass})))

---------------------------------------------------------------------------
(* -k, -m, --deselect and the hooks that change the list.                  *)
Chosen ==
    LET fs == <<Marked(Fn("a", "t1", 1), {"slow"}), Fn("a", "t2", 2), Marked(Fn("a", "t3", 3), {"slow", "db"}),
                Fn("a", "t4", 4)>>
    IN  Proj(<<File("a", Tests(fs))>>)
ByName == Scenario(<<Chosen>>,
    <<[Run EXCEPT !.keyword = Names({"t1", "t2", "db"}), !.markexpr = Names({"slow"}), !.may = {"deselected"}],
      [Run EXCEPT !.deselect = {[mod |-> "a", names |-> {"t2", "t3"}]}],
      [Run EXCEPT !.keyword = [kind |-> "bad", names |-> {}]],
      [Run EXCEPT !.keyword = [kind |-> "fails", names |-> {}]],
      [Run EXCEPT !.markexpr = [kind |-> "bad", names |-> {}]],
      [Run EXCEPT !.markexpr = [kind |-> "fails", names |-> {}]],
      [Run EXCEPT !.keyword = Names({"none"})],
      [Run EXCEPT !.strictMarkers = TRUE], [Run EXCEPT !.unknownHook = TRUE]>>,
    Always({"t1", "t2", "t3", "t4"}, Once({Pass})))
ByHook ==
    LET late == [Hook(TRUE, "reverse", "") EXCEPT !.wrapper = TRUE]
        h == <<Hook(FALSE, "mark", "hot"), [Hook(TRUE, "drop", "db") EXCEPT !.trylast = TRUE],
               [Hook(TRUE, "reverse", "") EXCEPT !.tryfirst = TRUE], Hook(TRUE, "substitute", "")>>
    IN  Scenario(<<Chosen>>,
            <<[Run EXCEPT !.hooks = h, !.markexpr = Names({"hot"})], [Run EXCEPT !.hooks = Append(h, late)],
              [Run EXCEPT !.hooks = <<late>>, !.keepdup = TRUE, !.args = <<Path(<<1, 1>>), Path(<<1, 1>>)>>],
              [Run EXCEPT !.hooks = <<Hook(FALSE, "fail", "")>>],
              [Run EXCEPT !.hooks = <<[Hook(TRUE, "fail", "") EXCEPT !.wrapper = TRUE]>>]>>,
            Always({"t1", "t2", "t3", "t4"}, Once({Pass})))

(* Groups, with durations stored by earlier runs.                          *)
Groups ==
    LET timed(n) == <<[Pass EXCEPT !.time = n]>>
        store == [Run EXCEPT !.storeDurations = TRUE]
        split == [Run EXCEPT !.splits = 2, !.group = 1, !.mode = "collectonly"]
    IN  Scenario(<<Proj(Four), Proj(Append(Four, File("d", Tests(<<Fn("d", "t5", 1)>>))))>>,
                 <<store, [store EXCEPT !.cleanDurations = TRUE, !.lf = TRUE], split,
                   [split EXCEPT !.leastDuration = TRUE, !.group = 2], [split EXCEPT !.splits = 7],
                   [split EXCEPT !.group = 3]>>,
                 [t1 |-> {timed(0), timed(5)}, t2 |-> {timed(1)}, t3 |-> {timed(0), timed(3)},
                  t4 |-> {timed(1), timed(9), <<Fail>>}, t5 |-> {timed(2)}])

---------------------------------------------------------------------------
(* What can go wrong at each step of one run, and every way a test ends.   *)
Single == Proj(<<File("a", Tests(<<Fn("a", "t1", 1), Fn("a", "t2", 2)>>))>>)
Faults(opts) == Scenario(<<Single>>, <<opts>>,
                         [t1 |-> Once({Pass, Fail}), t2 |-> Once({Pass, [Pass EXCEPT !.protocol = "usage"]})])
Ends == {"finishexit", "finishexitcode", "finishinterrupt", "finisherror", "unraisable", "thread"}
Early == DOMAIN BootCode \cup DOMAIN PluginCode \cup DOMAIN LoadEnd \cup DOMAIN ConfigureEnd
            \cup DOMAIN StartEnd \cup {"cmdlinemain"}
Modes ==
    LET modes == <<"cacheshow", "help", "markers", "fixtures", "collectonly">>
    IN  Scenario(<<Single>>, [m \in DOMAIN modes |-> [Run EXCEPT !.mode = modes[m], !.may = {"cacheshow"}]],
                 Always({}, {}))

Outcomes ==
    LET x(runs, strict, b) == [b EXCEPT !.xfail = Xfail(runs, strict)]
        sub(outcome, unittest) == <<[outcome |-> outcome, unittest |-> unittest]>>
    IN  {Pass, Fail, Skip, BadSetup, BadTeardown, [Pass EXCEPT !.marks = "error"], [Pass EXCEPT !.context = FALSE],
         x(FALSE, FALSE, Fail), x(TRUE, FALSE, Fail), x(TRUE, FALSE, Pass), x(TRUE, TRUE, Pass),
         x(TRUE, FALSE, BadSetup), x(TRUE, FALSE, BadTeardown), x(TRUE, FALSE, [Pass EXCEPT !.call = "other"]),
         x(TRUE, FALSE, [BadTeardown EXCEPT !.call = "other"]),
         x(TRUE, TRUE, [Pass EXCEPT !.call = "skip"]), [Pass EXCEPT !.call = "xfail"], [Pass EXCEPT !.call = "async"],
         x(TRUE, FALSE, [Pass EXCEPT !.call = "async"]), [Pass EXCEPT !.setup = "skip"], [Pass EXCEPT !.setup = "xfail"],
         [Fail EXCEPT !.addedInSetup = Xfail(TRUE, TRUE)], [Pass EXCEPT !.addedInSetup = Xfail(FALSE, FALSE)],
         [Fail EXCEPT !.addedInCall = Xfail(TRUE, FALSE)], [Pass EXCEPT !.leaks = {"setup"}],
         [Pass EXCEPT !.leaks = {"call"}], [Pass EXCEPT !.leaks = {"teardown"}],
         [Pass EXCEPT !.subs = sub("failed", FALSE)], [Pass EXCEPT !.subs = sub("failed", TRUE)],
         [Pass EXCEPT !.subs = sub("passed", FALSE), !.call = "exit"], [Pass EXCEPT !.call = "interrupt"],
         [Fail EXCEPT !.protocol = "twice"], [Pass EXCEPT !.protocol = "usage"], [Pass EXCEPT !.protocol = "error"],
         [Pass EXCEPT !.wrapper = "fail"], [Pass EXCEPT !.deadline = TRUE], Custom(<<>>)}
Behaved(opts) ==
    Scenario(<<Single>>, <<opts, [Run EXCEPT !.lf = TRUE]>>,
             [t1 |-> Once(Outcomes) \cup {Flaky, <<Again(BadSetup), Again(Fail)>>,
                                           <<Again(BadTeardown), Again([Pass EXCEPT !.call = "exit"])>>}, t2 |-> Once({Pass})])

MCScenarios ==
    [remembered |-> Remembered, first |-> FirstOnes, steps |-> Steps, stepsreset |-> StepsReset,
     psession |-> Params("session"), ppackage |-> Params("package"), pmodule |-> Params("module"),
     pclass |-> Params("class"), pmixed |-> MixedParams, peither |-> EitherParam, ids |-> IdCases, strict |-> StrictIds,
     walks |-> Walks, plugins |-> Plugs, conftests |-> Confs, arguments |-> Arguments, errors |-> Errors("error"), skipped |-> Errors("skip"),
     interrupted |-> Errors("interrupt"), exited |-> Errors("exit"), repaired |-> Repaired,
     custom |-> MadeFiles, members |-> Members, byname |-> ByName, byhook |-> ByHook, groups |-> Groups,
     early |-> Faults([Run EXCEPT !.may = Early]), ends |-> Faults([Run EXCEPT !.may = Ends]),
     endsquiet |-> Faults([Run EXCEPT !.may = Ends, !.noTerminal = TRUE]),
     endsempty |-> Faults([Run EXCEPT !.may = Ends, !.keyword = Names({"none"})]),
     endsreplaced |-> Faults([Run EXCEPT !.may = Ends, !.loopReplaced = TRUE]),
     modes |-> Modes, behaved |-> Behaved(Run), runxfail |-> Behaved([Run EXCEPT !.runxfail = TRUE]),
     setuponly |-> Behaved([Run EXCEPT !.setupOnly = TRUE, !.maxfail = 1])]
=============================================================================
