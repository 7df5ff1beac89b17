------------------------------ MODULE MCRunner ------------------------------
(* Small test lists for Runner: files a and b in package p, file c in q.   *)
EXTENDS Runner

None == [n \in {} |-> ""]

Def(name, alpha, base, scope, deps, kind) ==
    [name |-> name, base |-> base, scope |-> scope, deps |-> deps, auto |-> FALSE, alpha |-> alpha,
     par |-> FALSE, kind |-> kind, loop |-> scope]
Par(d) == [d EXCEPT !.par = TRUE]
Auto(d) == [d EXCEPT !.auto = TRUE]
OnLoop(d, scope) == [d EXCEPT !.kind = "aio", !.loop = scope]

Test(id, cls, mod, pkg, args) ==
    [id |-> id, cls |-> cls, mod |-> mod, pkg |-> pkg, parent |-> "", args |-> args, par |-> None,
     direct |-> None, keys |-> None, skip |-> FALSE, aio |-> FALSE, loop |-> "function"]
In(file, id, args) == Test(id, id, file, IF file = "c" THEN "q" ELSE "p", args)
(* t with parameter v of the fixture n, which is parametrized at scope s.  *)
With(t, n, v, s) ==
    [t EXCEPT !.par = @ @@ (n :> v), !.keys = @ @@ (n :> s)]
(* t with the argument v in place of the fixture n.                        *)
Argument(t, n, v) == [t EXCEPT !.direct = @ @@ (n :> v)]

Suite(defs, items, xunit, batches) ==
    [defs |-> defs, items |-> items, xunit |-> xunit, batches |-> batches]

P(scope) == Par(Def("P", 1, "", scope, <<>>, "yield"))
D(scope) == Def("D", 2, "", scope, <<"P">>, "yield")
F == Def("F", 3, "", "function", <<"request", "D", "P">>, "yield")

(* A module-scoped parameter moves inside one file.                        *)
ModuleParams ==
    LET t(id, v) == With(In("a", id, <<"F">>), "P", v, "module")
    IN  Suite(<<P("module"), D("module"), F>>, <<t("t1", "v1"), t("t2", "v2"), In("b", "t3", <<>>)>>,
              {"a"}, {3})

(* A class-scoped parameter, on a module fixture, in one class.            *)
ClassParams ==
    LET t(id, v) == With(Test(id, "A", "a", "p", <<"C">>), "C", v, "class")
    IN  Suite(<<Auto(Def("M", 1, "a", "module", <<>>, "yield")),
                Par(Def("C", 2, "", "class", <<"M">>, "yield"))>>,
              <<t("t1", "v1"), t("t2", "v2"), In("a", "t3", <<"M">>)>>, {}, {2})

(* A session-scoped parameter on a session fixture: the run comes back to  *)
(* file a for its second value.  The test asks for a fixture built on it.  *)
SessionParamsOf(dep) ==
    LET t(file, id, v) == With(In(file, id, <<"D", "P">>), "P", v, "session")
    IN  Suite(<<Def("S", 3, "", "session", <<>>, "yield"), [P("session") EXCEPT !.deps = <<"S">>], D(dep)>>,
              <<t("a", "t1", "v1"), t("b", "t2", "v1"), t("a", "t3", "v2")>>,
              {"a"}, {2, 3})

(* The file overrides a fixture of the whole run and builds on it.         *)
Overrides ==
    LET t(id, v) == With(In("a", id, <<"X", "F">>), "P", v, "module")
    IN  Suite(<<P("module"), Def("X", 2, "", "module", <<"P">>, "value"),
                Def("X", 2, "a", "module", <<"X">>, "yield"),
                Def("F", 3, "", "function", <<"X">>, "yield")>>,
              <<t("t1", "v1"), t("t2", "v2")>>, {}, {2})

(* A package fixture over two files, a session fixture below it.           *)
Packages ==
    Suite(<<Auto(Def("S", 1, "", "session", <<>>, "yield")),
            Def("K", 2, "p", "package", <<"S">>, "yield"),
            Def("M", 3, "", "module", <<"K">>, "yield")>>,
          <<In("a", "t1", <<"M">>), In("b", "t2", <<"M">>), In("c", "t3", <<"S">>)>>, {"b"}, {2})

(* Async fixtures: on their own loop, on a narrower one, on the session's. *)
Async ==
    LET async(t) == [t EXCEPT !.aio = TRUE]
    IN  Suite(<<OnLoop(Def("L", 1, "", "session", <<>>, "aio"), "session"),
                OnLoop(Def("M", 2, "", "module", <<"L">>, "aio"), "module"),
                OnLoop(Def("W", 3, "", "module", <<>>, "aio"), "function"),
                OnLoop(Def("G", 4, "", "function", <<"M">>, "aio"), "function")>>,
              <<async(In("a", "t1", <<"G">>)), async(In("a", "t2", <<"G", "W">>)),
                [async(In("b", "t3", <<"M">>)) EXCEPT !.loop = "module"]>>, {}, {3})

(* Requests that are refused, and a test that is skipped.                  *)
Refusals ==
    Suite(<<Def("N", 1, "", "function", <<>>, "yield"), Def("B", 2, "", "module", <<"N">>, "yield"),
            Def("R", 3, "", "function", <<"R2">>, "value"), Def("R2", 4, "", "function", <<"R">>, "value"),
            P("function")>>,
          <<In("a", "t1", <<"N", "B">>), [In("a", "t2", <<"N">>) EXCEPT !.skip = TRUE],
            In("a", "t3", <<"N", "R">>), In("b", "t4", <<"N", "P">>), In("b", "t5", <<"N", "unknown">>)>>,
          {}, {4})

(* parametrize(indirect=True, scope=s) over a function fixture that asks   *)
(* for another.                                                            *)
Widened(s) ==
    LET t(id, v) == With(In("a", id, <<"P">>), "P", v, s)
    IN  Suite(<<[P("function") EXCEPT !.deps = <<"N">>], Def("N", 3, "", "function", <<>>, "yield")>>,
              <<t("t1", "v1"), t("t2", "v1"), t("t3", "v2")>>, {}, {2})

(* A module fixture parametrized for each function, and one built on it.   *)
Loose ==
    LET t(id, v) == [In("a", id, <<"P", "D">>) EXCEPT !.par = "P" :> v]
    IN  Suite(<<P("module"), D("module")>>, <<t("t1", "v1"), t("t2", "v2")>>, {}, {2})

(* setup_module of a package around two files, one of which has its own.   *)
PackageHooks ==
    LET below(t) == [t EXCEPT !.parent = "pkg"]
    IN  Suite(<<Auto(Def("M", 1, "", "module", <<>>, "yield"))>>,
              <<below(In("a", "t1", <<"M">>)), below(In("b", "t2", <<>>)), In("c", "t3", <<>>)>>,
              {"pkg", "b"}, {2, 3})

(* parametrize(scope="module") of an argument that a module fixture and a  *)
(* class fixture ask for; the fixture of that name never runs.             *)
Arguments ==
    LET t(id, v) ==
            [Argument(Test(id, "A", "a", "p", <<"F">>), "P", v) EXCEPT !.keys = "P" :> "module"]
    IN  Suite(<<Def("P", 1, "", "function", <<>>, "yield"), D("module"),
                Def("C", 4, "", "class", <<"P">>, "value"),
                Def("F", 3, "", "function", <<"D", "C", "P">>, "yield")>>,
              <<t("t1", "v1"), t("t2", "v2"), t("t3", "v2")>>, {}, {2})

(* The same argument for each function: D keeps the first one.             *)
LooseArguments ==
    LET t(id, v) == Argument(In("a", id, <<"D", "C">>), "P", v)
    IN  Suite(<<Def("P", 1, "", "function", <<>>, "yield"), D("module"),
                Def("C", 4, "", "function", <<"P">>, "yield")>>,
              <<t("t1", "v1"), t("t2", "v2")>>, {}, {2})

(* A file overrides X by way of Y: the X that Y asks for is the one below. *)
Chain ==
    Suite(<<Def("X", 1, "", "module", <<>>, "yield"), Def("Y", 2, "", "module", <<"X">>, "yield"),
            Def("X", 1, "a", "module", <<"Y">>, "yield"), Def("Z", 3, "a", "function", <<"X">>, "yield")>>,
          <<In("a", "t1", <<"Z">>), In("a", "t2", <<"X">>), In("b", "t3", <<"Y">>)>>, {}, {3})

(* Async fixtures for each class and plain functions: one loop per file.   *)
ClassLoops ==
    LET async(t) == [t EXCEPT !.aio = TRUE, !.loop = "class"]
    IN  Suite(<<OnLoop(Def("K", 1, "", "class", <<>>, "aio"), "class"),
                OnLoop(Def("G", 2, "", "function", <<"K">>, "aio"), "class")>>,
              <<async(In("a", "t1", <<"G">>)), async(In("a", "t2", <<"G">>)),
                async(Test("t3", "A", "a", "p", <<"G">>)), In("b", "t4", <<"K">>)>>, {}, {3})

(* MCSuites is a name of its own because TLC evaluates what a constant of  *)
(* the .cfg stands for anew at every use, but a definition only once.      *)
TestLists ==
    [modparams |-> ModuleParams, clsparams |-> ClassParams, stale |-> SessionParamsOf("session"),
     sesparams |-> SessionParamsOf("function"), overrides |-> Overrides, packages |-> Packages,
     async |-> Async, refusals |-> Refusals, widened |-> Widened("module"),
     seswide |-> Widened("session"), loose |-> Loose, pkghooks |-> PackageHooks,
     arguments |-> Arguments, loosearguments |-> LooseArguments, chain |-> Chain,
     classloops |-> ClassLoops]
MCSuites == TestLists
MCStale == [modparams |-> ModuleParams]
=============================================================================
