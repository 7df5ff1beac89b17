----------------------------- MODULE Collection -----------------------------
(***************************************************************************)
(* From command line arguments to the items of a run: the test files below *)
(* the arguments (collect.rs), the hooks that narrow them and the import   *)
(* of each file (engine/collect/collection.rs), the tests of a module      *)
(* (python/collecting/items.rs, doctest.rs), the files plugins collect     *)
(* (python/collecting/hooks.rs) and the last steps of reorder.rs.          *)
(*                                                                         *)
(* A project p has                                                         *)
(*   files   its files in path order: [name, path, pkg, kind, test, mod,   *)
(*           ignored, custom]; kind is "py", "text" or "other", test says  *)
(*           whether the name matches python_files (or test*.txt), mod is  *)
(*           what importing it yields, ignored what pytest_ignore_collect  *)
(*           says of it ("no", "yes" or "skip"), custom what               *)
(*           pytest_collect_file makes of it                               *)
(*   dirs    path -> [norecurse, usual, venv, ignored, collector]; usual:  *)
(*           the fixed list of the other walks skips it as well; collector *)
(*           is "default", "rejected" or "custom" with the files in wanted *)
(*   modules, hooked   see Plugins: what pytest_plugins of a file may name *)
(*   conftestIgnores   paths in collect_ignore of its conftest files       *)
(*   defs    the fixtures of plugins and conftest files                    *)
(*   errors  what was wrong before collection                              *)
(* Paths are sequences of numbers that sort like the names.                *)
(*                                                                         *)
(* The options o of a run that matter here are args (each [path, sel,      *)
(* part]), testpaths (what its globs match), ignore, keepdup, venv,        *)
(* maxfail, doctests, doctestIgnoreErrors, noImported, strictIds and dist. *)
(***************************************************************************)
EXTENDS Generate, Plugins

Under(path, dir) == Len(dir) <= Len(path) /\ \A i \in DOMAIN dir : path[i] = dir[i]

Exists(p, path) == path \in DOMAIN p.dirs \/ \E f \in ToSet(p.files) : f.path = path

IsDir(p, path) == path \in DOMAIN p.dirs

(* Component-wise order of paths.                                          *)
Before(a, b) ==
    \/ Len(a) < Len(b) /\ Under(b, a)
    \/ \E i \in DOMAIN a \cap DOMAIN b : a[i] < b[i] /\ \A j \in 1..(i - 1) : a[j] = b[j]

(* --ignore: the path or one above it.                                     *)
Ignored(o, path) == \E i \in o.ignore : Under(path, i)

(* testpaths apply when there is no argument; without either collection    *)
(* starts where the run was started.                                       *)
GivenArgs(o) == IF o.args # <<>> THEN o.args ELSE o.testpaths
ResolveArgs(o) ==
    IF GivenArgs(o) # <<>> THEN GivenArgs(o)
    ELSE <<[path |-> <<>>, sel |-> <<>>, part |-> NoId]>>

HasParts(a) == a.sel # <<>>

(* normalize_collection_arguments: in path order, those without node parts *)
(* first, an argument at or below a kept one that covers it is dropped;    *)
(* the others keep their order.                                            *)
ArgCovers(a, b) ==
    \/ a.path = b.path /\ (~HasParts(a) \/ HasParts(b))
    \/ a.path # b.path /\ ~HasParts(a) /\ Under(b.path, a.path)

KeepArg(args, kept, i) ==
    IF kept # <<>> /\ ArgCovers(args[Last(kept)], args[i]) THEN kept ELSE Append(kept, i)

Survivors(args) ==
    LET Precedes(i, j) ==
            \/ Before(args[i].path, args[j].path)
            \/ /\ args[i].path = args[j].path
               /\ \/ ~HasParts(args[i]) /\ HasParts(args[j])
                  \/ HasParts(args[i]) = HasParts(args[j]) /\ i < j
        At(order) == [i \in DOMAIN order |-> args[order[i]]]
    IN  At(Kept(Indices(args),
                ToSet(FoldLeft(LAMBDA kept, i : KeepArg(args, kept, i), <<>>,
                               Sorted(DOMAIN args, Precedes)))))

(* collect_dir: the test files below a directory in path order; what is    *)
(* ignored, not to be recursed into or a virtual environment is not        *)
(* entered, except the directory itself.                                   *)
CollectDir(p, o, dir) ==
    LET Entered(d) == /\ ~Ignored(o, d) /\ ~p.dirs[d].norecurse
                      /\ o.venv \/ ~p.dirs[d].venv
        Reached(f) ==
            /\ f.kind = "py" /\ f.test /\ Under(f.path, dir) /\ ~Ignored(o, f.path)
            /\ \A d \in DOMAIN p.dirs : d # dir /\ Under(d, dir) /\ Under(f.path, d) => Entered(d)
    IN  Where(p.files, Reached)

FileAt(p, path) == CHOOSE f \in ToSet(p.files) : f.path = path

(* collect_test_files: the files of all arguments, each once unless        *)
(* --keep-duplicates, and the arguments that do not exist.                 *)
FilesOf(p, o, args) ==
    FlattenSeq([i \in DOMAIN args |->
        IF IsDir(p, args[i].path) THEN CollectDir(p, o, args[i].path) ELSE <<FileAt(p, args[i].path)>>])

Found(p, o, args) == Where(args, LAMBDA a : Exists(p, a.path) /\ ~Ignored(o, a.path))

CollectTestFiles(p, o, args) ==
    IF o.keepdup THEN FilesOf(p, o, Found(p, o, args))
    ELSE Dedup(FilesOf(p, o, Survivors(Found(p, o, args))))

---------------------------------------------------------------------------
(* Hooks that narrow the files.                                            *)

Report(node, phase, outcome) ==
    [node |-> node, phase |-> phase, outcome |-> outcome, rerun |-> FALSE, sub |-> FALSE, time |-> 0]
FileNode(f) == [mod |-> f.name, cls |-> "", name |-> "", part |-> NoId]

(* apply_collect_ignores: collect_ignore always; pytest_ignore_collect, on *)
(* the file and the directories above it, only without arguments.          *)
IgnoredBelow(p, f) == \E d \in DOMAIN p.dirs \ {<<>>} : Under(f.path, d) /\ p.dirs[d].ignored

SkipReports(files) ==
    LET skipped == Where(files, LAMBDA f : f.ignored = "skip")
    IN  [i \in DOMAIN skipped |-> Report(FileNode(skipped[i]), "setup", "skipped")]

HookIgnores(p, files) ==
    [files |-> Where(files, LAMBDA f : f.ignored = "no" /\ ~IgnoredBelow(p, f)),
     reports |-> SkipReports(Where(files, LAMBDA f : ~IgnoredBelow(p, f)))]

WithoutIgnored(p, files) ==
    Where(files, LAMBDA f : ~\E i \in p.conftestIgnores : Under(f.path, i))

CollectIgnores(p, o, files) ==
    IF GivenArgs(o) # <<>> THEN [files |-> WithoutIgnored(p, files), reports |-> <<>>]
    ELSE HookIgnores(p, WithoutIgnored(p, files))

(* pytest_collect_directory: a rejected directory loses its files and all  *)
(* below, a custom collector keeps those of its directory that it wants.   *)
DirectoryAllows(p, f) ==
    LET above == {d \in DOMAIN p.dirs : Under(f.path, d)}
        parent == SubSeq(f.path, 1, Len(f.path) - 1)
    IN  /\ \A d \in above : p.dirs[d].collector # "rejected"
        /\ parent \in above /\ p.dirs[parent].collector = "custom"
              => f.name \in p.dirs[parent].wanted

---------------------------------------------------------------------------
(* The tests of a module.  st is [items, defs, error].                     *)

NoParams == [n \in {} |-> ""]

(* An item without parameters: a TestCase method, a doctest or what a hook *)
(* made.                                                                   *)
PlainItem(f) ==
    Merge([id |-> NodeId(f, NoId), part |-> NoId, par |-> NoParams, direct |-> NoParams, keys |-> <<>>,
          top |-> "function", unsupported |-> FALSE], f)

(* The marks of a class and of its module follow the function's own.       *)
Inherit(f, owner) == [f EXCEPT !.tags = @ \cup owner.tags, !.marks = @ \o owner.marks]

(* A test whose parameters are wrong ends the module; the items before it  *)
(* stay.                                                                   *)
CollectFunction(st, pushed) == [st EXCEPT !.items = @ \o pushed.items, !.error = pushed.error]

(* The methods of a class: each name from the most derived class that has  *)
(* it, bases first.  bases lists the class and its bases, derived first.   *)
MethodsOf(bases) ==
    LET Hides(i, f) == \E j \in 1..(i - 1) : \E g \in ToSet(bases[j]) : g.name = f.name
    IN  FlattenSeq(Reverse([i \in DOMAIN bases |->
            Where(bases[i], LAMBDA f : ~Hides(i, f))]))

(* What a module does to the collection, step by step: it registers        *)
(* fixtures, has a test function to expand or a plain item, or is wrong.   *)
Register(fixtures) == [kind |-> "fixtures", fixtures |-> fixtures]
Expand(f) == [kind |-> "function", f |-> f]
Add(f) == [kind |-> "item", f |-> f]

(* collect_class: all its fixtures first, then its methods.                *)
CollectClass(c, mod) ==
    LET owner == [tags |-> c.tags \cup mod.tags, marks |-> c.marks \o mod.marks]
        Steps(methods) == [i \in DOMAIN methods |-> Expand(Inherit(methods[i], owner))]
    IN  IF c.badInit THEN <<>> ELSE <<Register(c.fixtures)>> \o Steps(MethodsOf(c.bases))

(* collect_testcase: fixtures, set-up and tear-down as fixtures unless the *)
(* class is skipped, and the methods by name, never parametrized.          *)
CollectTestcase(c, mod) ==
    LET owner == [tags |-> c.tags \cup mod.tags, marks |-> <<>>]
        Method(f) == [Inherit(f, owner) EXCEPT !.testcase = TRUE, !.args = <<>>]
        Steps(fs, order) == [i \in DOMAIN order |-> Add(Method(fs[order[i]]))]
        ByName(fs) == Steps(fs, Sorted(DOMAIN fs, LAMBDA i, j : fs[i].alpha < fs[j].alpha))
    IN  <<Register(c.fixtures \o (IF "skip" \in c.tags THEN <<>> ELSE c.lifecycle))>>
            \o ByName(MethodsOf(c.bases))

(* A member that pytest_pycollect_makeitem claims becomes one item; a test *)
(* function that is a generator is an error.                               *)
CollectMember(e, o, mod) ==
    IF o.noImported /\ e.imported THEN <<>>
    ELSE IF e.claimed THEN <<Add(e.f)>>
    ELSE IF ~e.collected THEN <<>>
    ELSE CASE e.kind = "generator" -> <<[kind |-> "error"]>>
           [] e.kind = "function" -> <<Expand(Inherit(e.f, mod))>>
           [] e.kind = "class"    -> CollectClass(e, mod)
           [] OTHER               -> CollectTestcase(e, mod)

CollectStep(st, s, o) ==
    IF st.error THEN st
    ELSE CASE s.kind = "fixtures" -> [st EXCEPT !.defs = @ \o s.fixtures]
           [] s.kind = "function" -> CollectFunction(st, PushTestItems(st.defs, s.f, o.strictIds))
           [] s.kind = "item"     -> [st EXCEPT !.items = Append(@, PlainItem(s.f))]
           [] OTHER               -> [st EXCEPT !.error = TRUE]

CollectSteps(st, steps, o) == FoldLeft(LAMBDA s, step : CollectStep(s, step, o), st, steps)

(* introspect_namespace: its fixtures, then its members in order.          *)
CollectModule(st, mod, o) ==
    CollectSteps([st EXCEPT !.defs = @ \o mod.fixtures],
                 IF mod.nocollect THEN <<>>
                 ELSE FlattenSeq([i \in DOMAIN mod.members |-> CollectMember(mod.members[i], o, mod)]),
                 o)

(* collect_module: the plugins it names come first.                        *)
CollectPython(p, st, mod, o) ==
    CollectModule([LoadNamed(p, st, mod.plugins) EXCEPT !.error = FALSE], mod, o)

---------------------------------------------------------------------------
(* All files.  st is [items, defs, error, errors, reports, status, other]: *)
(* errors are the files that failed, status is "ok" or how collection was  *)
(* ended, other the arguments no collector has taken yet.                  *)

Doctests(f) == [i \in DOMAIN f.mod.doctests |-> PlainItem(f.mod.doctests[i])]

FailFile(st, f, reports) ==
    [st EXCEPT !.errors = Append(@, FileNode(f)), !.reports = @ \o reports]

(* A module skipped by pytest.skip(allow_module_level=True) reports it; a  *)
(* bare skip or any other exception is an error of the file.               *)
SkipReport(f) == Report(FileNode(f), "setup", "skipped")

FailedImport(st, f, o) ==
    [FailFile(st, f, IF o.doctests /\ o.doctestIgnoreErrors THEN <<SkipReport(f)>> ELSE <<>>)
        EXCEPT !.error = FALSE]

\* the doctests of a module run before its functions
AfterImport(s, n, f, o) ==
    IF s.error THEN FailedImport(s, f, o)
    ELSE IF ~o.doctests THEN s
    ELSE [s EXCEPT !.items = SubSeq(@, 1, n) \o Doctests(f) \o SubSeq(@, n + 1, Len(@))]

ImportFile(p, st, f, o) ==
    CASE f.mod.imports = "interrupt" -> [st EXCEPT !.status = "interrupt"]
      [] f.mod.imports = "exit"      -> [st EXCEPT !.status = "internal"]
      [] f.mod.imports = "skip"      -> [st EXCEPT !.reports = Append(@, SkipReport(f))]
      [] f.mod.imports = "error"     -> FailedImport(st, f, o)
      [] OTHER                       ->
            AfterImport(CollectPython(p, st, f.mod, o), Len(st.items), f, o)

(* collect_files, one file: nothing once --maxfail errors were found; the  *)
(* controller of a distributed run imports nothing.                        *)
CollectFile(p, st, f, o) ==
    IF \/ st.status # "ok" \/ ~DirectoryAllows(p, f)
       \/ o.maxfail # 0 /\ Len(st.errors) >= o.maxfail
    THEN st
    ELSE CASE f.kind = "text"  -> [st EXCEPT !.items = @ \o Doctests(f)]
           [] f.kind = "other" -> [st EXCEPT !.other = Append(@, f)]
           [] f.kind = "py" /\ o.dist -> st
           [] OTHER               -> ImportFile(p, st, f, o)

(* The walks for doctests, text files and custom collectors: a fixed list  *)
(* of names is not entered; --ignore and norecursedirs are not consulted,  *)
(* and the one for text files enters virtual environments.                 *)
Walked(p, a, f, venv) ==
    IF ~IsDir(p, a.path) THEN f.path = a.path
    ELSE /\ Under(f.path, a.path)
         /\ \A d \in DOMAIN p.dirs :
               d # a.path /\ Under(d, a.path) /\ Under(f.path, d)
                 => ~p.dirs[d].usual /\ (venv \/ ~p.dirs[d].venv)

WalkAll(p, args, venv) ==
    Dedup(FlattenSeq([i \in DOMAIN args |-> Where(p.files, LAMBDA f : Walked(p, args[i], f, venv))]))

(* --doctest-modules also takes the doctests of every other Python file.   *)
ExtraDoctests(p, st, f, o) ==
    IF f.mod.imports = "ok" THEN [st EXCEPT !.items = @ \o Doctests(f)]
    ELSE IF o.doctestIgnoreErrors
    THEN [st EXCEPT !.reports = Append(@, SkipReport(f))]
    ELSE FailFile(st, f, <<>>)

(* The items a file has so far.                                            *)
Own(st, f) == {it.id : it \in {x \in ToSet(st.items) : x.mod = f.name}}

Bare(st, f) == IF st.error THEN [FailFile(st, f, <<>>) EXCEPT !.error = FALSE] ELSE st

PlainItems(fs) == [i \in DOMAIN fs |-> PlainItem(fs[i])]

(* collect_custom_files: what pytest_collect_file makes of one file; a     *)
(* skip drops its items, a bare collector leaves it to usual collection.   *)
CustomFile(p, st, f, files, o) ==
    CASE f.custom.result = "none"  -> st
      [] f.custom.result = "skip"  ->
            [st EXCEPT !.items = Where(@, LAMBDA it : it.mod # f.name),
                       !.reports = Append(@, SkipReport(f))]
      [] f.custom.result = "error" -> FailFile(st, f, <<>>)
      [] f.custom.result = "items" ->
            [st EXCEPT !.items = @ \o PlainItems(Where(f.custom.items,
                                                    LAMBDA t : NodeId(t, NoId) \notin Own(st, f)))]
      [] OTHER                     ->
            IF Own(st, f) # {} \/ Contains(files, f) THEN st
            ELSE Bare(CollectPython(p, st, f.mod, o), f)

CustomFiles(p, st, all, files, o) ==
    FoldLeft(LAMBDA s, f : CustomFile(p, s, f, files, o), st, all)

(* With such a hook the items are put in the order of their files and      *)
(* lines.                                                                  *)
PlacedBefore(p, a, b) ==
    \/ Before((CHOOSE f \in ToSet(p.files) : f.name = a.mod).path,
              (CHOOSE f \in ToSet(p.files) : f.name = b.mod).path)
    \/ a.mod = b.mod /\ a.line < b.line

SortByPlace(p, items) ==
    LET At(order) == [i \in DOMAIN items |-> items[order[i]]]
    IN  At(Sorted(DOMAIN items, LAMBDA i, j :
               \/ PlacedBefore(p, items[i], items[j])
               \/ ~PlacedBefore(p, items[j], items[i]) /\ i < j))

AllDoctests(st, files) ==
    [st EXCEPT !.items = @ \o FlattenSeq([i \in DOMAIN files |-> Doctests(files[i])])]

OtherDoctests(p, st, files, o) ==
    IF ~o.doctests THEN st
    ELSE FoldLeft(LAMBDA s, f : ExtraDoctests(p, s, f, o), st,
                  Where(WalkAll(p, ResolveArgs(o), o.venv),
                            LAMBDA f : f.kind = "py" /\ ~Contains(files, f)))

ExtraAndCustom(p, st, files, o) ==
    LET docs == AllDoctests(OtherDoctests(p, st, files, o),
                            Where(WalkAll(p, ResolveArgs(o), TRUE),
                                      LAMBDA f : f.kind = "text" /\ f.test /\ ~Contains(files, f)))
        Placed(s) == [s EXCEPT !.items = SortByPlace(p, @)]
    IN  IF ~p.fileHook THEN docs
        ELSE Placed(CustomFiles(p, docs, WalkAll(p, ResolveArgs(o), o.venv), files, o))

---------------------------------------------------------------------------
(* finalize_items.                                                         *)

Components(it) == IF it.method THEN <<it.cls, it.name>> ELSE <<it.name>>

(* A node ID argument selects the test, its variants or what is below it.  *)
Selects(p, a, it) ==
    /\ IsPrefix(a.sel, Components(it)) /\ it.mod = FileAt(p, a.path).name
    /\ a.part = NoId \/ (a.sel = Components(it) /\ a.part = it.part)

ArgSelects(p, a, it) ==
    IF HasParts(a) THEN Selects(p, a, it)
    ELSE \E f \in ToSet(p.files) : f.name = it.mod /\ Under(f.path, a.path)

ChosenByArgs(p, o, items) ==
    LET args == ResolveArgs(o)
    IN  IF \E a \in ToSet(args) : HasParts(a)
        THEN Where(items, LAMBDA it : \E a \in ToSet(args) : ArgSelects(p, a, it)) ELSE items

NotFound(p, o, items) ==
    Where(ResolveArgs(o), LAMBDA a : HasParts(a) /\ ~\E it \in ToSet(items) : Selects(p, a, it))

Finalized(p, st, o, before, ordered) ==
    [st EXCEPT !.items = ChosenByArgs(p, o, ordered), !.before = before, !.ordered = ordered,
               !.notfound = NotFound(p, o, ChosenByArgs(p, o, ordered))]

InRunOrder(p, st, o, before) == Finalized(p, st, o, before, Reorder(before))

Finalize(p, st, o) == InRunOrder(p, st, o, ExpandFixtureParams(st.defs, st.items))

(* Everything up to the cache's filter: a collection that was ended early  *)
(* has no items, an argument that no collector took is a usage error.      *)
Taken(p, st, o) ==
    IF \E f \in ToSet(st.other) : ~\E it \in ToSet(st.items) : it.mod = f.name
    THEN [st EXCEPT !.status = "usage"]
    ELSE Finalize(p, st, o)

Others(p, st, files, o) ==
    IF st.status # "ok" THEN st ELSE Taken(p, ExtraAndCustom(p, st, files, o), o)

CollectFiles(p, st, files, o) == FoldLeft(LAMBDA s, f : CollectFile(p, s, f, o), st, files)

Begin(p, reports) ==
    [items |-> <<>>, defs |-> p.defs, hooked |-> p.hooked, error |-> FALSE, errors |-> p.errors,
     reports |-> reports, status |-> "ok", other |-> <<>>,
     before |-> <<>>, ordered |-> <<>>, notfound |-> <<>>]

Narrowed(p, o, n) ==
    Others(p, CollectFiles(p, Begin(p, n.reports), n.files, o), n.files, o)

Collect(p, o) ==
    IF \E a \in ToSet(ResolveArgs(o)) : ~Exists(p, a.path)
    THEN [Begin(p, <<>>) EXCEPT !.status = "usage"]
    ELSE Narrowed(p, o, CollectIgnores(p, o, CollectTestFiles(p, o, ResolveArgs(o))))
=============================================================================
