----------------------------- MODULE Conftests ------------------------------
(***************************************************************************)
(* What is loaded before collection (engine/collect/pipeline.rs,           *)
(* plugins.rs, engine/mod.rs): the plugins of the command line, then the   *)
(* conftest files of the directories collection starts in and passes       *)
(* through.                                                                *)
(*                                                                         *)
(* A project p has conftests, path of a directory -> [name, imports,       *)
(* fixtures, ignores, plugins, declares]: its conftest file imports or     *)
(* fails, ignores is its collect_ignore, plugins its pytest_plugins, and   *)
(* declares whether that word occurs in its text.  No directory of p is    *)
(* hidden.  The options are noconftest, confcutdir (<<>> or <<path>>) and  *)
(* mode.                                                                   *)
(***************************************************************************)
EXTENDS Collection

(* The directories of the arguments, of test* right below them and of the  *)
(* test files that were found.                                             *)
GivenDirs(p, o) ==
    LET given == ResolveArgs(o)
        DirOf(path) == IF IsDir(p, path) THEN path ELSE Front(path)
    IN  [i \in DOMAIN given |-> DirOf(given[i].path)]

TestDirs(p, dirs) ==
    LET Below(dir) == {d \in DOMAIN p.dirs : Len(d) = Len(dir) + 1 /\ Under(d, dir) /\ p.dirs[d].testnamed}
    IN  FlattenSeq([i \in DOMAIN dirs |-> Sorted(Below(dirs[i]), Before)])

WithParents(dirs, files) ==
    LET inside == Where(files, LAMBDA f : \E d \in ToSet(dirs) : Under(f.path, d))
    IN  dirs \o [i \in DOMAIN inside |-> Front(inside[i].path)]

StartDirs(p, o) ==
    IF o.noconftest THEN GivenDirs(p, o)
    ELSE WithParents(GivenDirs(p, o) \o TestDirs(p, GivenDirs(p, o)),
                     CollectTestFiles(p, o, Found(p, o, ResolveArgs(o))))

(* discover_conftests: from the root down to each directory, none above    *)
(* --confcutdir.                                                           *)
Chain(p, o, dir) ==
    LET InCut(d) == \A cut \in ToSet(o.confcutdir) : d = cut \/ ~Under(cut, d)
    IN  Where([k \in 1..(Len(dir) + 1) |-> SubSeq(dir, 1, k - 1)],
                  LAMBDA d : d \in DOMAIN p.conftests /\ InCut(d))

DiscoverConftests(p, o) ==
    IF o.noconftest THEN <<>>
    ELSE Dedup(FlattenSeq([i \in DOMAIN StartDirs(p, o) |-> Chain(p, o, StartDirs(p, o)[i])]))

(* One conftest file: skipped below a directory that pytest_ignore_collect *)
(* rejects; one that fails ends the run, except for --help.                *)
Conftest(p, st, c) ==
    [LoadNamed(p, st, c.plugins) EXCEPT !.defs = @ \o c.fixtures, !.conftestIgnores = @ \cup c.ignores]

LoadConftest(p, o, st, d) ==
    IF st.broken \/ IgnoredBelow(p, [path |-> d]) THEN st
    ELSE IF p.conftests[d].imports THEN Conftest(p, st, p.conftests[d])
    ELSE [st EXCEPT !.broken = o.mode # "help"]

(* scan_nontoplevel_pytest_plugins: below every start directory in turn;   *)
(* with arguments the conftest files that were loaded are exempt.          *)
NestedPlugins(p, o, found) ==
    LET exempt == IF GivenArgs(o) = <<>> THEN {} ELSE ToSet(found)
        Nested(dir) == {d \in DOMAIN p.conftests \ ({<<>>} \cup exempt) :
                            Under(d, dir) /\ p.conftests[d].declares}
        At(ds) == [i \in DOMAIN ds |-> FileNode(p.conftests[ds[i]])]
    IN  FlattenSeq([i \in DOMAIN StartDirs(p, o) |-> At(Sorted(Nested(StartDirs(p, o)[i]), Before))])

Prepared(p, o, st, found) ==
    FoldLeft(LAMBDA s, d : LoadConftest(p, o, s, d),
             [defs |-> st.defs \o p.defs, hooked |-> st.hooked, conftestIgnores |-> {},
              broken |-> FALSE, errors |-> NestedPlugins(p, o, found)],
             found)

(* The project as its plugins and conftest files leave it to collection.   *)
Prepare(p, o) == Merge(Prepared(p, o, LoadCmdline(p, o), DiscoverConftests(p, o)), p)
=============================================================================
