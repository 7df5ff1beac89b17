------------------------------ MODULE Plugins -------------------------------
(***************************************************************************)
(* Loading plugins by name (engine/collect/plugins.rs, python/             *)
(* bootstrap.rs): -p NAME, the installed pytest11 entry points, the        *)
(* variable PYTEST_PLUGINS, and pytest_plugins in conftest and test files. *)
(*                                                                         *)
(* A project p has modules, name -> [imports, hooks, fixtures], what a     *)
(* name yields that can be loaded as a plugin (a module of that name, else *)
(* _pytest.NAME), and entrypoints, a sequence of [name, module].  As in    *)
(* the code a plugin is told by the name it is loaded by: a module with    *)
(* two names, pytester and _pytest.pytester, is two plugins.               *)
(*                                                                         *)
(* The options are plugins, blocked (-p no:NAME), autoload and             *)
(* envPlugins.  st has the fixtures registered so far (defs), the modules  *)
(* whose hooks were registered (hooked) and, while the command line is     *)
(* processed, the modules entry points gave (tracked).                     *)
(***************************************************************************)
EXTENDS Lists

Importable(p, n) == n \in DOMAIN p.modules /\ p.modules[n].imports

(* register_fixtures_from and scan_py_hooks.                               *)
Scan(p, st, n) ==
    [st EXCEPT !.defs = @ \o p.modules[n].fixtures,
               !.hooked = IF p.modules[n].hooks THEN Append(@, n) ELSE @]

MutImport(p, st, n) ==                      \* mutant: hooks are registered again
    IF Importable(p, n) THEN Scan(p, st, n) ELSE st

(* By the name of a module: one that cannot be imported is passed over,    *)
(* one whose hooks are there is not scanned again; one without hooks is.   *)
Import(p, st, n) ==
    IF Importable(p, n) /\ ~Contains(st.hooked, n) THEN Scan(p, st, n) ELSE st

Already(st, n) == Contains(st.hooked, n) \/ Contains(st.tracked, n)

LoadEntry(p, st, n) ==
    IF Importable(p, n) /\ ~Already(st, n)
    THEN [Scan(p, st, n) EXCEPT !.tracked = Append(@, n)] ELSE st

(* -p NAME: the first entry point of that name, else the module.           *)
LoadArgument(p, o, st, n) ==
    LET named == Where(p.entrypoints, LAMBDA e : e.name = n)
        entry == named # <<>> /\ (Already(st, Head(named).module) \/ Importable(p, Head(named).module))
    IN  CASE n \in o.blocked -> st
          [] n \notin o.blocked /\ entry  -> LoadEntry(p, st, Head(named).module)
          [] OTHER -> Import(p, st, n)

(* PYTEST_PLUGINS and pytest_plugins: modules only, blocked or not.        *)
LoadNamed(p, st, names) == FoldLeft(LAMBDA s, n : Import(p, s, n), st, names)

LoadEntrypoints(p, o, st) ==
    IF ~o.autoload THEN st
    ELSE FoldLeft(LAMBDA s, e : LoadEntry(p, s, e.module), st,
                  Where(p.entrypoints, LAMBDA e : {e.name, e.module} \cap o.blocked = {}))

LoadCmdline(p, o) ==
    LoadNamed(p, LoadEntrypoints(p, o,
                   FoldLeft(LAMBDA s, n : LoadArgument(p, o, s, n),
                            [defs |-> <<>>, hooked |-> <<>>, tracked |-> <<>>], o.plugins)),
              o.envPlugins)
=============================================================================
