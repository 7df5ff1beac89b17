------------------------------ MODULE Session ------------------------------
(***************************************************************************)
(* One run of pytest-rs after the other over a project that may change     *)
(* between them (engine/lifecycle.rs, engine/session.rs, engine/collect/,  *)
(* engine/reporting.rs, runner/mod.rs): configuration, collection,         *)
(* selection, the items and the end of the run, with the cache that the    *)
(* next run reads.  Distributed runs are the subject of Dist.              *)
(*                                                                         *)
(* A scenario is [projects, runs, behaves]: the project after each edit,   *)
(* the options of each run and the possible behaviours of a test, by name, *)
(* every one the sequence of its attempts.  The options o.may name what    *)
(* may go wrong in a run.                                                  *)
(***************************************************************************)
EXTENDS Outcome, Selection, Conftests

CONSTANTS Scenarios,    \* a function from names to scenarios
          MaxEvents     \* bounds the hooks recorded in a run, for TypeOK

(* What scenarios are made of: lists that are lists, paths that are        *)
(* sequences of numbers, finitely many directories, and numbers that are   *)
(* unsigned in the code.                                                   *)
MemberOK(e) ==
    /\ e.kind \in {"function", "generator", "class", "testcase"}
    /\ e.kind \in {"class", "testcase"} => IsSeq(e.bases) /\ \A b \in ToSet(e.bases) : IsSeq(b)

FileOK(f) ==
    /\ f.path \in Seq(Nat) /\ IsSeq(f.mod.plugins) /\ IsSeq(f.mod.members)
    /\ \A e \in ToSet(f.mod.members) : MemberOK(e)

ProjectOK(p) ==
    /\ {"files", "dirs", "conftests", "modules", "entrypoints", "fileHook"} \subseteq DOMAIN p
    /\ IsSeq(p.files) /\ IsSeq(p.entrypoints) /\ \A f \in ToSet(p.files) : FileOK(f)
    /\ IsFiniteSet(DOMAIN p.dirs) /\ IsFiniteSet(DOMAIN p.conftests)
    /\ DOMAIN p.dirs \cup DOMAIN p.conftests \subseteq Seq(Nat)
    /\ \A d \in DOMAIN p.conftests : IsSeq(p.conftests[d].plugins)

OptionsOK(opts) ==
    /\ IsSeq(opts.args) /\ IsSeq(opts.testpaths) /\ IsSeq(opts.hooks)
    /\ IsSeq(opts.plugins) /\ IsSeq(opts.envPlugins)
    /\ \A a \in ToSet(opts.args) \cup ToSet(opts.testpaths) : a.path \in Seq(Nat)
    /\ \A a \in ToSet(opts.testpaths) : ~HasParts(a)
    /\ {opts.maxfail, opts.splits, opts.group, opts.exitCode} \subseteq Nat

(* An item that a plugin made reports its set-up or its call, then its     *)
(* tear-down.                                                              *)
BehaviourOK(b) ==
    /\ b.kind \in {"test", "custom"} /\ b.marks \in {"none", "skip", "error"}
    /\ b.wrapper \in {"ok", "fail"} /\ b.protocol \in {"native", "rerun", "twice", "usage", "error"}
    /\ IsSeq(b.subs) /\ b.time \in Nat /\ b.code \in Nat /\ b.deadline \in BOOLEAN
    /\ \/ b.custom = <<>>
       \/ \E made, torn \in {"passed", "failed", "skipped", "xfailed", "xpassed"}, phase \in {"setup", "call"} :
             /\ b.custom = <<[phase |-> phase, outcome |-> made], [phase |-> "teardown", outcome |-> torn]>>
             /\ (phase = "setup" => made \in {"failed", "skipped"}) /\ torn \in {"passed", "failed"}
    /\ \A s \in ToSet(b.subs) : s.outcome \in {"passed", "failed", "skipped"}

ScenarioOK(s) ==
    /\ IsSeq(s.projects) /\ s.projects # <<>> /\ \A p \in ToSet(s.projects) : ProjectOK(p)
    /\ IsSeq(s.runs) /\ s.runs # <<>> /\ \A opts \in ToSet(s.runs) : OptionsOK(opts)
    /\ \A n \in DOMAIN s.behaves : \A bs \in s.behaves[n] :
          IsSeq(bs) /\ bs # <<>> /\ \A b \in ToSet(bs) : BehaviourOK(b)

ASSUME ScenariosAssumption == \A n \in DOMAIN Scenarios : ScenarioOK(Scenarios[n])

(* What collection finds is a list of items, each with the node ID of its  *)
(* own file, a place in the order of node IDs and a list of sort keys, of  *)
(* which none is wider than a function in an item that needs nothing so.   *)
ItemOK(it) ==
    /\ it.id.mod = it.mod /\ IsSeq(it.keys) /\ "rank" \in DOMAIN it /\ it.rank \in Nat
    /\ \A k \in ToSet(it.keys) : k[2] # "function" => it.top # "function"
CollectedItemsOK(p, opts) ==
    \A c \in {Collect(Prepare(p, opts), opts)} :
        IsSeq(c.before) /\ \A it \in ToSet(c.before) : ItemOK(it)

ASSUME ItemsAssumption ==
    \A n \in DOMAIN Scenarios :
        \A p \in ToSet(Scenarios[n].projects), opts \in ToSet(Scenarios[n].runs) : CollectedItemsOK(p, opts)

ASSUME MaxEventsAssumption == MaxEvents \in Nat /\ MaxEvents >= 7

OK == 0
TESTS_FAILED == 1
INTERNAL_ERROR == 3
USAGE_ERROR == 4
NO_TESTS_COLLECTED == 5

VARIABLES
    scenario,   \* what the runs are about, one of Scenarios
    version,    \* the project as edited so far
    run,        \* the number of the run
    stage,      \* the step of the run that is next
    cache,      \* what .pytest_cache and the durations file hold
    loaded,     \* what the run read of them, with the node IDs it adds
    col,        \* what collection found
    items,      \* the items to run
    total,      \* the number of items --stepwise chose from
    pos,        \* how many of them were run
    reports,    \* every report of the run
    ctl,        \* [override, stop, fail, stepFailed, code]
    events,     \* the session hooks that were called and the saves, in order
    verdict     \* node ID -> what its last run that reported it says

vars == <<scenario, version, run, stage, cache, loaded, col, items, total, pos, reports, ctl, events,
          verdict>>
chosen == <<items, total, pos>>

Project == scenario.projects[version]
o == scenario.runs[run]

EmptyCache == [lastfailed |-> <<>>, nodeids |-> {}, resume |-> <<>>, durations |-> << >>]
NoItems == [items |-> <<>>, before |-> <<>>, ordered |-> <<>>, errors |-> <<>>, notfound |-> <<>>,
            hooked |-> <<>>]
NoCode == -1
Control == [override |-> NoCode, stop |-> FALSE, fail |-> FALSE, stepFailed |-> 0, code |-> NoCode]

Init ==
    /\ \E s \in DOMAIN Scenarios : scenario = Scenarios[s]
    /\ version = 1 /\ run = 1 /\ stage = "boot"
    /\ cache = EmptyCache /\ loaded = EmptyCache /\ col = NoItems
    /\ items = <<>> /\ total = 0 /\ pos = 0 /\ reports = <<>>
    /\ ctl = Control /\ events = <<>> /\ verdict = << >>

Call(hooks) == events' = events \o hooks

(* The run ends with a code after some last hooks.                         *)
End(code, hooks) ==
    /\ stage' = "ended" /\ ctl' = [ctl EXCEPT !.code = code] /\ Call(hooks)

---------------------------------------------------------------------------
(* Up to collection.                                                       *)

(* What may end a run before any hook, and with which code.                *)
BootCode == [shim |-> INTERNAL_ERROR, filters |-> USAGE_ERROR, logmode |-> USAGE_ERROR,
             color |-> USAGE_ERROR, theme |-> USAGE_ERROR, capture |-> USAGE_ERROR,
             basetemp |-> USAGE_ERROR, junitdir |-> USAGE_ERROR, junit |-> INTERNAL_ERROR,
             generators |-> INTERNAL_ERROR]

Boot ==
    /\ stage = "boot"
    /\ \/ \E step \in o.may \cap DOMAIN BootCode : End(BootCode[step], <<>>)
       \/ stage' = "plugins" /\ UNCHANGED <<ctl, events>>
    /\ UNCHANGED <<scenario, version, run, cache, loaded, col, chosen, reports, verdict>>

(* The bundled plugins configure themselves and start; the cache is read.  *)
PluginCode == [pluginusage |-> USAGE_ERROR, pluginerror |-> INTERNAL_ERROR,
               doctestreport |-> USAGE_ERROR]

ConfigurePlugins ==
    LET read == IF o.cacheClear THEN [EmptyCache EXCEPT !.durations = cache.durations] ELSE cache
    IN  /\ stage = "plugins"
        /\ \/ /\ SplitUsageError(o) /\ End(USAGE_ERROR, <<>>) /\ UNCHANGED <<cache, loaded>>
           \/ /\ ~SplitUsageError(o)
              /\ \E step \in o.may \cap DOMAIN PluginCode : End(PluginCode[step], <<>>)
              /\ UNCHANGED <<cache, loaded>>
           \/ /\ ~SplitUsageError(o)
              /\ loaded' = read /\ cache' = read
              /\ IF o.mode = "cacheshow"
                 THEN End(IF "cacheshow" \in o.may THEN INTERNAL_ERROR ELSE OK, <<>>)
                 ELSE stage' = "configure" /\ UNCHANGED <<ctl, events>>
        /\ UNCHANGED <<scenario, version, run, col, chosen, reports, verdict>>

(* What may end a run while plugins and conftest files are loaded, in      *)
(* pytest_configure and in pytest_sessionstart: the code, and whether      *)
(* pytest_unconfigure is called.                                           *)
LoadEnd == [plugin |-> <<USAGE_ERROR, FALSE>>, initialconftests |-> <<USAGE_ERROR, TRUE>>,
            option |-> <<USAGE_ERROR, FALSE>>]
ConfigureEnd == [configureusage |-> <<USAGE_ERROR, TRUE>>, configureexit |-> <<INTERRUPTED, TRUE>>,
                 configureerror |-> <<INTERNAL_ERROR, FALSE>>]
StartEnd == [startinterrupt |-> <<INTERRUPTED, FALSE>>, startexit |-> <<INTERRUPTED, TRUE>>,
             starterror |-> <<INTERNAL_ERROR, FALSE>>]

Unconfigure(needed) == IF needed THEN <<"unconfigure">> ELSE <<>>

Configure ==
    /\ stage = "configure"
    /\ \/ \E step \in o.may \cap DOMAIN LoadEnd : End(LoadEnd[step][1], Unconfigure(LoadEnd[step][2]))
       \/ Prepare(Project, o).broken /\ End(USAGE_ERROR, <<"unconfigure">>)
       \/ /\ ~Prepare(Project, o).broken
          /\ \/ \E step \in o.may \cap DOMAIN ConfigureEnd :
                   End(ConfigureEnd[step][1], <<"configure">> \o Unconfigure(ConfigureEnd[step][2]))
             \/ o.mode = "help" /\ End(OK, <<"configure", "unconfigure">>)
             \/ o.mode # "help" /\ stage' = "start" /\ Call(<<"configure">>) /\ UNCHANGED ctl
    /\ UNCHANGED <<scenario, version, run, cache, loaded, col, chosen, reports, verdict>>

SessionStart ==
    /\ stage = "start"
    /\ \/ \E step \in o.may \cap DOMAIN StartEnd :
            End(StartEnd[step][1], <<"sessionstart">> \o Unconfigure(StartEnd[step][2]))
       \/ o.mode = "markers" /\ End(OK, <<"sessionstart", "unconfigure">>)
       \/ o.mode # "markers" /\ stage' = "collect" /\ Call(<<"sessionstart">>) /\ UNCHANGED ctl
    /\ UNCHANGED <<scenario, version, run, cache, loaded, col, chosen, reports, verdict>>

---------------------------------------------------------------------------
(* Collection.                                                             *)

(* A claim of pytest_cmdline_main ends the run, as does a collection that  *)
(* was interrupted; with --lf the cache narrows what was collected.        *)
CollectItems ==
    /\ stage = "collect"
    /\ \E c \in {Collect(Prepare(Project, o), o)} :
        LET kept == FilterCollected(o, loaded, Project.files, c.items)
        IN  /\ col' = [items |-> kept, before |-> c.before, ordered |-> c.ordered, errors |-> c.errors,
                       notfound |-> c.notfound, hooked |-> c.hooked]
            /\ \/ c.status = "interrupt" /\ End(INTERRUPTED, <<>>)
               \/ c.status = "internal"  /\ End(INTERNAL_ERROR, <<>>)
               \/ c.status = "usage"     /\ End(USAGE_ERROR, <<"unconfigure">>)
               \/ c.status = "ok" /\ "cmdlinemain" \in o.may /\ End(OK, <<"unconfigure">>)
               \/ c.status = "ok" /\ stage' = "errors" /\ UNCHANGED <<ctl, events>>
            /\ reports' = IF c.status = "ok" THEN c.reports ELSE <<>>
            /\ items' = IF c.status = "ok" THEN kept ELSE <<>>
    /\ UNCHANGED <<scenario, version, run, cache, loaded, total, pos, verdict>>

(* What the cache keeps of a run.                                          *)
Saved(kept, rs) ==
    [loaded EXCEPT !.lastfailed = SaveLastFailed(loaded, rs, kept),
                   !.resume = SaveResume(o, loaded, rs, total)]

MutHandleCollectionErrors ==                \* mutant: the errors do not become reports
    /\ stage = "errors" /\ stage' = "select"
    /\ UNCHANGED <<scenario, version, run, cache, loaded, col, chosen, ctl, events, reports, verdict>>

(* Every error becomes a failed report.  It ends the run, with its cache   *)
(* and pytest_sessionfinish, unless the run is to go on with errors or     *)
(* only to list.  Arguments that found nothing end it in any case.         *)
HandleCollectionErrors ==
    LET n == Len(col.errors)
        failed == reports \o [i \in 1..n |-> Report(col.errors[i], "setup", "failed")]
        aborts == n > 0 /\ ~o.continue /\ o.mode # "collectonly"
        missing == col.notfound # <<>>
        code == IF missing THEN USAGE_ERROR
                ELSE IF o.maxfail # 0 /\ n >= o.maxfail THEN TESTS_FAILED ELSE INTERRUPTED
    IN  /\ stage = "errors"
        /\ reports' = failed
        /\ \/ aborts /\ End(code, <<"save", "sessionfinish">>) /\ cache' = Saved(items, failed)
           \/ ~aborts /\ missing /\ End(USAGE_ERROR, <<>>) /\ UNCHANGED cache
           \/ ~aborts /\ ~missing /\ stage' = "select" /\ UNCHANGED <<ctl, events, cache>>
        /\ UNCHANGED <<scenario, version, run, loaded, col, chosen, verdict>>

---------------------------------------------------------------------------
(* Selection.                                                              *)

(* The items after --deselect, the hooks and -k and -m in turn, or how one *)
(* of them failed.                                                         *)
Failed(code) == [error |-> code, items |-> <<>>, total |-> 0, nodeids |-> {}, removed |-> 0]

Picked(p, dropped) ==
    CASE p.error = "usage" -> Failed(USAGE_ERROR)
      [] p.error = "error" -> Failed(INTERNAL_ERROR)
      [] p.error = "ok" -> [Failed(NoCode) EXCEPT !.items = p.kept, !.removed = dropped + Len(p.removed)]

AfterHooks(h, dropped) ==
    IF h.error THEN Failed(INTERNAL_ERROR) ELSE Picked(ApplySelection(o, h.items), dropped)

AfterDeselect(listed) ==
    AfterHooks(RunHooks(HookOrder(o.hooks), listed), Len(items) - Len(listed))

Filtered ==
    IF UnknownMarker(o, items) THEN Failed(USAGE_ERROR)
    ELSE IF o.unknownHook THEN Failed(INTERNAL_ERROR)
    ELSE AfterDeselect(Where(items, LAMBDA it : ~Deselected(o, it)))

(* What is left goes through pytest-split, the cache and the deferred      *)
(* hooks.                                                                  *)
AfterDeferred(m, last, dropped) ==
    IF last.error THEN Failed(INTERNAL_ERROR)
    ELSE [error |-> NoCode, items |-> last.items, total |-> IF o.sw THEN m.total ELSE total,
          nodeids |-> m.nodeids, removed |-> dropped + Len(m.removed)]

AfterCache(m, dropped) == AfterDeferred(m, RunHooks(Deferred(o.hooks), m.items), dropped)

AfterFilters(f) ==
    IF f.error # NoCode THEN f
    ELSE AfterCache(ModifyItems(o, loaded, Project.mtime, ApplySplit(o, loaded, f.items)), f.removed)

Selected == AfterFilters(Filtered)

Select ==
    /\ stage = "select"
    /\ \E s \in {Selected} :
          \/ s.error # NoCode /\ End(s.error, <<>>) /\ UNCHANGED <<items, total, loaded>>
          \/ /\ s.error = NoCode
             /\ "deselected" \in o.may /\ s.removed > 0 /\ End(INTERNAL_ERROR, <<>>)
             /\ UNCHANGED <<items, total, loaded>>
          \/ /\ s.error = NoCode
             /\ stage' = "selected"
             /\ items' = s.items /\ total' = s.total
             /\ loaded' = [loaded EXCEPT !.nodeids = s.nodeids]
             /\ Call((IF s.removed > 0 THEN <<"deselected">> ELSE <<>>) \o <<"collected">>)
             /\ UNCHANGED ctl
    /\ UNCHANGED <<scenario, version, run, cache, col, pos, reports, verdict>>

(* --fixtures and --collect-only end here; pytest_runtestloop may replace  *)
(* the loop; without items there is nothing to run.                        *)
ListOnly ==
    /\ stage = "selected" /\ o.mode \in {"fixtures", "collectonly"}
    /\ IF o.mode = "fixtures" THEN End(OK, <<"unconfigure">>)
       ELSE End(IF col.errors # <<>> THEN INTERRUPTED
                ELSE IF items = <<>> THEN NO_TESTS_COLLECTED ELSE OK,
                IF o.reporter THEN <<"sessionfinish">> ELSE <<>>)
    /\ UNCHANGED <<scenario, version, run, cache, loaded, col, chosen, reports, verdict>>

BeginLoop ==
    /\ stage = "selected" /\ o.mode = "run"
    /\ stage' = IF items = <<>> THEN "empty" ELSE IF o.loopReplaced THEN "finish" ELSE "run"
    /\ UNCHANGED <<scenario, version, run, cache, loaded, col, chosen, ctl, events, reports, verdict>>

---------------------------------------------------------------------------
(* The items.                                                              *)

Failures(rs) == Cardinality({i \in DOMAIN rs : rs[i].outcome = "failed" /\ ~rs[i].rerun})

(* Under --stepwise, which --maxfail turns off, the first failure ends the *)
(* loop, or the second with --stepwise-skip.                               *)
StepwiseStops(failed) ==
    /\ o.sw /\ o.maxfail = 0 /\ failed
    /\ ~(o.swSkip /\ ctl.stepFailed = 0)

(* The loop ends: no item left, --maxfail reached, a test called           *)
(* pytest.exit or was interrupted, the stop of --stepwise, a plugin's      *)
(* session.shouldfail, a protocol hook that raised.                        *)
LoopOver ==
    \/ pos = Len(items)
    \/ o.maxfail # 0 /\ Failures(reports) >= o.maxfail
    \/ ctl.override # NoCode
    \/ ctl.fail

(* What the reports of a test say in the end, after its last rerun.        *)
OwnReports(node, rs) ==
    {rs[i] : i \in {i \in DOMAIN rs : /\ rs[i].node = node /\ ~rs[i].sub
                                     /\ \A j \in DOMAIN rs : j >= i => ~rs[j].rerun}}

Verdict(node, rs) ==
    LET own == OwnReports(node, rs)
    IN  IF \E r \in own : r.outcome = "failed" THEN "failed"
        ELSE IF \E r \in own : r.outcome \in {"skipped", "xfailed"} THEN "passed"
        ELSE IF \E r \in own : r.phase = "call" /\ r.outcome = "passed" THEN "passed"
        ELSE IF own # {} THEN "unknown" ELSE "unreported"

(* One item: its reports, and what it does to the loop.  A usage error of  *)
(* a protocol hook asks for a stop that the loop does not look at.         *)
AfterItem(it, b, r) ==
    LET failed == Failures(r.reports) > 0
        code == CASE r.abort = "exit" -> b.code [] r.abort = "interrupt" -> INTERRUPTED
                  [] OTHER -> ctl.override
    IN  /\ reports' = reports \o r.reports
        /\ verdict' = [n \in DOMAIN verdict \cup {it.id} |->
                          IF n = it.id THEN Verdict(n, r.reports) ELSE verdict[n]]
        /\ ctl' = [ctl EXCEPT !.override = code,
                              !.stop = @ \/ r.end = "usage" \/ StepwiseStops(failed),
                              !.fail = b.deadline,
                              !.stepFailed = @ + (IF failed THEN 1 ELSE 0)]
        /\ stage' = IF r.end = "error" THEN "internal"
                    ELSE IF StepwiseStops(failed) THEN "finish" ELSE stage

(* The behaviours a scenario gives to the tests of a name.                 *)
Behaviours(name) == UNION {scenario.behaves[n] : n \in DOMAIN scenario.behaves \cap {name}}

RunItem ==
    /\ stage = "run" /\ ~LoopOver
    /\ \E bs \in Behaviours(items[pos + 1].name) :
          \E r \in {RunOne(o, items[pos + 1], bs)} : AfterItem(items[pos + 1], Head(bs), r)
    /\ pos' = pos + 1
    /\ UNCHANGED <<scenario, version, run, cache, loaded, col, items, total, events>>

EndLoop ==
    /\ stage = "run" /\ LoopOver /\ stage' = "finish"
    /\ UNCHANGED <<scenario, version, run, cache, loaded, col, chosen, ctl, events, reports, verdict>>

---------------------------------------------------------------------------
(* The end of the run.                                                     *)

(* A protocol hook raised: no pytest_sessionfinish, and the cache is left. *)
InternalError ==
    /\ stage = "internal" /\ End(INTERNAL_ERROR, <<"unconfigure">>)
    /\ UNCHANGED <<scenario, version, run, cache, loaded, col, chosen, reports, verdict>>

(* How pytest_sessionfinish may end: normally, with pytest.exit (its code, *)
(* if it has one), with Ctrl-C or with an error, which is only printed.    *)
FinishEnds == {"finished"} \cup (o.may \cap {"finishexit", "finishexitcode", "finishinterrupt", "finisherror"})
Exited(end) == end \in {"finishexit", "finishexitcode"}

HandleNoTests ==
    /\ stage = "empty"
    /\ \E end \in FinishEnds :
          End(IF end = "finishexitcode" THEN o.exitCode ELSE NO_TESTS_COLLECTED,
              <<"sessionfinish", "save">>)
    /\ cache' = Saved(items, reports)
    /\ UNCHANGED <<scenario, version, run, loaded, col, chosen, reports, verdict>>

MutFinishSession ==                         \* mutant: an exit in the hook skips the cache
    /\ stage = "finish"
    /\ \E end \in FinishEnds :
          /\ End(IF Failures(reports) > 0 THEN TESTS_FAILED ELSE OK, <<"sessionfinish", "unconfigure">>)
          /\ cache' = IF Exited(end) THEN cache ELSE Saved(items, reports)
    /\ UNCHANGED <<scenario, version, run, loaded, col, chosen, reports, verdict>>

(* finish_session: any failed report, reruns included, makes the code 1;   *)
(* the hooks, an exit or interrupt of a test and a stop that was asked for *)
(* may change it, and so may what surfaces when everything is over.        *)
FinishSession ==
    LET failed == \E r \in ToSet(reports) : r.outcome = "failed"
        judged == IF failed THEN TESTS_FAILED ELSE OK
    IN  /\ stage = "finish"
        /\ \E end \in FinishEnds, late \in {"nothing"} \cup (o.may \cap {"unraisable", "thread"}) :
              LET hooked == CASE end = "finishexitcode" -> o.exitCode
                              [] end = "finishinterrupt" -> INTERRUPTED [] OTHER -> judged
                  forced == IF ctl.override # NoCode THEN ctl.override ELSE hooked
                  stopped == IF ctl.override = NoCode /\ ctl.stop THEN INTERRUPTED ELSE forced
                  done == CASE late = "thread" -> INTERNAL_ERROR
                            [] late = "unraisable" /\ stopped = OK -> TESTS_FAILED
                            [] OTHER -> stopped
              IN  IF Exited(end) THEN End(hooked, <<"sessionfinish", "save">>)
                  ELSE IF o.noTerminal THEN End(forced, <<"sessionfinish", "save">>)
                  ELSE End(done, <<"sessionfinish", "save", "unconfigure">>)
        /\ cache' = [Saved(items, reports) EXCEPT !.durations = SaveDurations(o, loaded, reports)]
        /\ UNCHANGED <<scenario, version, run, loaded, col, chosen, reports, verdict>>

MutNextRun ==                               \* mutant: the count of the run before is kept
    /\ stage = "ended" /\ run < Len(scenario.runs)
    /\ run' = run + 1 /\ stage' = "boot"
    /\ version' \in version..Len(scenario.projects)
    /\ loaded' = EmptyCache /\ col' = NoItems /\ items' = <<>> /\ total' = 0
    /\ reports' = <<>> /\ ctl' = Control /\ events' = <<>>
    /\ UNCHANGED <<scenario, cache, pos, verdict>>

(* Between the runs of a scenario the project may be edited.               *)
NextRun ==
    /\ stage = "ended" /\ run < Len(scenario.runs)
    /\ run' = run + 1 /\ stage' = "boot"
    /\ version' \in version..Len(scenario.projects)
    /\ loaded' = EmptyCache /\ col' = NoItems /\ items' = <<>> /\ total' = 0 /\ pos' = 0
    /\ reports' = <<>> /\ ctl' = Control /\ events' = <<>>
    /\ UNCHANGED <<scenario, cache, verdict>>

Over == /\ stage = "ended" /\ run = Len(scenario.runs)
        /\ UNCHANGED vars

Next == \/ Boot \/ ConfigurePlugins \/ Configure \/ SessionStart \/ CollectItems
        \/ HandleCollectionErrors \/ Select \/ ListOnly \/ BeginLoop \/ RunItem \/ EndLoop
        \/ InternalError \/ HandleNoTests \/ FinishSession \/ NextRun \/ Over

Spec == Init /\ [][Next]_vars
---------------------------------------------------------------------------
(* Properties.                                                             *)

Ended == stage = "ended"
Happened(hook) == Contains(events, hook)
Count(hook) == Cardinality({i \in DOMAIN events : events[i] = hook})
Ran == {items[i].id : i \in 1..pos}
Ids(its) == [i \in DOMAIN its |-> its[i].id]

(* The state of the runs: types, and what the counters may reach.          *)
TypeOK ==
    /\ run \in DOMAIN scenario.runs /\ version \in DOMAIN scenario.projects
    /\ stage \in {"boot", "plugins", "configure", "start", "collect", "errors", "select", "selected",
                  "run", "empty", "finish", "internal", "ended"}
    /\ pos \in 0..Len(items) /\ total \in Nat /\ Len(events) <= MaxEvents
    /\ \A r \in ToSet(reports) :
          /\ r.outcome \in {"passed", "failed", "skipped", "xfailed", "xpassed"}
          /\ r.phase \in {"setup", "call", "teardown"} /\ r.time \in Nat
    /\ Cardinality(ToSet(cache.lastfailed)) = Len(cache.lastfailed) /\ Len(cache.resume) <= 1
    /\ (Ended => ctl.code \in Nat)

(* A run that ends with exit code 0 hides nothing: there was no collection *)
(* error, every selected test was run, none of them failed, and each was   *)
(* reported, unless the run ended before pytest_unconfigure (no terminal   *)
(* reporter, pytest.exit in pytest_sessionfinish): then nobody looks at    *)
(* the stop that a protocol hook's usage error asked for.  Runs whose code *)
(* a hook or a test chose itself are left out, as is a session deadline,   *)
(* after which the code is not looked at again.                            *)
ExitCodeHonest ==
    /\ Ended /\ ctl.code = OK /\ Happened("sessionfinish") /\ o.mode = "run"
    /\ ctl.override = NoCode /\ ~o.loopReplaced /\ o.exitCode # OK /\ ~ctl.fail
    => /\ col.errors = <<>> /\ pos = Len(items)
       /\ \A it \in ToSet(items) : verdict[it.id] # "failed"
       /\ Happened("unconfigure") => \A it \in ToSet(items) : verdict[it.id] # "unreported"

(* What --lf reads next time is the truth about the last run of a test:    *)
(* the tests of this run that failed in any phase, after all reruns, are   *)
(* remembered and those that passed or were skipped are not; of tests that *)
(* did not run nothing changes.  A failure that a later phase excuses, as  *)
(* expected, is not remembered.                                            *)
LastFailedTrue ==
    LET Excused(n) == \E i, j \in DOMAIN reports :
                          /\ i < j /\ reports[i].node = n /\ reports[j].node = n
                          /\ reports[i].outcome = "failed" /\ reports[j].outcome = "xfailed"
    IN  Ended /\ Happened("save") =>
            \A n \in DOMAIN verdict \cup ToSet(loaded.lastfailed) :
                LET remembered == Contains(cache.lastfailed, n)
                IN  /\ n \in Ran /\ verdict[n] = "failed" => remembered \/ Excused(n)
                    /\ n \in Ran /\ verdict[n] = "passed" => ~remembered
                    /\ n \notin Ran /\ n.name # "" => (remembered <=> Contains(loaded.lastfailed, n))

(* Without another selection, --lf runs exactly the remembered failures    *)
(* that still exist, in their order; when none of them exists any more, it *)
(* runs everything (or nothing, when nothing was remembered and            *)
(* --last-failed-no-failures=none).                                        *)
LfExact ==
    LET alone == /\ o.lf /\ ~o.sw /\ ~o.nf /\ o.deselect = {} /\ o.splits = 0 /\ o.hooks = <<>>
                 /\ o.keyword.kind = "none" /\ o.markexpr.kind = "none" /\ o.args = <<>>
        still == Where(col.ordered, LAMBDA it : Contains(loaded.lastfailed, it.id))
    IN  stage = "selected" /\ alone =>
            Ids(items) = IF still # <<>> THEN Ids(still)
                         ELSE IF loaded.lastfailed = <<>> /\ o.lfnf = "none" THEN <<>>
                         ELSE Ids(col.ordered)

(* --stepwise skips no test as "already passed" that never ran or failed   *)
(* when it last ran, whatever stopped or interrupted the runs before, as   *)
(* long as the runs choose the same tests in the same order and no         *)
(* protocol hook raises: that leaves a test unreported, or the cache as it *)
(* was before a --stepwise-reset.                                          *)
StepwiseSkipsOnlyPassed ==
    LET Alike(r) == [r EXCEPT !.maxfail = o.maxfail, !.swSkip = o.swSkip, !.swReset = o.swReset] = o
        unselected == /\ ~o.lf /\ ~o.ff /\ ~o.nf /\ o.deselect = {} /\ o.splits = 0 /\ o.hooks = <<>>
                      /\ o.keyword.kind = "none" /\ o.markexpr.kind = "none"
        raises == \E n \in DOMAIN scenario.behaves : \E bs \in scenario.behaves[n] :
                      \E b \in ToSet(bs) : b.protocol \in {"usage", "error"}
    IN  stage = "selected" /\ o.sw /\ version = 1 /\ unselected /\ ~raises
        /\ (\A r \in 1..run : Alike(scenario.runs[r]))
        => \A it \in ToSet(col.items) :
              \/ Contains(Ids(items), it.id)
              \/ it.id \in DOMAIN verdict /\ verdict[it.id] \notin {"failed", "unreported"}

(* Reordering by scoped parameters loses and repeats no item.              *)
ReorderKeeps ==
    LET n == Len(col.ordered)
    IN  /\ n = Len(col.before)
        /\ \A it \in ToSet(col.before) :
              Cardinality({i \in 1..n : col.before[i] = it}) = Cardinality({i \in 1..n : col.ordered[i] = it})

(* When every item has at most one wide parameter, the items that share a  *)
(* value of the widest scope in use are run one after the other, so that   *)
(* it is set up once.  (A slice of a wider scope may part those of a       *)
(* narrower one.)                                                          *)
ReorderGroups ==
    LET Keys(it, s) == ToSet(ArgKeys(it, s))
        Wide(it) == UNION {{s} \X Keys(it, s) : s \in HighScopes}
        all == ToSet(col.ordered)
        Widest(s) == \A t \in HighScopes : Wider(t, s) => \A it \in all : Keys(it, t) = {}
    IN  (\A it \in all : Cardinality(Wide(it)) <= 1)
        => \A s \in HighScopes : Widest(s) =>
             \A i, j \in DOMAIN col.ordered : i < j =>
               \A key \in Keys(col.ordered[i], s) \cap Keys(col.ordered[j], s) :
                  \A k \in i..j : key \in Keys(col.ordered[k], s)

(* What reordering promises, together.                                     *)
ReorderOK == ReorderKeeps /\ ReorderGroups

(* The groups of pytest-split, over the runs that each take one of them,   *)
(* run every selected test exactly once; with the default algorithm they   *)
(* are the list cut into pieces.                                           *)
SplitPartition ==
    LET Group(its, g) == Ids(SplitGroup(o, loaded, its, g))
        Covers(all, tests) ==
            /\ Len(all) = Len(tests)
            /\ \A n \in ToSet(tests) :
                  Cardinality({i \in DOMAIN all : all[i] = n}) = Cardinality({i \in DOMAIN tests : tests[i] = n})
            /\ ~o.leastDuration => all = tests
    IN  stage = "select" /\ o.splits # 0 =>
            \A f \in {Filtered} :
                f.error = NoCode => Covers(FlattenSeq([g \in 1..o.splits |-> Group(f.items, g)]), Ids(f.items))

(* The items of a function under one parametrize mark have IDs of their    *)
(* own: values written alike are numbered, and no number makes an ID the   *)
(* mark has already.  (The IDs of two marks, or of parametrized fixtures,  *)
(* are joined without a second look, and may coincide.)                    *)
MarkIdsUnique ==
    LET Marks(it) == IF "marks" \in DOMAIN it THEN AllMarks(it) ELSE <<>>
        Single(it) == /\ Len(Marks(it)) = 1
                      /\ DOMAIN it.par \cup DOMAIN it.direct = ToSet(Marks(it)[1].names)
    IN  ~o.keepdup => \A i, j \in DOMAIN col.before :
            i # j /\ Single(col.before[i]) => col.before[i].id # col.before[j].id

(* No plugin's hooks are registered twice under one name, so that they     *)
(* would be called twice, whatever names it: -p, an entry point, the       *)
(* environment, conftest files or test files.                              *)
PluginsOnce == IsInjective(col.hooked)

(* The session hooks around the tests: a session that ran tests and was    *)
(* not ended by an internal error finishes once and keeps its cache, never *)
(* before it started, and pytest_unconfigure is the last hook.             *)
CleanEnd ==
    /\ \A hook \in ToSet(events) : Count(hook) = 1
    /\ Happened("sessionfinish") => Happened("sessionstart")
    /\ Happened("unconfigure") => Last(events) = "unconfigure" /\ Ended
    /\ Ended /\ pos > 0 =>
          \/ Happened("sessionfinish") /\ Happened("save")
          \/ ctl.code = INTERNAL_ERROR
=============================================================================
