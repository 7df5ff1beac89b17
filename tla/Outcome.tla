------------------------------ MODULE Outcome ------------------------------
(***************************************************************************)
(* What one item reports when it is run: the marks that decide before      *)
(* set-up (runner/item/setup.rs, marks.rs), the phases of a test           *)
(* (item/body.rs, teardown.rs) and the plugins that replace or repeat the  *)
(* protocol (item/mod.rs, protocol.rs).                                    *)
(*                                                                         *)
(* The behaviour b of an item in one attempt is a record                   *)
(*   kind      "test", or "custom" for an item a plugin made: it reports   *)
(*             the [phase, outcome] in custom, or raises when that is empty*)
(*   marks     "none", "skip" or "error": what the skip and xfail marks    *)
(*             come to                                                     *)
(*   xfail     empty or one [run, strict, raises]: the xfail mark, raises  *)
(*             the exceptions it expects; addedInSetup and addedInCall     *)
(*             those a fixture or the test adds                            *)
(*   context   whether its context and warning filters can be entered      *)
(*   setup, call, teardown   how the phase ends: "ok", "fail" or "other"   *)
(*             for two kinds of exceptions, "skip", "xfail", and for a     *)
(*             call "exit" and "interrupt", or "async" when nothing runs it*)
(*   leaks     the phases in which an exception nobody caught surfaces     *)
(*   subs      its subtests [outcome, unittest]                            *)
(*   protocol  "native", "rerun", "twice", "usage" or "error", and wrapper *)
(*             "ok" or "fail": the pytest_runtest_protocol hooks           *)
(*   code      the code of its pytest.exit, time how long its call takes   *)
(*   deadline  whether the deadline of pytest-timeout's session has passed *)
(*             when it is over                                             *)
(***************************************************************************)
EXTENDS Collection

INTERRUPTED == 2

(* What exceptions of a phase become.                                      *)
FromErr(node, phase, err) ==
    Report(node, phase, CASE err = "skip"  -> "skipped" [] err = "xfail" -> "xfailed"
                          [] OTHER -> "failed")

RaisesOk(xfail, err) == xfail = <<>> \/ err \in xfail[1].raises

(* The prelude: custom items, marks, a context that cannot be entered; the *)
(* reports when it decides, else nothing.                                  *)
RunCustomItem(it, b) ==
    IF b.custom = <<>> THEN <<FromErr(it.id, "setup", "fail")>>
    ELSE [i \in DOMAIN b.custom |-> Report(it.id, b.custom[i].phase, b.custom[i].outcome)]

Prelude(o, it, b) ==
    LET notrun == b.xfail # <<>> /\ ~o.runxfail /\ ~b.xfail[1].run
        First(outcome) == <<Report(it.id, "setup", outcome)>>
    IN  CASE b.kind = "custom"   -> RunCustomItem(it, b)
          [] b.kind = "test" /\ (b.marks = "skip" \/ "skip" \in it.tags) -> First("skipped")
          [] b.kind = "test" /\ b.marks = "error" /\ "skip" \notin it.tags -> First("failed")
          [] b.kind = "test" /\ b.marks = "none" /\ "skip" \notin it.tags ->
                IF notrun THEN First("xfailed") ELSE IF b.context THEN <<>> ELSE First("failed")

(* Set-up: its report, and whether the call follows.                       *)
Setup(o, it, b) ==
    LET expected == b.xfail # <<>> /\ ~o.runxfail
        err == IF it.unsupported THEN "fail" ELSE b.setup
        failure == FromErr(it.id, "setup", err)
        excused == expected /\ failure.outcome = "failed" /\ RaisesOk(b.xfail, err)
    IN  IF err = "ok"
        THEN Report(it.id, "setup", IF "setup" \in b.leaks THEN "failed" ELSE "passed")
        ELSE IF excused THEN [failure EXCEPT !.outcome = "xfailed"] ELSE failure

SubReports(it, b) ==
    [i \in DOMAIN b.subs |-> [Report(it.id, "call", b.subs[i].outcome) EXCEPT !.sub = TRUE]]

(* An expected failure, an unexpected pass.                                *)
Invert(xfail, err, outcome) ==
    CASE outcome = "failed" /\ RaisesOk(xfail, err) -> "xfailed"
      [] outcome = "passed" -> IF xfail[1].strict THEN "failed" ELSE "xpassed"
      [] OTHER -> outcome

(* The test's own report.  Subtests that failed fail it, except unittest's;*)
(* what nobody caught is looked at when it passed.                         *)
CallReport(o, it, b, marked) ==
    LET xfail == IF marked = <<>> THEN b.addedInCall ELSE marked
        raised == [FromErr(it.id, "call", b.call) EXCEPT !.time = b.time]
        plain == CASE b.call = "ok" -> "passed" [] b.call = "async" -> "failed" [] OTHER -> raised.outcome
        err == IF b.call = "async" THEN "fail" ELSE b.call
        judged == IF xfail = <<>> \/ o.runxfail THEN plain
                  ELSE IF b.call = "async" THEN Invert([xfail EXCEPT ![1].raises = {"fail"}], err, plain)
                  ELSE Invert(xfail, err, plain)
        broken == \/ "call" \in b.leaks
                  \/ \E s \in ToSet(b.subs) : s.outcome = "failed" /\ ~s.unittest
    IN  [raised EXCEPT !.outcome = IF judged = "passed" /\ broken THEN "failed" ELSE judged]

(* run_item_body: the reports up to tear-down, the xfail flag for it, and  *)
(* whether the test ended the session (no report of the call then).        *)
RunItemBody(o, it, b) ==
    LET setup == Setup(o, it, b)
        before == b.xfail # <<>> /\ ~o.runxfail
        marked == IF b.xfail = <<>> THEN b.addedInSetup ELSE b.xfail
        after == ~o.runxfail /\ (marked # <<>> \/ b.addedInCall # <<>>)
        notrun == marked # b.xfail /\ ~o.runxfail /\ ~marked[1].run
        End(reports, xfail, abort) == [reports |-> <<setup>> \o reports, xfail |-> xfail, abort |-> abort]
    IN  IF setup.outcome # "passed" \/ o.setupOnly THEN End(<<>>, before, "")
        ELSE IF notrun THEN End(<<Report(it.id, "call", "xfailed")>>, TRUE, "")
        ELSE IF b.call \in {"exit", "interrupt"} THEN End(SubReports(it, b), before, b.call)
        ELSE End(Append(SubReports(it, b), CallReport(o, it, b, marked)), after, "")

(* teardown_one: any failure of any finalizer or hook, once.               *)
TeardownOne(it, b, xfail) ==
    Report(it.id, "teardown",
           IF b.teardown = "ok" /\ "teardown" \notin b.leaks THEN "passed"
           ELSE IF xfail THEN "xfailed" ELSE "failed")

(* run_one_body: one attempt.                                              *)
RunOneBody(o, it, b) ==
    LET decided == Prelude(o, it, b)
        Finish(body) ==
            [reports |-> Append(body.reports, TeardownOne(it, b, body.xfail)), abort |-> body.abort]
    IN  IF decided # <<>> THEN [reports |-> decided, abort |-> ""]
        ELSE Finish(RunItemBody(o, it, b))

---------------------------------------------------------------------------
(* Protocols.  bs is the behaviour of every attempt, the last one final.   *)

(* pytest-rerunfailures: an attempt that failed, and is not the last, logs *)
(* its reports up to the failure, which becomes a rerun report.            *)
FailedAt(reports) == {i \in DOMAIN reports : reports[i].outcome = "failed"}

Attempt(reports, last) ==
    LET bad == FailedAt(reports)
    IN  IF last \/ bad = {} THEN reports
        ELSE [SubSeq(reports, 1, Min(bad)) EXCEPT ![Min(bad)].rerun = TRUE]

(* The attempts up to the first that did not fail, or the last.            *)
Attempts(o, it, bs) == [k \in DOMAIN bs |-> RunOneBody(o, it, bs[k])]
Final(attempts) ==
    Min({k \in DOMAIN attempts : k = Len(attempts) \/ FailedAt(attempts[k].reports) = {}})

Logged(attempts) ==
    LET tried == SubSeq(attempts, 1, Final(attempts))
        aborted == {k \in DOMAIN tried : tried[k].abort # ""}
    IN  [reports |-> FlattenSeq([k \in DOMAIN tried |->
                                    Attempt(tried[k].reports, k = Len(attempts))]),
         abort |-> IF aborted = {} THEN "" ELSE tried[Min(aborted)].abort]

Rerun(o, it, bs) == Logged(Attempts(o, it, bs))

(* run_one: end is "usage" when a hook raised UsageError, "error" when it  *)
(* raised anything else: the item has no report then.  A hook that ran the *)
(* protocol itself but did not claim the item has it run twice.            *)
As(r, end) == [reports |-> r.reports, abort |-> r.abort, end |-> end]
Only(reports) == [reports |-> reports, abort |-> ""]
Twice(r) == [r EXCEPT !.reports = @ \o @]

RunOne(o, it, bs) ==
    LET b == Head(bs)
    IN  CASE b.wrapper = "fail" -> As(Only(<<FromErr(it.id, "setup", "fail")>>), "ok")
          [] b.wrapper = "ok" /\ b.protocol = "native" -> As(RunOneBody(o, it, b), "ok")
          [] b.wrapper = "ok" /\ b.protocol = "rerun"  -> As(Rerun(o, it, bs), "ok")
          [] b.wrapper = "ok" /\ b.protocol = "twice"  -> As(Twice(RunOneBody(o, it, b)), "ok")
          [] b.wrapper = "ok" /\ b.protocol = "usage"  -> As(Only(<<>>), "usage")
          [] b.wrapper = "ok" /\ b.protocol = "error"  -> As(Only(<<>>), "error")
=============================================================================
