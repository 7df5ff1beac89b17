-------------------------------- MODULE Dist --------------------------------
(***************************************************************************)
(* The distributed run of `-n N` (dist.rs, worker.rs, ipc.rs): one owner   *)
(* thread per worker slot, one worker process per slot with a pipe each    *)
(* way, the shared work queue (WorkQueue) and the merge loop that receives *)
(* what the owners send over one channel and computes the exit code.       *)
(*                                                                         *)
(* A frame and an event keep their kind and what the control flow reads    *)
(* of them.  Output, Extra, Warnings and Workeroutput frames are forwarded *)
(* without any effect on control and are left out, and so are the setup    *)
(* reports that pass.                                                      *)
(***************************************************************************)
EXTENDS WorkQueue, DistBatches, Bags, FiniteSets

CONSTANTS
    CollectChoices,  \* what a worker may collect (normally one sequence)
    Mode, File, Group, Reorder,   \* --dist and what it groups by
    MaxFail,         \* --maxfail, 0 for no limit
    Outcomes,        \* of a test body: subset of {"pass", "fail", "exit"}
    TeardownFails,   \* whether a teardown may fail: subset of BOOLEAN
    ScopeFails,      \* how many scope teardowns may fail between two items
    ReturnCode,      \* the returncode of pytest.exit()
    Forked,          \* the slots whose first worker was forked
    SpawnFails,      \* whether Command::spawn may fail
    MaxCrash,        \* bound: how many worker processes may die
    None             \* no exit code

ASSUME DistAssumption ==
    /\ CollectChoices \subseteq Seq(Test)
    /\ MaxFail \in Nat /\ MaxCrash \in Nat /\ ReturnCode \in Int
    /\ Outcomes \subseteq {"pass", "fail", "exit"}
    /\ TeardownFails \subseteq BOOLEAN /\ ScopeFails \subseteq Nat
    /\ Forked \subseteq Worker /\ SpawnFails \in BOOLEAN
    /\ None \notin Int

\* A collection names a test once, and --dist each is not given: it would push
\* several batches with the same test (see BatchPlan).
ASSUME PlanAssumption ==
    /\ \A ids \in CollectChoices : \A i, j \in DOMAIN ids : ids[i] = ids[j] => i = j
    /\ Mode # "each"

\* report::exit_code
OK == 0
TESTS_FAILED == 1
INTERRUPTED == 2
NO_TESTS_COLLECTED == 5

VARIABLES
    pc,        \* where each owner thread is
    held,      \* `remaining` of each owner
    verdict,   \* what the owner's last handle_crash found
    proc,      \* the worker process of each slot
    inp, out,  \* its stdin and stdout
    crashes,   \* how many processes have died
    events,    \* the channel to the merge loop
    merge,     \* the merge loop's local state
    reports,   \* the reports it has accumulated, as a bag
    exit       \* the exit code, None until the run is over

ownerVars == <<pc, held, verdict>>
procVars == <<proc, crashes>>
mergeVars == <<merge, reports, exit>>
vars == <<queueVars, ownerVars, procVars, inp, out, events, mergeVars>>

-----------------------------------------------------------------------------
(* Frames, events and reports. *)

\* phase "crash" is the Failed call report handle_crash writes itself, and
\* "scope" the teardown report of a class, module or session.
Report(t, phase, failed) == [kind |-> "report", test |-> t, phase |-> phase, failed |-> failed]
Collection(ids) == [kind |-> "collection", ids |-> ids]
Interrupted(code) == [kind |-> "interrupted", code |-> code]
Done == [kind |-> "done"]
Bye == [kind |-> "bye"]
Banner == [kind |-> "banner"]

Run(ids) == [kind |-> "run", ids |-> ids]
Shutdown == [kind |-> "shutdown"]
Workerinput == [kind |-> "workerinput"]

NoVerdict == [action |-> "none", running |-> << >>, replace |-> FALSE]

\* A process: its state, the rest of its batch, the items it collected, its
\* total_failed, its session's exit_code_override and its
\* last_nodeid as a sequence of at most one.
Process(st) ==
    [st |-> st, batch |-> << >>, items |-> {}, failed |-> 0, code |-> None, last |-> << >>]

Alive(w) == proc[w].st # "gone"
Eof(w) == ~Alive(w) /\ out[w] = << >>

Init ==
    /\ QueueInit
    /\ pc = [w \in Worker |-> "start"]
    /\ held = [w \in Worker |-> << >>]
    /\ verdict = [w \in Worker |-> NoVerdict]
    /\ proc = [w \in Worker |-> Process(IF w \in Forked THEN "input" ELSE "gone")]
    /\ inp = [w \in Worker |-> << >>]
    /\ out = [w \in Worker |-> << >>]
    /\ crashes = 0
    /\ events = << >>
    /\ merge = [at |-> "recv", pending |-> NumWorkers, got |-> FALSE, first |-> << >>,
                failed |-> 0, hit |-> FALSE, override |-> None, banner |-> FALSE]
    /\ reports = EmptyBag
    /\ exit = None

-----------------------------------------------------------------------------
(* The worker process (worker.rs). *)

Send(w, frames) == out' = [out EXCEPT ![w] = @ \o frames]
Become(w, p) == proc' = [proc EXCEPT ![w] = p]
ProcessOnly == UNCHANGED <<queueVars, ownerVars, crashes, events, mergeVars>>

\* run_worker_forked blocks for its identity.
ReadInput(w) ==
    /\ proc[w].st = "input"
    /\ inp[w] # << >> /\ Head(inp[w]) = Workerinput
    /\ inp' = [inp EXCEPT ![w] = Tail(@)]
    /\ Become(w, Process("collecting"))
    /\ UNCHANGED out
    /\ ProcessOnly

\* configure_and_collect; its error returns send nothing and are Die.
Collect(w) ==
    /\ proc[w].st = "collecting"
    /\ \E ids \in CollectChoices :
          /\ Send(w, <<Collection(ids)>>)
          /\ Become(w, [Process("idle") EXCEPT !.items = {ids[i] : i \in DOMAIN ids}])
    /\ UNCHANGED inp
    /\ ProcessOnly

ReadRun(w) ==
    /\ proc[w].st = "idle"
    /\ inp[w] # << >> /\ Head(inp[w]).kind = "run"
    /\ inp' = [inp EXCEPT ![w] = Tail(@)]
    /\ Become(w, [proc[w] EXCEPT !.st = "item", !.batch = Head(inp[w]).ids])
    /\ UNCHANGED out
    /\ ProcessOnly

\* A nodeid the worker did not collect: send_collect_error, then `continue`.
Uncollected(w) ==
    LET t == Head(proc[w].batch)
        rest == Tail(proc[w].batch)
    IN  /\ proc[w].st = "item"
        /\ t \notin proc[w].items
        /\ Send(w, <<Report(t, "setup", TRUE), Report(t, "teardown", FALSE)>>)
        /\ Become(w, [proc[w] EXCEPT !.batch = rest,
                                     !.st = IF rest = << >> THEN "batchEnd" ELSE "item"])
        /\ UNCHANGED inp
        /\ ProcessOnly

\* The reports of n scope teardowns that fail, under the last item's name.
ScopeFailures(w, n) ==
    IF proc[w].last = << >> THEN << >>
    ELSE [i \in 1 .. n |-> Report(proc[w].last[1], "scope", TRUE)]

\* The class and module teardowns the next item brings about.
Scopes(w) ==
    /\ proc[w].st = "item"
    /\ Head(proc[w].batch) \in proc[w].items
    /\ \E n \in ScopeFails : Send(w, ScopeFailures(w, n))
    /\ Become(w, [proc[w] EXCEPT !.st = "body"])
    /\ UNCHANGED inp
    /\ ProcessOnly

\* Setup and call of run_one, streamed before the teardown starts; a failed
\* setup counts as a failed call.  An item that raises pytest.exit or
\* KeyboardInterrupt has no call report and leaves its code in the session
\* (record_abort).
Body(w) ==
    LET p == proc[w]
    IN  /\ p.st = "body"
        /\ \E o \in Outcomes :
              /\ Send(w, IF o = "exit" THEN << >>
                         ELSE <<Report(Head(p.batch), "call", o = "fail")>>)
              /\ Become(w, [p EXCEPT
                     !.st = "teardown",
                     !.failed = IF o = "fail" THEN @ + 1 ELSE @,
                     !.code = IF o = "exit" THEN ReturnCode ELSE @])
        /\ UNCHANGED inp
        /\ ProcessOnly

LimitReached(failed) == MaxFail # 0 /\ failed >= MaxFail

\* The item's teardown and its report; --maxfail leaves the batch early.
Teardown(w) ==
    LET p == proc[w]
        t == Head(p.batch)
    IN  /\ p.st = "teardown"
        /\ \E f \in TeardownFails :
              LET failed == IF f THEN p.failed + 1 ELSE p.failed
                  rest == IF LimitReached(failed) THEN << >> ELSE Tail(p.batch)
              IN  /\ Send(w, <<Report(t, "teardown", f)>>)
                  /\ Become(w, [p EXCEPT
                         !.st = IF rest = << >> THEN "batchEnd" ELSE "item",
                         !.batch = rest, !.failed = failed, !.last = <<t>>])
        /\ UNCHANGED inp
        /\ ProcessOnly

\* worker_loop after run_batch.
BatchEnd(w) ==
    LET p == proc[w]
        leave(code) == /\ Send(w, <<Interrupted(code)>>)
                       /\ Become(w, [p EXCEPT !.st = "leaving"])
    IN  /\ p.st = "batchEnd"
        /\ \/ p.code # None /\ leave(p.code)
           \/ p.code = None /\ LimitReached(p.failed) /\ leave(TESTS_FAILED)
           \/ /\ p.code = None /\ ~LimitReached(p.failed)
              /\ Send(w, <<Done>>)
              /\ Become(w, [p EXCEPT !.st = "idle"])
        /\ UNCHANGED inp
        /\ ProcessOnly

Leave(w) ==
    /\ proc[w].st = "leaving"
    /\ Send(w, <<Done>>)
    /\ Become(w, [proc[w] EXCEPT !.st = "final"])
    /\ UNCHANGED inp
    /\ ProcessOnly

ReadShutdown(w) ==
    /\ proc[w].st = "idle"
    /\ inp[w] # << >> /\ Head(inp[w]) = Shutdown
    /\ inp' = [inp EXCEPT ![w] = Tail(@)]
    /\ Become(w, [proc[w] EXCEPT !.st = "final"])
    /\ UNCHANGED out
    /\ ProcessOnly

\* The final scope teardowns and sessionfinish.
FinalTeardown(w) ==
    /\ proc[w].st = "final"
    /\ \E n \in ScopeFails : Send(w, ScopeFailures(w, n))
    /\ Become(w, [proc[w] EXCEPT !.st = "bye"])
    /\ UNCHANGED inp
    /\ ProcessOnly

SayBye(w) ==
    /\ proc[w].st = "bye"
    /\ Send(w, <<Bye>>)
    /\ Become(w, [proc[w] EXCEPT !.st = "exiting"])
    /\ UNCHANGED inp
    /\ ProcessOnly

Exit(w) ==
    /\ proc[w].st = "exiting"
    /\ Become(w, Process("gone"))
    /\ UNCHANGED <<inp, out>>
    /\ ProcessOnly

\* A segfault, os._exit, a kill, or an error return before the Collection:
\* what was written stays in the pipe.
Die(w) ==
    /\ Alive(w)
    /\ crashes < MaxCrash
    /\ crashes' = crashes + 1
    /\ Become(w, Process("gone"))
    /\ UNCHANGED <<queueVars, ownerVars, inp, out, events, mergeVars>>

-----------------------------------------------------------------------------
(* The owner thread of a slot (WorkerOwner::run). *)

Goto(w, label) == pc' = [pc EXCEPT ![w] = label]
Post(es) == events' = events \o es
Write(w, msg) == inp' = [inp EXCEPT ![w] = IF Alive(w) THEN Append(@, msg) ELSE @]
Pop(w) == out' = [out EXCEPT ![w] = Tail(@)]
Frame(w, kind) == out[w] # << >> /\ Head(out[w]).kind = kind

StartForked(w) ==
    /\ pc[w] = "start" /\ w \in Forked
    /\ \/ Alive(w) /\ Write(w, Workerinput) /\ Goto(w, "collect") /\ UNCHANGED events
       \/ ~Alive(w) /\ Post(<<Collection(<< >>)>>) /\ Goto(w, "end") /\ UNCHANGED inp
    /\ UNCHANGED <<queueVars, held, verdict, procVars, out, mergeVars>>

StartSpawned(w) ==
    /\ pc[w] = "start" /\ w \notin Forked
    /\ \/ Become(w, Process("collecting")) /\ Goto(w, "collect") /\ UNCHANGED events
       \/ SpawnFails /\ Post(<<Collection(<< >>)>>) /\ Goto(w, "end") /\ UNCHANGED proc
    /\ UNCHANGED <<queueVars, held, verdict, crashes, inp, out, mergeVars>>

CollectFrame(w) ==
    /\ pc[w] = "collect" /\ Frame(w, "collection")
    /\ Post(<<Head(out[w])>>)
    /\ Pop(w)
    /\ Goto(w, "next")
    /\ UNCHANGED <<queueVars, held, verdict, procVars, inp, mergeVars>>

\* Without the empty collection.
MutCollectEof(w) ==
    /\ pc[w] = "collect" /\ Eof(w)
    /\ Goto(w, "doomed")
    /\ UNCHANGED <<queueVars, held, verdict, procVars, inp, out, events, mergeVars>>

\* The worker died collecting: an empty collection unblocks the merge loop.
CollectEof(w) ==
    /\ pc[w] = "collect" /\ Eof(w)
    /\ Post(<<Collection(<< >>)>>)
    /\ Goto(w, "doomed")
    /\ UNCHANGED <<queueVars, held, verdict, procVars, inp, out, mergeVars>>

NextBatch(w) ==
    /\ pc[w] = "next"
    /\ TakeBatch(w)
    /\ held' = [held EXCEPT ![w] = Head(queues[w])]
    /\ Goto(w, "send")
    /\ UNCHANGED <<verdict, procVars, inp, out, events, mergeVars>>

NoMoreBatches(w) ==
    /\ pc[w] = "next"
    /\ NoBatch(w)
    /\ Write(w, Shutdown)
    /\ Goto(w, "drain")
    /\ UNCHANGED <<held, verdict, procVars, out, events, mergeVars>>

\* Writing to a process that is gone fails with EPIPE.
SendRun(w) ==
    /\ pc[w] = "send"
    /\ Write(w, Run(held[w]))
    /\ Goto(w, IF Alive(w) THEN "read" ELSE "crashed")
    /\ UNCHANGED <<queueVars, held, verdict, procVars, out, events, mergeVars>>

\* `remaining` after retain: the others in their order.
Without(s, t) ==
    LET kept == InOrder({i \in DOMAIN s : s[i] # t})
    IN  [k \in DOMAIN kept |-> s[kept[k]]]

ReadReport(w) ==
    LET r == Head(out[w])
    IN  /\ pc[w] = "read" /\ Frame(w, "report")
        /\ held' = IF r.phase \in {"teardown", "scope"}
                   THEN [held EXCEPT ![w] = Without(@, r.test)] ELSE held
        /\ Post(<<r>>)
        /\ Pop(w)
        /\ UNCHANGED <<queueVars, pc, verdict, procVars, inp, mergeVars>>

ReadDone(w) ==
    /\ pc[w] = "read" /\ Frame(w, "done")
    /\ held' = [held EXCEPT ![w] = << >>]
    /\ Pop(w)
    /\ Goto(w, "next")
    /\ UNCHANGED <<queueVars, verdict, procVars, inp, events, mergeVars>>

ReadInterrupted(w) ==
    /\ pc[w] = "read" /\ Frame(w, "interrupted")
    /\ Post(<<Head(out[w])>>)
    /\ Pop(w)
    /\ Goto(w, "waitStop")
    /\ UNCHANGED <<queueVars, held, verdict, procVars, inp, mergeVars>>

\* Without the wait.
MutWaitStop(w) ==
    /\ pc[w] = "waitStop"
    /\ Goto(w, "read")
    /\ UNCHANGED <<queueVars, held, verdict, procVars, inp, out, events, mergeVars>>

\* wait_soft_stopped
WaitStop(w) ==
    /\ pc[w] = "waitStop"
    /\ StopSeen
    /\ Goto(w, "read")
    /\ UNCHANGED <<queueVars, held, verdict, procVars, inp, out, events, mergeVars>>

ReadEof(w) ==
    /\ pc[w] = "read" /\ Eof(w)
    /\ Goto(w, "crashed")
    /\ UNCHANGED <<queueVars, held, verdict, procVars, inp, out, events, mergeVars>>

\* With first() for remove(0).
MutRemainder(w) == held[w]

\* `remaining` without the running test, which is its first.
Remainder(w) == IF held[w] = << >> THEN << >> ELSE Tail(held[w])

\* handle_crash up to WorkQueue::crash.  Only a crash in the work loop may
\* still use a replacement.
Book(w) ==
    LET running == IF held[w] = << >> THEN << >> ELSE <<Head(held[w])>>
        found(action) == verdict' = [verdict EXCEPT ![w] =
            [action |-> action, running |-> running, replace |-> pc[w] = "crashed"]]
    IN  /\ pc[w] \in {"doomed", "crashed", "dying"}
        /\ \/ CrashSilent /\ found("silent")
           \/ CrashReplace(w, Remainder(w)) /\ found("replace")
           \/ CrashAbort /\ found("abort")
        /\ held' = [held EXCEPT ![w] = << >>]
        /\ Goto(w, "tell")
        /\ UNCHANGED <<procVars, inp, out, events, mergeVars>>

\* The rest of handle_crash: the report, the banner, the replacement.
Tell(w) ==
    LET v == verdict[w]
        failure == IF v.action # "silent" /\ v.running # << >>
                   THEN <<Report(v.running[1], "crash", TRUE)>> ELSE << >>
        banner == IF v.action = "abort" THEN <<Banner>> ELSE << >>
        replacing == v.action = "replace" /\ v.replace
    IN  /\ pc[w] = "tell"
        /\ Post(failure \o banner)
        /\ verdict' = [verdict EXCEPT ![w] = NoVerdict]
        /\ \/ /\ replacing
              /\ Become(w, Process("collecting"))
              /\ inp' = [inp EXCEPT ![w] = << >>]
              /\ out' = [out EXCEPT ![w] = << >>]
              /\ Goto(w, "absorb")
           \/ replacing /\ SpawnFails /\ Goto(w, "lost") /\ UNCHANGED <<proc, inp, out>>
           \/ ~replacing /\ Goto(w, "end") /\ UNCHANGED <<proc, inp, out>>
        /\ UNCHANGED <<queueVars, held, crashes, mergeVars>>

\* With the replacement's collection forwarded.
MutAbsorb(w) ==
    /\ pc[w] = "absorb"
    /\ \/ Frame(w, "collection") /\ Post(<<Head(out[w])>>) /\ Pop(w) /\ Goto(w, "next")
       \/ Eof(w) /\ Goto(w, "lost") /\ UNCHANGED <<out, events>>
    /\ UNCHANGED <<queueVars, held, verdict, procVars, inp, mergeVars>>

\* absorb_replacement_collection
Absorb(w) ==
    /\ pc[w] = "absorb"
    /\ \/ Frame(w, "collection") /\ Pop(w) /\ Goto(w, "next")
       \/ Eof(w) /\ Goto(w, "lost") /\ UNCHANGED out
    /\ UNCHANGED <<queueVars, held, verdict, procVars, inp, events, mergeVars>>

\* With the report dropped.
MutDrainReport(w) ==
    /\ pc[w] = "drain" /\ Frame(w, "report")
    /\ Pop(w)
    /\ UNCHANGED <<queueVars, ownerVars, procVars, inp, events, mergeVars>>

\* After the shutdown: final teardown reports, then Bye or a crash.
DrainReport(w) ==
    /\ pc[w] = "drain" /\ Frame(w, "report")
    /\ Post(<<Head(out[w])>>)
    /\ Pop(w)
    /\ UNCHANGED <<queueVars, ownerVars, procVars, inp, mergeVars>>

\* With the Bye forwarded.
MutDrainBye(w) ==
    /\ pc[w] = "drain" /\ Frame(w, "bye")
    /\ Post(<<Head(out[w])>>)
    /\ Pop(w)
    /\ Goto(w, "reap")
    /\ UNCHANGED <<queueVars, held, verdict, procVars, inp, mergeVars>>

DrainBye(w) ==
    /\ pc[w] = "drain" /\ Frame(w, "bye")
    /\ Pop(w)
    /\ Goto(w, "reap")
    /\ UNCHANGED <<queueVars, held, verdict, procVars, inp, events, mergeVars>>

DrainEof(w) ==
    /\ pc[w] = "drain" /\ Eof(w)
    /\ Goto(w, "dying")
    /\ UNCHANGED <<queueVars, held, verdict, procVars, inp, out, events, mergeVars>>

\* Without the wait for the process.
MutReap(w) ==
    /\ pc[w] = "reap"
    /\ Goto(w, "end")
    /\ UNCHANGED <<queueVars, held, verdict, procVars, inp, out, events, mergeVars>>

\* The process is waited for after the Bye.
Reap(w) ==
    /\ pc[w] = "reap" /\ Eof(w)
    /\ Goto(w, "end")
    /\ UNCHANGED <<queueVars, held, verdict, procVars, inp, out, events, mergeVars>>

-----------------------------------------------------------------------------
(* The merge loop (run_dist_merge_loop) and the end of run_dist. *)

\* The batches of whatever the first worker collects.
Plan == [ids \in CollectChoices \cup {<< >>} |->
            BuildBatches(Mode, ids, File, Group, NumWorkers, Reorder)]

Event(kind) == merge.at = "recv" /\ events # << >> /\ Head(events).kind = kind
Received == events' = Tail(events)
MergeOnly == UNCHANGED <<ownerVars, procVars, inp, out, exit>>

Counting == [merge EXCEPT !.at = "count"]

\* The first collection is the run's; the later ones are compared with it.
MergeFirst ==
    /\ Event("collection")
    /\ ~merge.got
    /\ merge' = [Counting EXCEPT !.got = TRUE, !.first = Head(events).ids]
    /\ Received
    /\ UNCHANGED <<queueVars, reports>>
    /\ MergeOnly

MergeSame ==
    /\ Event("collection")
    /\ merge.got /\ Head(events).ids = merge.first
    /\ merge' = Counting
    /\ Received
    /\ UNCHANGED <<queueVars, reports>>
    /\ MergeOnly

\* Without queue.stop().
MutMergeDifferent ==
    /\ Event("collection")
    /\ merge.got /\ Head(events).ids # merge.first
    /\ merge' = [Counting EXCEPT !.override = TESTS_FAILED]
    /\ Received
    /\ UNCHANGED <<queueVars, reports>>
    /\ MergeOnly

MergeDifferent ==
    /\ Event("collection")
    /\ merge.got /\ Head(events).ids # merge.first
    /\ merge' = [Counting EXCEPT !.override = TESTS_FAILED]
    /\ Stop
    /\ Received
    /\ UNCHANGED reports
    /\ MergeOnly

\* The rest of the Collection arm: the last one builds and pushes the batches
\* (collections_pending is decremented with saturating_sub).
MergeCount ==
    LET pending == Larger(merge.pending - 1, 0)
    IN  /\ merge.at = "count"
        /\ merge' = [merge EXCEPT !.at = "recv", !.pending = pending]
        /\ IF pending = 0 THEN PushBatches(Plan[merge.first]) ELSE UNCHANGED queueVars
        /\ UNCHANGED <<events, reports>>
        /\ MergeOnly

MergeReport ==
    LET r == Head(events)
        failed == IF r.failed THEN merge.failed + 1 ELSE merge.failed
        stops == r.failed /\ LimitReached(failed) /\ ~merge.hit
    IN  /\ Event("report")
        /\ merge' = [merge EXCEPT !.failed = failed, !.hit = @ \/ stops]
        /\ IF stops THEN Stop ELSE UNCHANGED queueVars
        /\ reports' = reports (+) SetToBag({r})
        /\ Received
        /\ MergeOnly

\* Without queue.stop().
MutMergeInterrupted ==
    /\ Event("interrupted")
    /\ merge' = [merge EXCEPT !.hit = TRUE]
    /\ Received
    /\ UNCHANGED <<queueVars, reports>>
    /\ MergeOnly

MergeInterrupted ==
    /\ Event("interrupted")
    /\ \/ /\ ~merge.hit
          /\ merge' = [merge EXCEPT !.hit = TRUE, !.override = Head(events).code]
          /\ Stop
       \/ merge.hit /\ UNCHANGED <<merge, queueVars>>
    /\ Received
    /\ UNCHANGED reports
    /\ MergeOnly

MergeBanner ==
    /\ Event("banner")
    /\ merge' = [merge EXCEPT !.banner = TRUE]
    /\ Received
    /\ UNCHANGED <<queueVars, reports>>
    /\ MergeOnly

Failures == {r \in BagToSet(reports) : r.failed}

\* run_dist after the loop, then finish_session.
ExitCode ==
    IF merge.hit THEN INTERRUPTED
    ELSE IF merge.override # None THEN merge.override
    ELSE IF Failures # {} THEN TESTS_FAILED
    ELSE IF merge.first = << >> THEN NO_TESTS_COLLECTED
    ELSE OK

Over == \A w \in Worker : pc[w] \in {"end", "lost"}

\* Every sender is dropped and the channel is empty.
MergeEnd ==
    /\ exit = None
    /\ merge.at = "recv" /\ events = << >> /\ Over
    /\ exit' = ExitCode
    /\ UNCHANGED <<queueVars, ownerVars, procVars, inp, out, events, merge, reports>>

Terminated == exit # None /\ UNCHANGED vars

-----------------------------------------------------------------------------

WorkerStep(w) ==
    \/ ReadInput(w) \/ Collect(w) \/ ReadRun(w) \/ Uncollected(w)
    \/ Scopes(w) \/ Body(w) \/ Teardown(w) \/ BatchEnd(w) \/ Leave(w)
    \/ ReadShutdown(w) \/ FinalTeardown(w) \/ SayBye(w) \/ Exit(w)

OwnerStep(w) ==
    \/ StartForked(w) \/ StartSpawned(w) \/ CollectFrame(w) \/ CollectEof(w)
    \/ NextBatch(w) \/ NoMoreBatches(w) \/ SendRun(w) \/ ReadReport(w)
    \/ ReadDone(w) \/ ReadInterrupted(w) \/ WaitStop(w) \/ ReadEof(w)
    \/ Book(w) \/ Tell(w) \/ Absorb(w)
    \/ DrainReport(w) \/ DrainBye(w) \/ DrainEof(w) \/ Reap(w)

MergeStep ==
    \/ MergeFirst \/ MergeSame \/ MergeDifferent \/ MergeCount
    \/ MergeReport \/ MergeInterrupted \/ MergeBanner \/ MergeEnd

Next ==
    \/ \E w \in Worker : WorkerStep(w) \/ OwnerStep(w) \/ Die(w)
    \/ MergeStep
    \/ Terminated

Spec == Init /\ [][Next]_vars

\* Threads and processes are scheduled, tests terminate, nothing has to die.
Fairness ==
    /\ \A w \in Worker : WF_vars(WorkerStep(w)) /\ WF_vars(OwnerStep(w))
    /\ WF_vars(MergeStep)

FairSpec == Spec /\ Fairness

-----------------------------------------------------------------------------
(* Properties. *)

PcState == {"start", "collect", "doomed", "next", "send", "read", "waitStop",
            "crashed", "tell", "absorb", "lost", "drain", "dying", "reap", "end"}

ProcState == {"input", "collecting", "idle", "item", "body", "teardown",
              "batchEnd", "leaving", "final", "bye", "exiting", "gone"}

\* Every variable stays within its type.
TypeOK ==
    /\ QueueTypeOK
    /\ pc \in [Worker -> PcState]
    /\ held \in [Worker -> Batch]
    /\ verdict \in [Worker -> [action : {"none", "silent", "replace", "abort"},
                               running : Batch, replace : BOOLEAN]]
    /\ proc \in [Worker -> [st : ProcState, batch : Batch, items : SUBSET Test,
                            failed : Nat, code : Int \cup {None}, last : Batch]]
    /\ crashes \in 0 .. MaxCrash
    /\ \A i \in DOMAIN events :
          events[i].kind \in {"collection", "report", "interrupted", "banner"}
    /\ merge \in [at : {"recv", "count"}, pending : 0 .. NumWorkers, got : BOOLEAN,
                  first : Batch, failed : Nat, hit : BOOLEAN,
                  override : Int \cup {None}, banner : BOOLEAN]
    /\ IsABag(reports)
    /\ exit \in Int \cup {None}

IsReport(e, t, p) == e.kind = "report" /\ e.test = t /\ e.phase = p

\* How many reports of phase p for test t the owners have sent on, and the
\* tests with one.
Sent(t, p) ==
    LET copies(failed) == IF BagIn(Report(t, p, failed), reports)
                          THEN reports[Report(t, p, failed)] ELSE 0
    IN  copies(TRUE) + copies(FALSE)
            + Cardinality({i \in DOMAIN events : IsReport(events[i], t, p)})

Settled(p) ==
    {t \in Test : \/ \E r \in BagToSet(reports) : IsReport(r, t, p)
                  \/ \E i \in DOMAIN events : IsReport(events[i], t, p)}

\* A test is settled once: it is never both finished and blamed for a crash,
\* nor finished twice by a worker and the replacement its batch is requeued
\* to, nor blamed twice.
OneVerdict == \A t \in Test : Sent(t, "teardown") + Sent(t, "crash") <= 1

\* A worker that has left its loop (an interrupt, --maxfail) is never sent
\* another batch, which would be lost with it: this is what the owner's wait
\* for the merge loop's stop is for.
NoRunAfterLeave ==
    \A w \in Worker :
        proc[w].st \in {"leaving", "final", "bye", "exiting"} =>
            \A i \in DOMAIN inp[w] : inp[w][i].kind # "run"

\* The run ends only when every process it ever started is gone and whatever
\* they wrote has been read: no worker outlives it, and no failure of a final
\* scope teardown is left behind in a pipe.
NothingLeftBehind ==
    exit # None => \A w \in Worker : ~Alive(w) /\ out[w] = << >>

\* A run that reports success has run every test it collected, unless it says
\* that it aborted or lost a replacement.
OkMeansAllRan ==
    exit = OK /\ ~merge.banner /\ (\A w \in Worker : pc[w] # "lost") =>
        \A i \in DOMAIN merge.first : merge.first[i] \in Settled("teardown")

\* Workers that disagree on the collection run nothing: the mismatch stops the
\* queue before the last collection builds the batches, and no owner gets one
\* however the two are interleaved.
MismatchRunsNothing ==
    merge.override # None /\ ~merge.hit =>
        /\ Settled("teardown") = {}
        /\ \A w \in Worker : held[w] = << >> /\ proc[w].batch = << >>

\* The run always ends: no owner waits for a worker, a batch or a stop that
\* never comes, whatever crashed.
Termination == <>(exit # None)

\* An interrupt in a worker (pytest.exit, Ctrl-C, --maxfail reached there)
\* always ends the whole run as interrupted.
InterruptHonoured ==
    \A w \in Worker : proc[w].st = "leaving" ~> exit = INTERRUPTED

\* A failure a worker has written always shows in the exit code, whichever
\* loop of the owner reads it (work or drain), and whatever stops the run
\* between the pipe and the end.
FailureSurfaces ==
    \A w \in Worker :
        (\E i \in DOMAIN out[w] : out[w][i].kind = "report" /\ out[w][i].failed)
            ~> exit \notin {None, OK}

(***************************************************************************)
(* The run implements Scheduler: a test has run once its teardown report   *)
(* was sent to the merge loop and is crashed once its crash is booked.     *)
(***************************************************************************)
SlotOf(w) ==
    CASE pc[w] \in {"start", "collect"} -> "collect"
      [] pc[w] = "doomed" -> "doomed"
      [] pc[w] = "next" -> "ready"
      [] pc[w] \in {"send", "read", "waitStop", "crashed"} -> "work"
      [] pc[w] = "tell" -> IF verdict[w].action = "replace" /\ verdict[w].replace
                           THEN "replace" ELSE "ended"
      [] pc[w] = "absorb" -> "replace"
      [] pc[w] \in {"drain", "dying", "reap"} -> "drain"
      [] pc[w] = "lost" -> "lost"
      [] pc[w] = "end" -> "ended"

Blamed(w) ==
    IF verdict[w].action \in {"replace", "abort"}
    THEN {verdict[w].running[i] : i \in DOMAIN verdict[w].running} ELSE {}

Pushed == merge.pending = 0
CrashFailed == Settled("crash") \cup UNION {Blamed(w) : w \in Worker}

AllPlans == {Plan[ids] : ids \in DOMAIN Plan}

S == INSTANCE Scheduler WITH
        Plans <- AllPlans,
        slot <- [w \in Worker |-> SlotOf(w)],
        pushed <- Pushed,
        plan <- IF Pushed THEN Plan[merge.first] ELSE << >>,
        ran <- Settled("teardown"),
        crashed <- CrashFailed

\* The crash that exhausts the budget ends the blaming: a worker that dies
\* after it, whichever owner books first, leaves no further failed test.
SilentAfterAbort ==
    [][aborted => CrashFailed' = CrashFailed]_vars

\* The controller, its processes and its merge loop together are an
\* implementation of Scheduler, whose promises therefore hold of them: no test
\* at two places, none run after it settled, none lost before a stop.
ImplementsScheduler == S!Spec

-----------------------------------------------------------------------------
(* What comments in the source say and the code does not do. *)

\* ipc.rs, of Interrupted: "the session should stop and use this exit code".
ExitCodeKept == exit # None /\ merge.override # None => exit = merge.override

\* dist.rs, of handle_crash: "the unfinished remainder requeues, and the
\* worker is replaced while the budget lasts".  An owner that goes home while
\* budget is left, in a run that was not stopped, leaves no batch behind.
ReplacedWhileBudgetLasts ==
    \A w \in Worker :
        pc[w] \in {"end", "lost"} /\ ~Refused /\ restarts > 0 => queues[w] = << >>
=============================================================================
