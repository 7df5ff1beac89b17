----------------------------- MODULE Scheduler -----------------------------
(***************************************************************************)
(* What the distributed controller promises about its tests: the shared    *)
(* work queue (WorkQueue) together with its clients, seen from the queue.  *)
(* The clients are one owner thread per worker slot (WorkerOwner::run) and *)
(* the merge loop.  Processes, pipes and reports are left out; Dist models *)
(* them and is checked to implement this specification.                    *)
(***************************************************************************)
EXTENDS WorkQueue

CONSTANT
    Plans     \* the sequences of batches the merge loop may push

\* A collection names every node ID once and, except under --dist each, the
\* batches built from it partition it.
ASSUME PlansAssumption ==
    \A plan \in Plans : plan \in Seq(Batch) /\ Distinct(plan)

VARIABLES
    slot,      \* where the owner thread of each slot is
    held,      \* `remaining` of the owner: the unfinished part of its batch
    pushed,    \* the merge loop has called push_batches
    plan,      \* the batches it pushed
    ran,       \* the tests whose teardown report the owner has read
    crashed    \* the tests reported as failed because their worker crashed

clientVars == <<slot, held, pushed, plan, ran, crashed>>
vars == <<queueVars, clientVars>>

(***************************************************************************)
(* "collect"  the slot's Collection has not been sent to the merge loop    *)
(* "doomed"   it was sent empty because the worker died; the crash is      *)
(*            still to be booked                                           *)
(* "ready"    the owner is about to call next_blocking                     *)
(* "work"     it holds a batch                                             *)
(* "replace"  its worker crashed and a replacement is being started        *)
(* "drain"    next_blocking returned None; the worker is shutting down     *)
(* "lost"     the replacement never got as far as its Collection: the      *)
(*            owner has returned without asking the queue again            *)
(* "ended"    the owner has returned                                       *)
(***************************************************************************)
SlotState == {"collect", "doomed", "ready", "work", "replace", "drain",
              "lost", "ended"}

Init ==
    /\ QueueInit
    /\ slot = [w \in Worker |-> "collect"]
    /\ held = [w \in Worker |-> << >>]
    /\ pushed = FALSE
    /\ plan = << >>
    /\ ran = {}
    /\ crashed = {}

Move(w, from, to) == slot[w] = from /\ slot' = [slot EXCEPT ![w] = to]

-----------------------------------------------------------------------------
(* The owners' collection phase. *)

Collected(w) ==
    /\ Move(w, "collect", "ready")
    /\ UNCHANGED <<queueVars, held, pushed, plan, ran, crashed>>

\* No worker at all: the spawn failed or a forked child was already gone.
Unavailable(w) ==
    /\ Move(w, "collect", "ended")
    /\ UNCHANGED <<queueVars, held, pushed, plan, ran, crashed>>

CrashedCollecting(w) ==
    /\ Move(w, "collect", "doomed")
    /\ UNCHANGED <<queueVars, held, pushed, plan, ran, crashed>>

(* The merge loop. *)

\* The last Collection has arrived.  A plan with a test in it comes from
\* collections that all agree, hence from slots that all have a worker.
Push(p) ==
    /\ ~pushed
    /\ \A w \in Worker : slot[w] # "collect"
    /\ \/ Refused
       \/ p = << >>
       \/ \A w \in Worker : slot[w] = "ready"
    /\ PushBatches(p)
    /\ pushed' = TRUE
    /\ plan' = p
    /\ UNCHANGED <<slot, held, ran, crashed>>

StopDispatch ==
    /\ Stop
    /\ UNCHANGED clientVars

-----------------------------------------------------------------------------
(* The owners' work loop. *)

Take(w) ==
    /\ Move(w, "ready", "work")
    /\ TakeBatch(w)
    /\ held' = [held EXCEPT ![w] = Head(queues[w])]
    /\ UNCHANGED <<pushed, plan, ran, crashed>>

Refuse(w) ==
    /\ Move(w, "ready", "drain")
    /\ NoBatch(w)
    /\ UNCHANGED <<held, pushed, plan, ran, crashed>>

\* A teardown report: the worker runs its batch in order, so the node ID that
\* `retain` drops is the first.
Complete(w) ==
    /\ slot[w] = "work"
    /\ held[w] # << >>
    /\ held' = [held EXCEPT ![w] = Tail(@)]
    /\ ran' = ran \cup {Head(held[w])}
    /\ UNCHANGED <<queueVars, slot, pushed, plan, crashed>>

\* Done.  A batch is given up unfinished only once dispatching has stopped.
Finish(w) ==
    /\ Move(w, "work", "ready")
    /\ held[w] = << >> \/ Refused
    /\ held' = [held EXCEPT ![w] = << >>]
    /\ UNCHANGED <<queueVars, pushed, plan, ran, crashed>>

\* handle_crash: the running test is the first of the unfinished ones.
Running(w) == IF held[w] = << >> THEN {} ELSE {Head(held[w])}

\* With first() for remove(0).
MutRemainder(w) == held[w]

Remainder(w) == IF held[w] = << >> THEN << >> ELSE Tail(held[w])

CrashAndReplace(w) ==
    /\ Move(w, "work", "replace")
    /\ CrashReplace(w, Remainder(w))
    /\ crashed' = crashed \cup Running(w)
    /\ held' = [held EXCEPT ![w] = << >>]
    /\ UNCHANGED <<pushed, plan, ran>>

CrashAndAbort(w) ==
    /\ Move(w, "work", "ended")
    /\ CrashAbort
    /\ crashed' = crashed \cup Running(w)
    /\ held' = [held EXCEPT ![w] = << >>]
    /\ UNCHANGED <<pushed, plan, ran>>

CrashSilently(w) ==
    /\ Move(w, "work", "ended")
    /\ CrashSilent
    /\ held' = [held EXCEPT ![w] = << >>]
    /\ UNCHANGED <<pushed, plan, ran, crashed>>

Arrive(w) ==
    /\ Move(w, "replace", "ready")
    /\ UNCHANGED <<queueVars, held, pushed, plan, ran, crashed>>

LoseReplacement(w) ==
    /\ Move(w, "replace", "lost")
    /\ UNCHANGED <<queueVars, held, pushed, plan, ran, crashed>>

\* handle_crash(vec![], false): a crash that leaves nothing to requeue, of a
\* slot that needs no replacement.
CrashIdle(w) ==
    /\ slot[w] \in {"doomed", "drain"}
    /\ slot' = [slot EXCEPT ![w] = "ended"]
    /\ CrashSilent \/ CrashReplace(w, << >>) \/ CrashAbort
    /\ UNCHANGED <<held, pushed, plan, ran, crashed>>

Drained(w) ==
    /\ Move(w, "drain", "ended")
    /\ UNCHANGED <<queueVars, held, pushed, plan, ran, crashed>>

-----------------------------------------------------------------------------

Slot(w) ==
    \/ Collected(w) \/ Unavailable(w) \/ CrashedCollecting(w)
    \/ Take(w) \/ Refuse(w) \/ Complete(w) \/ Finish(w)
    \/ CrashAndReplace(w) \/ CrashAndAbort(w) \/ CrashSilently(w)
    \/ Arrive(w) \/ LoseReplacement(w) \/ CrashIdle(w) \/ Drained(w)

Next ==
    \/ \E w \in Worker : Slot(w)
    \/ \E p \in Plans : Push(p)
    \/ StopDispatch

Spec == Init /\ [][Next]_vars

-----------------------------------------------------------------------------
(* Properties. *)

\* Every variable stays within its type (struct QueueState, WorkerOwner::run).
TypeOK ==
    /\ QueueTypeOK
    /\ slot \in [Worker -> SlotState]
    /\ held \in [Worker -> Batch]
    /\ pushed \in BOOLEAN
    /\ plan \in Seq(Batch)
    /\ ran \in SUBSET Test
    /\ crashed \in SUBSET Test

\* What a slot still has to run.
Pending(w) == PendingOf(held[w], queues[w])

\* Exclusive ownership: a test that is still to run is at one place of one
\* slot, so a requeued remainder and the round-robin shares never give one
\* test to two workers, nor to one worker twice.
UniquePlace ==
    /\ \A w \in Worker : Distinct(Pending(w))
    /\ \A w, v \in Worker :
          w # v => Tests(Pending(w)) \cap Tests(Pending(v)) = {}

\* A test that has run or was failed by a crash is never pending again (the
\* requeued remainder leaves it out), and it is never both.
SettledOnce ==
    /\ ran \cap crashed = {}
    /\ \A w \in Worker : (ran \cup crashed) \cap Tests(Pending(w)) = {}

\* The crash that exhausts the budget leaves nothing dispatchable, whatever
\* the merge loop and other crashes do afterwards.
AbortedEmpty == aborted => \A w \in Worker : queues[w] = << >>

\* No test is lost: until dispatching is stopped or aborted, every pushed
\* test has run, was failed by a crash, or is still pending at some slot.
NothingLost ==
    pushed /\ ~Refused =>
        Tests(plan) \subseteq
            ran \cup crashed \cup UNION {Tests(Pending(w)) : w \in Worker}

\* An owner goes home only when its own queue is empty: unless a replacement
\* was lost, a run that was never stopped settles every test.
AllSettled ==
    /\ pushed
    /\ ~Refused
    /\ \A w \in Worker : slot[w] \in {"drain", "ended"}
    => Tests(plan) \subseteq ran \cup crashed

\* The facts that make the above inductive: nothing is pending or settled
\* before the push, only a working owner holds a batch, and an owner outside
\* its work loop leaves no batch behind in a run that still dispatches.
NothingBeforePush ==
    ~pushed => /\ ran = {} /\ crashed = {}
               /\ \A w \in Worker : queues[w] = << >> /\ held[w] = << >>

HeldInWork == \A w \in Worker : held[w] # << >> => slot[w] = "work"

GoneEmpty ==
    ~Refused =>
        \A w \in Worker :
            slot[w] \in {"collect", "doomed", "drain", "ended"} => queues[w] = << >>

\* The inductive invariant the theorems of SchedulerProofs rest on.
IndInv ==
    /\ TypeOK
    /\ NothingBeforePush
    /\ HeldInWork
    /\ GoneEmpty
    /\ AbortedEmpty
    /\ UniquePlace
    /\ SettledOnce
    /\ NothingLost

\* Once dispatching has stopped or aborted no slot starts another batch:
\* what it holds only shrinks.
NoBatchAfterStop ==
    [][Refused => \A w \in Worker :
                    \/ held'[w] \in {held[w], << >>}
                    \/ held[w] # << >> /\ held'[w] = Tail(held[w])]_vars
=============================================================================
