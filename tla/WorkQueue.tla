----------------------------- MODULE WorkQueue -----------------------------
(***************************************************************************)
(* The shared work queue of the distributed controller (dist.rs, struct    *)
(* WorkQueue / QueueState): one FIFO of batches per worker slot behind one *)
(* lock and one condition variable.  Every operation of the code takes the *)
(* lock for its whole body, so every operation is one action here; the two *)
(* that wait on the condition variable (next_blocking, wait_soft_stopped)  *)
(* are actions whose guard is the condition they wait for.                 *)
(*                                                                         *)
(* The module has no specification of its own: Scheduler adds the clients  *)
(* of the queue, Dist the whole controller.                                *)
(***************************************************************************)
EXTENDS Integers, Sequences

CONSTANTS
    NumWorkers,   \* the -n of the run
    Test,         \* the node IDs
    MaxRestart    \* --max-worker-restart; isize::MAX stands for no flag

Worker == 0 .. NumWorkers - 1

ASSUME NumWorkersAssumption == NumWorkers \in Nat \ {0}
\* The flag is parsed as an isize: a negative budget is accepted.
ASSUME MaxRestartAssumption == MaxRestart \in Int

VARIABLES
    queues,        \* queues[w]: the batches assigned to slot w, next one first
    aborted,       \* a crash found the restart budget exhausted
    softStopped,   \* -x/--maxfail, an interrupt or a collection mismatch
    restarts,      \* what is left of the restart budget
    batchesReady   \* push_batches, stop or an aborting crash has been called

queueVars == <<queues, aborted, softStopped, restarts, batchesReady>>

Batch == Seq(Test)

QueueTypeOK ==
    /\ queues \in [Worker -> Seq(Batch)]
    /\ aborted \in BOOLEAN
    /\ softStopped \in BOOLEAN
    /\ restarts \in Int
    /\ batchesReady \in BOOLEAN

QueueInit ==
    /\ queues = [w \in Worker |-> << >>]
    /\ aborted = FALSE
    /\ softStopped = FALSE
    /\ restarts = MaxRestart
    /\ batchesReady = FALSE

-----------------------------------------------------------------------------

\* The batches whose position i (from 0) has i % num_workers = w, in order.
Share(batches, w) ==
    [k \in 1 .. ((Len(batches) + NumWorkers - 1 - w) \div NumWorkers) |->
        batches[(k - 1) * NumWorkers + w + 1]]

PushBatches(batches) ==
    /\ queues' = IF aborted \/ softStopped
                 THEN queues
                 ELSE [w \in Worker |-> queues[w] \o Share(batches, w)]
    /\ batchesReady' = TRUE
    /\ UNCHANGED <<aborted, softStopped, restarts>>

\* Without the wait.
MutAwake == TRUE

\* What next_blocking waits for, and when it then gives out nothing.
Awake == batchesReady \/ aborted
Refused == aborted \/ softStopped

\* With front() for pop_front().
MutTakeBatchPeek(w) ==
    /\ Awake
    /\ ~Refused
    /\ queues[w] # << >>
    /\ UNCHANGED queueVars

\* Without the look at aborted and soft_stopped.
MutTakeBatchStopped(w) ==
    /\ Awake
    /\ queues[w] # << >>
    /\ queues' = [queues EXCEPT ![w] = Tail(@)]
    /\ UNCHANGED <<aborted, softStopped, restarts, batchesReady>>

\* next_blocking returns Some(Head(queues[w])): a slot pops its own queue only.
TakeBatch(w) ==
    /\ Awake
    /\ ~Refused
    /\ queues[w] # << >>
    /\ queues' = [queues EXCEPT ![w] = Tail(@)]
    /\ UNCHANGED <<aborted, softStopped, restarts, batchesReady>>

\* None for a slot whose queue still has a batch.
MutNoBatch(w) ==
    /\ Awake
    /\ UNCHANGED queueVars

\* next_blocking returns None.
NoBatch(w) ==
    /\ Awake
    /\ Refused \/ queues[w] = << >>
    /\ UNCHANGED queueVars

Stop ==
    /\ queues' = [w \in Worker |-> << >>]
    /\ softStopped' = TRUE
    /\ batchesReady' = TRUE
    /\ UNCHANGED <<aborted, restarts>>

\* What wait_soft_stopped waits for.
StopSeen == softStopped \/ aborted

\* crash(w, remaining), by the CrashAction it returns.
CrashSilent ==
    /\ aborted
    /\ UNCHANGED queueVars

\* Without the requeue.
MutCrashReplace(w, remaining) ==
    /\ ~aborted
    /\ restarts > 0
    /\ restarts' = restarts - 1
    /\ UNCHANGED <<queues, aborted, softStopped, batchesReady>>

CrashReplace(w, remaining) ==
    /\ ~aborted
    /\ restarts > 0
    /\ restarts' = restarts - 1
    /\ queues' = IF remaining = << >>
                 THEN queues
                 ELSE [queues EXCEPT ![w] = <<remaining>> \o @]
    /\ UNCHANGED <<aborted, softStopped, batchesReady>>

\* Without the clearing of the queues.
MutCrashAbort ==
    /\ ~aborted
    /\ restarts <= 0
    /\ aborted' = TRUE
    /\ batchesReady' = TRUE
    /\ UNCHANGED <<queues, softStopped, restarts>>

\* Without the test of aborted.
MutCrashAbortAgain ==
    /\ restarts <= 0
    /\ aborted' = TRUE
    /\ queues' = [w \in Worker |-> << >>]
    /\ batchesReady' = TRUE
    /\ UNCHANGED <<softStopped, restarts>>

CrashAbort ==
    /\ ~aborted
    /\ restarts <= 0
    /\ aborted' = TRUE
    /\ queues' = [w \in Worker |-> << >>]
    /\ batchesReady' = TRUE
    /\ UNCHANGED <<softStopped, restarts>>

-----------------------------------------------------------------------------
(* What is in the queues. *)

\* The tests of a sequence of batches.
Tests(batches) ==
    {t \in Test : \E i \in DOMAIN batches :
                    \E j \in DOMAIN batches[i] : batches[i][j] = t}

\* No test occurs at two places of a sequence of batches.
Distinct(batches) ==
    \A i, k \in DOMAIN batches :
        \A j \in DOMAIN batches[i], l \in DOMAIN batches[k] :
            batches[i][j] = batches[k][l] => i = k /\ j = l

\* What a slot still has to run: the rest b of its batch, at index 0, then
\* its queue q.
PendingOf(b, q) == [i \in 0 .. Len(q) |-> IF i = 0 THEN b ELSE q[i]]
=============================================================================
