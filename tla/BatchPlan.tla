----------------------------- MODULE BatchPlan -----------------------------
(***************************************************************************)
(* The static distribution of a run: the merge loop builds the batches of  *)
(* one collection (DistBatches) and deals them to the worker slots         *)
(* (WorkQueue!PushBatches).  The properties speak of the queues that       *)
(* result, for every collection and mode in Jobs.                          *)
(***************************************************************************)
EXTENDS WorkQueue, DistBatches, SequencesExt

CONSTANT
    Jobs      \* records [mode, ids, file, group, reorder]

ASSUME JobsAssumption == \A j \in Jobs : j.ids \in Seq(Test)

VARIABLES job, dealt
vars == <<queueVars, job, dealt>>

Init ==
    /\ QueueInit
    /\ job \in Jobs
    /\ dealt = FALSE

\* The arm of run_dist_merge_loop for the last Collection.
Deal ==
    /\ ~dealt
    /\ dealt' = TRUE
    /\ PushBatches(BuildBatches(job.mode, job.ids, job.file, job.group,
                                NumWorkers, job.reorder))
    /\ UNCHANGED job

Next == Deal

Spec == Init /\ [][Next]_vars

-----------------------------------------------------------------------------

\* The tests a worker is given, in the order it will run them.
RunOrder(w) == FlattenSeq(queues[w])

Count(s, t) == Cardinality({i \in DOMAIN s : s[i] = t})

\* Where the queued tests are: slot, batch and position.
Spots == UNION {UNION {{<<w, b, j>> : j \in DOMAIN queues[w][b]}
                       : b \in DOMAIN queues[w]} : w \in Worker}

SpotsOf(t) == {s \in Spots : queues[s[1]][s[2]][s[3]] = t}

\* Except under each, dealing neither drops nor doubles a test: every
\* collected node ID is given to exactly one worker exactly once.
Partitioned ==
    dealt /\ job.mode # "each" =>
        \A t \in Test : Cardinality(SpotsOf(t)) = Count(job.ids, t)

\* Items of one scope stay on one worker, in collection order, whatever other
\* items stand between them in the collection.
ScopesTogether ==
    dealt /\ job.mode \in PerModule =>
        \A i, j \in DOMAIN job.ids :
            /\ i < j
            /\ Key(job.mode, job.ids, job.file, job.group, i)
                 = Key(job.mode, job.ids, job.file, job.group, j)
            => \E w \in Worker : \E b \in DOMAIN queues[w] :
                  LET batch == queues[w][b]
                  IN  \E k, l \in DOMAIN batch :
                         k < l /\ batch[k] = job.ids[i] /\ batch[l] = job.ids[j]

\* Plain load keeps neighbours together without starving a worker: every batch
\* is a stretch of the collection, and with two items per worker or more every
\* worker is given a batch of two at least and a single item travels alone only
\* at the end of the collection.
NeighboursTogether ==
    dealt /\ job.mode = "load" /\ Len(job.ids) >= 2 * NumWorkers =>
        \A w \in Worker :
            /\ \E b \in DOMAIN queues[w] : Len(queues[w][b]) >= 2
            /\ \A b \in DOMAIN queues[w] : \E i, j \in DOMAIN job.ids :
                  /\ queues[w][b] = SubSeq(job.ids, i, j)
                  /\ i < j \/ (i = j /\ j = Len(job.ids))

\* "Duplicated per worker for each": every worker is given every test once.
EachEverywhere ==
    dealt /\ job.mode = "each" =>
        \A w \in Worker : \A i \in DOMAIN job.ids : Count(RunOrder(w), job.ids[i]) = 1
=============================================================================
