-------------------------- MODULE SchedulerProofs --------------------------
(***************************************************************************)
(* Theorems about the work queue and its clients (Scheduler), for every    *)
(* number of workers, every restart budget and every plan of batches.      *)
(***************************************************************************)
EXTENDS Scheduler, QueueProofs

-----------------------------------------------------------------------------
(* Type correctness. *)

\* The queue WorkQueue::new makes and owners that collect are well typed.
LEMMA InitType == Init => TypeOK
<1>1. << >> \in Batch /\ << >> \in Seq(Batch)
  BY DEF Batch
<1> QED
  BY <1>1, MaxRestartAssumption
     DEF Init, QueueInit, TypeOK, QueueTypeOK, SlotState

\* handle_crash requeues a batch.
LEMMA RemainderType ==
    ASSUME TypeOK, NEW w \in Worker
    PROVE  /\ Remainder(w) \in Batch
           /\ Running(w) \subseteq Test
BY DEF TypeOK, Remainder, Running, Batch

\* Every operation of the queue, an owner or the merge loop keeps the types.
LEMMA StepType == TypeOK /\ [Next]_vars => TypeOK'
<1> SUFFICES ASSUME TypeOK, [Next]_vars
             PROVE  TypeOK'
  OBVIOUS
<1> USE DEF TypeOK, QueueTypeOK, SlotState
<1>1. CASE UNCHANGED vars
  BY <1>1 DEF vars, queueVars, clientVars
<1>2. ASSUME NEW w \in Worker, Slot(w)
      PROVE  TypeOK'
  <2>1. CASE Collected(w)
    BY <2>1 DEF Collected, Move, queueVars
  <2>2. CASE Unavailable(w)
    BY <2>2 DEF Unavailable, Move, queueVars
  <2>3. CASE CrashedCollecting(w)
    BY <2>3 DEF CrashedCollecting, Move, queueVars
  <2>4. CASE Take(w)
    <3>1. queues[w] # << >> /\ queues[w] \in Seq(Batch)
      BY <2>4 DEF Take, TakeBatch
    <3>2. Head(queues[w]) \in Batch /\ Tail(queues[w]) \in Seq(Batch)
      BY <3>1
    <3> QED BY <2>4, <3>2 DEF Take, TakeBatch, Move
  <2>5. CASE Refuse(w)
    BY <2>5 DEF Refuse, NoBatch, Move, queueVars
  <2>6. CASE Complete(w)
    <3>1. held[w] # << >> /\ held[w] \in Seq(Test)
      BY <2>6 DEF Complete, Batch
    <3>2. Head(held[w]) \in Test /\ Tail(held[w]) \in Batch
      BY <3>1 DEF Batch
    <3> QED BY <2>6, <3>2 DEF Complete, queueVars
  <2>7. CASE Finish(w)
    BY <2>7, BatchSeqs DEF Finish, Move, queueVars, Batch
  <2>8. CASE CrashAndReplace(w)
    <3>1. Remainder(w) \in Batch /\ Running(w) \subseteq Test
      BY RemainderType
    <3>2. <<Remainder(w)>> \o queues[w] \in Seq(Batch)
      BY <3>1, BatchSeqs
    <3>3. << >> \in Batch
      BY DEF Batch
    <3>4. queues' \in [Worker -> Seq(Batch)] /\ restarts' \in Int
      BY <2>8, <3>2 DEF CrashAndReplace, CrashReplace
    <3> QED BY <2>8, <3>1, <3>3, <3>4 DEF CrashAndReplace, CrashReplace, Move
  <2>9. CASE CrashAndAbort(w)
    <3>1. Running(w) \subseteq Test /\ << >> \in Batch /\ << >> \in Seq(Batch)
      BY RemainderType DEF Batch
    <3> QED BY <2>9, <3>1 DEF CrashAndAbort, CrashAbort, Move
  <2>10. CASE CrashSilently(w)
    <3>1. << >> \in Batch
      BY DEF Batch
    <3> QED BY <2>10, <3>1 DEF CrashSilently, CrashSilent, Move, queueVars
  <2>11. CASE Arrive(w)
    BY <2>11 DEF Arrive, Move, queueVars
  <2>12. CASE LoseReplacement(w)
    BY <2>12 DEF LoseReplacement, Move, queueVars
  <2>13. CASE CrashIdle(w)
    <3>1. QueueTypeOK'
      <4>1. CASE CrashSilent
        BY <4>1 DEF CrashSilent, queueVars
      <4>2. CASE CrashReplace(w, << >>)
        BY <4>2 DEF CrashReplace
      <4>3. CASE CrashAbort
        BY <4>3 DEF CrashAbort
      <4> QED BY <2>13, <4>1, <4>2, <4>3 DEF CrashIdle
    <3> QED BY <2>13, <3>1 DEF CrashIdle
  <2>14. CASE Drained(w)
    BY <2>14 DEF Drained, Move, queueVars
  <2> QED
    BY <1>2, <2>1, <2>2, <2>3, <2>4, <2>5, <2>6, <2>7, <2>8, <2>9, <2>10,
       <2>11, <2>12, <2>13, <2>14 DEF Slot
<1>3. ASSUME NEW p \in Plans, Push(p)
      PROVE  TypeOK'
  <2>1. p \in Seq(Batch)
    BY PlansAssumption
  <2>2. \A w \in Worker : queues[w] \o Share(p, w) \in Seq(Batch)
    BY <2>1, ShareType
  <2>3. queues' \in [Worker -> Seq(Batch)]
    BY <1>3, <2>2 DEF Push, PushBatches
  <2> QED BY <1>3, <2>1, <2>3 DEF Push, PushBatches
<1>4. CASE StopDispatch
  BY <1>4 DEF StopDispatch, Stop, clientVars
<1> QED BY <1>1, <1>2, <1>3, <1>4 DEF Next

\* Every variable of the queue and of its clients keeps its type.
THEOREM TypeCorrect == Spec => []TypeOK
BY InitType, StepType, PTL DEF Spec

-----------------------------------------------------------------------------
(* The inductive invariant. *)

\* The part that speaks of the owners' states and of empty queues only.
Control == NothingBeforePush /\ HeldInWork /\ GoneEmpty /\ AbortedEmpty

\* Every step keeps it: an owner goes home only when its own queue is empty.
LEMMA StepControl == TypeOK /\ Control /\ [Next]_vars => Control'
<1> SUFFICES ASSUME TypeOK, Control, [Next]_vars
             PROVE  Control'
  OBVIOUS
<1> USE DEF Control, NothingBeforePush, HeldInWork, GoneEmpty, AbortedEmpty, Refused
<1>0. /\ slot \in [Worker -> SlotState]
      /\ held \in [Worker -> Batch]
      /\ queues \in [Worker -> Seq(Batch)]
      /\ aborted \in BOOLEAN /\ softStopped \in BOOLEAN /\ restarts \in Int
  BY DEF TypeOK, QueueTypeOK
<1>1. CASE UNCHANGED vars
  BY <1>1 DEF vars, queueVars, clientVars
<1>2. ASSUME NEW w \in Worker, Slot(w)
      PROVE  Control'
  <2>1. CASE Collected(w)
    BY <1>0, <2>1 DEF Collected, Move, queueVars
  <2>2. CASE Unavailable(w)
    BY <1>0, <2>2 DEF Unavailable, Move, queueVars
  <2>3. CASE CrashedCollecting(w)
    BY <1>0, <2>3 DEF CrashedCollecting, Move, queueVars
  <2>4. CASE Take(w)
    BY <1>0, <2>4 DEF Take, TakeBatch, Move
  <2>5. CASE Refuse(w)
    BY <1>0, <2>5 DEF Refuse, NoBatch, Move, queueVars
  <2>6. CASE Complete(w)
    BY <1>0, <2>6 DEF Complete, queueVars
  <2>7. CASE Finish(w)
    BY <1>0, <2>7 DEF Finish, Move, queueVars
  <2>8. CASE CrashAndReplace(w)
    BY <1>0, <2>8
       DEF CrashAndReplace, CrashReplace, Move, Remainder, Running
  <2>9. CASE CrashAndAbort(w)
    BY <1>0, <2>9 DEF CrashAndAbort, CrashAbort, Move, Running
  <2>10. CASE CrashSilently(w)
    BY <1>0, <2>10 DEF CrashSilently, CrashSilent, Move, queueVars
  <2>11. CASE Arrive(w)
    BY <1>0, <2>11 DEF Arrive, Move, queueVars
  <2>12. CASE LoseReplacement(w)
    BY <1>0, <2>12 DEF LoseReplacement, Move, queueVars
  <2>13. CASE CrashIdle(w)
    <3>1. CASE CrashSilent
      BY <1>0, <2>13, <3>1 DEF CrashIdle, CrashSilent, queueVars
    <3>2. CASE CrashReplace(w, << >>)
      BY <1>0, <2>13, <3>2 DEF CrashIdle, CrashReplace
    <3>3. CASE CrashAbort
      BY <1>0, <2>13, <3>3 DEF CrashIdle, CrashAbort
    <3> QED BY <2>13, <3>1, <3>2, <3>3 DEF CrashIdle
  <2>14. CASE Drained(w)
    BY <1>0, <2>14 DEF Drained, Move, queueVars
  <2> QED
    BY <1>2, <2>1, <2>2, <2>3, <2>4, <2>5, <2>6, <2>7, <2>8, <2>9, <2>10,
       <2>11, <2>12, <2>13, <2>14 DEF Slot
<1>3. ASSUME NEW p \in Plans, Push(p)
      PROVE  Control'
  <2>1. ASSUME p = << >>, NEW w \in Worker
        PROVE  queues[w] \o Share(p, w) = queues[w]
    <3>1. (NumWorkers - 1 - w) \div NumWorkers = 0
      BY NumWorkersAssumption DEF Worker
    <3>2. Len(p) + NumWorkers - 1 - w = NumWorkers - 1 - w
      BY <2>1, NumWorkersAssumption DEF Worker
    <3>3. Share(p, w) = << >>
      BY <3>1, <3>2 DEF Share
    <3> QED BY <1>0, <3>3
  <2> QED BY <1>0, <1>3, <2>1 DEF Push, PushBatches
<1>4. CASE StopDispatch
  BY <1>0, <1>4 DEF StopDispatch, Stop, clientVars
<1> QED BY <1>1, <1>2, <1>3, <1>4 DEF Next

\* The part that speaks of the tests.
Ownership == UniquePlace /\ SettledOnce /\ NothingLost

\* What a step must do to keep it: every slot keeps distinct tests it already
\* had, the tests S that ran or that a crash failed leave every slot, and
\* unless dispatching stops nothing else leaves.
LEMMA OwnershipKept ==
    ASSUME Ownership, NEW S,
           \/ ran' = ran \cup S /\ crashed' = crashed
           \/ ran' = ran /\ crashed' = crashed \cup S,
           pushed' = pushed, plan' = plan,
           \A t \in S : \E w \in Worker : t \in Tests(Pending(w)),
           \A v \in Worker : /\ Distinct(Pending(v)')
                             /\ Tests(Pending(v)') \subseteq Tests(Pending(v))
                             /\ S \cap Tests(Pending(v)') = {},
           \/ Refused'
           \/ /\ ~Refused
              /\ \A v \in Worker : Tests(Pending(v)) \subseteq Tests(Pending(v)') \cup S
    PROVE  Ownership'
<1>1. UniquePlace'
  BY DEF Ownership, UniquePlace
<1>2. SettledOnce'
  BY DEF Ownership, SettledOnce
<1>3. NothingLost'
  <2> SUFFICES ASSUME pushed, ~Refused', NEW t \in Tests(plan)
               PROVE  t \in ran' \cup crashed' \/ \E v \in Worker : t \in Tests(Pending(v)')
    BY DEF NothingLost, Tests
  <2>1. t \in ran \cup crashed \/ \E v \in Worker : t \in Tests(Pending(v))
    BY DEF Ownership, NothingLost
  <2> QED BY <2>1
<1> QED BY <1>1, <1>2, <1>3 DEF Ownership

\* The same for a step that settles no test.
LEMMA OwnershipNoneSettled ==
    ASSUME Ownership, UNCHANGED <<ran, crashed, pushed, plan>>,
           \A v \in Worker : /\ Distinct(Pending(v)')
                             /\ Tests(Pending(v)') \subseteq Tests(Pending(v)),
           \/ Refused'
           \/ /\ ~Refused
              /\ \A v \in Worker : Tests(Pending(v)) \subseteq Tests(Pending(v)')
    PROVE  Ownership'
<1> DEFINE S == {}
<1>1. /\ ran' = ran \cup S /\ crashed' = crashed
      /\ \A v \in Worker : S \cap Tests(Pending(v)') = {}
      /\ \A t \in S : \E w \in Worker : t \in Tests(Pending(w))
      /\ \A v \in Worker : Tests(Pending(v)) \subseteq Tests(Pending(v)') =>
                             Tests(Pending(v)) \subseteq Tests(Pending(v)') \cup S
  OBVIOUS
<1> HIDE DEF S
<1> QED BY <1>1, OwnershipKept

\* A step that moves no test keeps it.
LEMMA OwnershipFixed ==
    ASSUME Ownership,
           UNCHANGED <<queues, aborted, softStopped, held, pushed, plan, ran, crashed>>
    PROVE  Ownership'
BY DEF Ownership, UniquePlace, SettledOnce, NothingLost, Refused, Pending

\* Every step keeps it.
LEMMA StepOwnership ==
    ASSUME TypeOK, Control, Ownership, [Next]_vars
    PROVE  Ownership'
<1>0. /\ slot \in [Worker -> SlotState]
      /\ held \in [Worker -> Batch]
      /\ queues \in [Worker -> Seq(Batch)]
      /\ \A v \in Worker : Distinct(PendingOf(held[v], queues[v]))
      /\ << >> \in Batch
  BY DEF TypeOK, QueueTypeOK, Ownership, UniquePlace, Pending, Batch
<1>1. CASE UNCHANGED vars
  BY <1>1, OwnershipFixed DEF vars, clientVars, queueVars
<1>2. ASSUME NEW w \in Worker, Slot(w)
      PROVE  Ownership'
  <2>1. CASE UNCHANGED <<queues, aborted, softStopped, held, pushed, plan, ran, crashed>>
    BY <2>1, OwnershipFixed
  <2>2. CASE Take(w)
    <3>1. held[w] = << >> /\ queues[w] # << >> /\ queues[w] \in Seq(Batch)
      BY <1>0, <2>2 DEF Take, TakeBatch, Move, Control, HeldInWork
    <3>2. held'[w] = Head(queues[w]) /\ queues'[w] = Tail(queues[w])
      BY <1>0, <2>2 DEF Take, TakeBatch
    <3>3. /\ Distinct(Pending(w)')
          /\ Tests(Pending(w)') = Tests(Pending(w))
      BY <1>0, <3>1, <3>2, TakeMoves DEF Pending
    <3>4. \A v \in Worker \ {w} : Pending(v)' = Pending(v)
      BY <1>0, <2>2 DEF Take, TakeBatch, Pending
    <3>5. /\ UNCHANGED <<ran, crashed>>
          /\ pushed' = pushed /\ plan' = plan /\ ~Refused
      BY <2>2 DEF Take, TakeBatch
    <3>6. \A v \in Worker : /\ Distinct(Pending(v)')
                            /\ Tests(Pending(v)') = Tests(Pending(v))
      BY <3>3, <3>4 DEF Ownership, UniquePlace
    <3> QED BY <3>5, <3>6, OwnershipNoneSettled
  <2>3. CASE Complete(w)
    <3> DEFINE t == Head(held[w])
    <3>1. held[w] # << >> /\ held[w] \in Batch /\ queues[w] \in Seq(Batch)
      BY <1>0, <2>3 DEF Complete
    <3>2. held'[w] = Tail(held[w]) /\ queues'[w] = queues[w]
      BY <1>0, <2>3 DEF Complete, queueVars
    <3>3. /\ Distinct(Pending(w)')
          /\ t \in Tests(Pending(w))
          /\ Tests(Pending(w)') = Tests(Pending(w)) \ {t}
      BY <1>0, <3>1, <3>2, CompleteMoves DEF Pending
    <3>4. \A v \in Worker \ {w} : Pending(v)' = Pending(v)
      BY <1>0, <2>3 DEF Complete, Pending, queueVars
    <3>5. /\ ran' = ran \cup {t} /\ crashed' = crashed
          /\ pushed' = pushed /\ plan' = plan /\ Refused' = Refused
      BY <2>3 DEF Complete, queueVars, Refused
    <3>6. \A v \in Worker : /\ Distinct(Pending(v)')
                            /\ Tests(Pending(v)') = Tests(Pending(v)) \ {t}
      BY <3>3, <3>4 DEF Ownership, UniquePlace
    <3> QED BY <3>3, <3>5, <3>6, OwnershipKept
  <2>4. CASE /\ held' = [held EXCEPT ![w] = << >>]
             /\ UNCHANGED <<queues, aborted, softStopped, pushed, plan, ran, crashed>>
             /\ Refused
    <3>1. held'[w] = << >> /\ queues'[w] = queues[w]
      BY <1>0, <2>4
    <3>2. /\ Distinct(Pending(w)')
          /\ Tests(Pending(w)') \subseteq Tests(Pending(w))
      BY <1>0, <3>1, DropMoves DEF Pending
    <3>3. \A v \in Worker \ {w} : Pending(v)' = Pending(v)
      BY <1>0, <2>4 DEF Pending
    <3>4. /\ UNCHANGED <<ran, crashed>>
          /\ pushed' = pushed /\ plan' = plan /\ Refused'
      BY <2>4 DEF Refused
    <3>5. \A v \in Worker : /\ Distinct(Pending(v)')
                            /\ Tests(Pending(v)') \subseteq Tests(Pending(v))
      BY <3>2, <3>3 DEF Ownership, UniquePlace
    <3> QED BY <3>4, <3>5, OwnershipNoneSettled
  <2>5. CASE Finish(w) \/ CrashSilently(w)
    <3>1. CASE held[w] = << >>
      <4>1. held' = held
        BY <1>0, <2>5, <3>1 DEF Finish, CrashSilently
      <4> QED
        BY <2>1, <2>5, <4>1 DEF Finish, CrashSilently, CrashSilent, queueVars
    <3>2. CASE held[w] # << >>
      BY <2>4, <2>5, <3>2
         DEF Finish, CrashSilently, CrashSilent, Refused, queueVars
    <3> QED BY <3>1, <3>2
  <2>6. CASE CrashAndReplace(w)
    <3>1. CASE held[w] = << >>
      <4>1. held' = held
        BY <1>0, <2>6, <3>1 DEF CrashAndReplace
      <4>2. queues' = queues /\ crashed' = crashed
        BY <2>6, <3>1 DEF CrashAndReplace, CrashReplace, Remainder, Running
      <4> QED BY <2>1, <2>6, <4>1, <4>2 DEF CrashAndReplace, CrashReplace
    <3>2. CASE held[w] # << >>
      <4> DEFINE t == Head(held[w])
                 r == Tail(held[w])
      <4>1. /\ held[w] \in Batch /\ queues[w] \in Seq(Batch)
            /\ Remainder(w) = r /\ Running(w) = {t} /\ r \in Batch
        BY <1>0, <3>2 DEF Remainder, Running, Batch
      <4>2. /\ held'[w] = << >>
            /\ queues'[w] = IF r = << >> THEN queues[w] ELSE <<r>> \o queues[w]
        BY <1>0, <2>6, <4>1 DEF CrashAndReplace, CrashReplace
      <4>3. /\ Distinct(PendingOf(r, queues[w]))
            /\ t \in Tests(Pending(w))
            /\ Tests(PendingOf(r, queues[w])) = Tests(Pending(w)) \ {t}
        BY <1>0, <3>2, <4>1, CompleteMoves DEF Pending
      <4>4. /\ Distinct(Pending(w)')
            /\ Tests(Pending(w)') = Tests(Pending(w)) \ {t}
        <5>1. CASE r = << >>
          BY <4>2, <4>3, <5>1 DEF Pending
        <5>2. CASE r # << >>
          <6> HIDE DEF r
          <6> QED BY <4>1, <4>2, <4>3, <5>2, RequeueMoves DEF Pending
        <5> QED BY <5>1, <5>2
      <4>5. \A v \in Worker \ {w} : Pending(v)' = Pending(v)
        BY <1>0, <2>6 DEF CrashAndReplace, CrashReplace, Pending
      <4>6. /\ ran' = ran /\ crashed' = crashed \cup {t}
            /\ pushed' = pushed /\ plan' = plan /\ Refused' = Refused
        BY <2>6, <4>1 DEF CrashAndReplace, CrashReplace, Refused
      <4>7. \A v \in Worker : /\ Distinct(Pending(v)')
                              /\ Tests(Pending(v)') = Tests(Pending(v)) \ {t}
        BY <4>3, <4>4, <4>5 DEF Ownership, UniquePlace
      <4> QED BY <4>3, <4>6, <4>7, OwnershipKept
    <3> QED BY <3>1, <3>2
  <2>7. CASE CrashAndAbort(w)
    <3> DEFINE S == Running(w)
    <3>1. \A v \in Worker :
             /\ queues'[v] = << >>
             /\ held'[v] = IF v = w THEN << >> ELSE held[v]
      BY <1>0, <2>7 DEF CrashAndAbort, CrashAbort
    <3>2. Tests(Pending(w)') = {} /\ Distinct(Pending(w)')
      <4>1. Pending(w)' = PendingOf(<< >>, << >>)
        BY <3>1 DEF Pending
      <4>2. \A i \in DOMAIN PendingOf(<< >>, << >>) : PendingOf(<< >>, << >>)[i] = << >>
        BY DEF PendingOf
      <4>3. Tests(PendingOf(<< >>, << >>)) = {} /\ Distinct(PendingOf(<< >>, << >>))
        BY <4>2 DEF Tests, Distinct
      <4> QED BY <4>1, <4>3
    <3>3. \A v \in Worker \ {w} :
             /\ Distinct(Pending(v)')
             /\ Tests(Pending(v)') \subseteq Tests(Pending(v))
      BY <1>0, <3>1, ClearMoves DEF Pending
    <3>4. S \subseteq Tests(Pending(w))
      BY <1>0, CompleteMoves DEF Running, Pending
    <3>5. /\ ran' = ran /\ crashed' = crashed \cup S
          /\ pushed' = pushed /\ plan' = plan /\ Refused'
      BY <2>7 DEF CrashAndAbort, CrashAbort, Refused
    <3>6. \A v \in Worker : /\ Distinct(Pending(v)')
                            /\ Tests(Pending(v)') \subseteq Tests(Pending(v))
                            /\ S \cap Tests(Pending(v)') = {}
      BY <3>2, <3>3, <3>4 DEF Ownership, UniquePlace
    <3> HIDE DEF S
    <3> QED BY <3>4, <3>5, <3>6, OwnershipKept
  <2>8. CASE CrashIdle(w)
    <3>1. CASE CrashSilent \/ CrashReplace(w, << >>)
      BY <2>1, <2>8, <3>1 DEF CrashIdle, CrashSilent, CrashReplace, queueVars
    <3>2. CASE CrashAbort
      <4>1. \A v \in Worker : queues'[v] = << >> /\ held'[v] = held[v]
        BY <2>8, <3>2 DEF CrashIdle, CrashAbort
      <4>2. \A v \in Worker : /\ Distinct(Pending(v)')
                              /\ Tests(Pending(v)') \subseteq Tests(Pending(v))
        BY <1>0, <4>1, ClearMoves DEF Pending
      <4>3. /\ UNCHANGED <<ran, crashed>>
            /\ pushed' = pushed /\ plan' = plan /\ Refused'
        BY <2>8, <3>2 DEF CrashIdle, CrashAbort, Refused
      <4> QED BY <4>2, <4>3, OwnershipNoneSettled
    <3> QED BY <2>8, <3>1, <3>2 DEF CrashIdle
  <2>9. CASE \/ Collected(w) \/ Unavailable(w) \/ CrashedCollecting(w)
             \/ Refuse(w) \/ Arrive(w) \/ LoseReplacement(w) \/ Drained(w)
    BY <2>1, <2>9
       DEF Collected, Unavailable, CrashedCollecting, Refuse, NoBatch, Arrive,
           LoseReplacement, Drained, queueVars
  <2> QED
    BY <1>2, <2>2, <2>3, <2>5, <2>6, <2>7, <2>8, <2>9 DEF Slot
<1>3. ASSUME NEW p \in Plans, Push(p)
      PROVE  Ownership'
  <2>1. CASE Refused
    <3>1. queues' = queues /\ held' = held /\ ran' = ran /\ crashed' = crashed /\ Refused'
      BY <1>3, <2>1 DEF Push, PushBatches, Refused
    <3> QED
      BY <3>1 DEF Ownership, UniquePlace, SettledOnce, NothingLost, Pending
  <2>2. CASE ~Refused
    <3>1. p \in Seq(Batch) /\ Distinct(p)
      BY PlansAssumption
    <3>2. /\ ran = {} /\ crashed = {} /\ ran' = {} /\ crashed' = {} /\ plan' = p
          /\ \A v \in Worker : queues[v] = << >> /\ held'[v] = << >>
      BY <1>3 DEF Push, Control, NothingBeforePush
    <3>3. \A v \in Worker : queues'[v] = Share(p, v)
      <4> TAKE v \in Worker
      <4>1. queues'[v] = << >> \o Share(p, v)
        BY <1>3, <2>2, <3>2 DEF Push, PushBatches, Refused
      <4>2. Share(p, v) \in Seq(Batch)
        BY <3>1, ShareType
      <4> QED BY <4>1, <4>2
    <3>4. \A v \in Worker : Pending(v)' = PendingOf(<< >>, Share(p, v))
      BY <3>2, <3>3 DEF Pending
    <3>5. UniquePlace'
      <4>1. \A v \in Worker : Distinct(Pending(v)')
        BY <3>1, <3>4, PushMoves
      <4>2. ASSUME NEW w \in Worker, NEW v \in Worker, w # v,
                   NEW t \in Tests(PendingOf(<< >>, Share(p, w))),
                   t \in Tests(PendingOf(<< >>, Share(p, v)))
            PROVE  FALSE
        <5>1. PICK k \in DOMAIN Share(p, w) : \E j \in DOMAIN Share(p, w)[k] : Share(p, w)[k][j] = t
          BY <3>1, PushMoves
        <5>2. PICK l \in DOMAIN Share(p, v) : \E j \in DOMAIN Share(p, v)[l] : Share(p, v)[l][j] = t
          BY <3>1, <4>2, PushMoves
        <5>3. /\ (k - 1) * NumWorkers + w + 1 \in DOMAIN p
              /\ Share(p, w)[k] = p[(k - 1) * NumWorkers + w + 1]
              /\ (l - 1) * NumWorkers + v + 1 \in DOMAIN p
              /\ Share(p, v)[l] = p[(l - 1) * NumWorkers + v + 1]
          BY <3>1, ShareDomain
        <5>4. (k - 1) * NumWorkers + w + 1 = (l - 1) * NumWorkers + v + 1
          BY <3>1, <5>1, <5>2, <5>3 DEF Distinct
        <5> QED BY <3>1, <4>2, <5>4, ShareUnique
      <4> QED BY <3>4, <4>1, <4>2 DEF UniquePlace
    <3>6. SettledOnce'
      BY <3>2 DEF SettledOnce
    <3>7. NothingLost'
      <4> SUFFICES ASSUME NEW t \in Tests(p)
                   PROVE  \E v \in Worker : t \in Tests(PendingOf(<< >>, Share(p, v)))
        BY <3>2, <3>4 DEF NothingLost
      <4>1. PICK i \in DOMAIN p : \E j \in DOMAIN p[i] : p[i][j] = t
        BY DEF Tests
      <4>2. PICK v \in Worker : \E k \in DOMAIN Share(p, v) : Share(p, v)[k] = p[i]
        BY <3>1, ShareCovers
      <4>3. t \in Test
        BY DEF Tests
      <4> QED BY <3>1, <4>1, <4>2, <4>3, PushMoves
    <3> QED BY <3>5, <3>6, <3>7 DEF Ownership
  <2> QED BY <2>1, <2>2
<1>4. CASE StopDispatch
  <2>1. \A v \in Worker : queues'[v] = << >> /\ held'[v] = held[v]
    BY <1>4 DEF StopDispatch, Stop, clientVars
  <2>2. \A v \in Worker : /\ Distinct(Pending(v)')
                          /\ Tests(Pending(v)') \subseteq Tests(Pending(v))
    BY <1>0, <2>1, ClearMoves DEF Pending
  <2>3. /\ UNCHANGED <<ran, crashed>>
        /\ pushed' = pushed /\ plan' = plan /\ Refused'
    BY <1>4 DEF StopDispatch, Stop, clientVars, Refused
  <2> QED BY <2>2, <2>3, OwnershipNoneSettled
<1> QED BY <1>1, <1>2, <1>3, <1>4 DEF Next

\* A run starts with nothing queued, held or settled.
LEMMA InitIndInv == Init => IndInv
<1> SUFFICES ASSUME Init
             PROVE  IndInv
  OBVIOUS
<1>1. TypeOK
  BY InitType
<1>2. \A w \in Worker : Tests(Pending(w)) = {} /\ Distinct(Pending(w))
  BY DEF Init, QueueInit, Pending, PendingOf, Tests, Distinct
<1> QED
  BY <1>1, <1>2
     DEF IndInv, Init, QueueInit, NothingBeforePush, HeldInWork, GoneEmpty,
         AbortedEmpty, UniquePlace, SettledOnce, NothingLost

\* Every step keeps the whole invariant.
LEMMA StepIndInv == IndInv /\ [Next]_vars => IndInv'
<1>1. IndInv <=> TypeOK /\ Control /\ Ownership
  BY DEF IndInv, Control, Ownership
<1>2. IndInv' <=> TypeOK' /\ Control' /\ Ownership'
  BY DEF IndInv, Control, Ownership
<1> QED BY <1>1, <1>2, StepType, StepControl, StepOwnership

\* The inductive invariant holds throughout: ownership, what is settled and
\* where the owners are fit together in every reachable state.
THEOREM Inductive == Spec => []IndInv
BY InitIndInv, StepIndInv, PTL DEF Spec

-----------------------------------------------------------------------------
(* What it gives. *)

\* No test is ever pending at two slots, nor twice at one: crashes, requeues
\* and the round-robin distribution cannot make two workers run one test.
THEOREM ExclusiveOwnership == Spec => []UniquePlace
BY Inductive, PTL DEF IndInv

\* A test that ran, or that a crash failed, is settled for good.
THEOREM NeverRunAgain == Spec => []SettledOnce
BY Inductive, PTL DEF IndInv

\* Exhausting the restart budget leaves no batch in any queue.
THEOREM AbortEmptiesQueues == Spec => []AbortedEmpty
BY Inductive, PTL DEF IndInv

\* Until dispatching stops no pushed test disappears.
THEOREM Conservation == Spec => []NothingLost
BY Inductive, PTL DEF IndInv

\* A run that was never stopped settles every test: an owner that leaves its
\* work loop leaves no batch behind, unless its replacement was lost.
THEOREM EveryTestSettled == Spec => []AllSettled
<1>1. IndInv => AllSettled
  <2> SUFFICES ASSUME IndInv, pushed, ~Refused,
                      \A w \in Worker : slot[w] \in {"drain", "ended"}
               PROVE  Tests(plan) \subseteq ran \cup crashed
    BY DEF AllSettled
  <2>1. ASSUME NEW w \in Worker
        PROVE  Tests(Pending(w)) = {}
    <3>1. queues[w] = << >> /\ held[w] = << >>
      BY DEF IndInv, GoneEmpty, HeldInWork
    <3>2. \A i \in DOMAIN Pending(w) : Pending(w)[i] = << >>
      BY <3>1 DEF Pending, PendingOf
    <3> QED BY <3>2 DEF Tests
  <2> QED BY <2>1 DEF IndInv, NothingLost
<1> QED BY <1>1, Inductive, PTL

\* Once dispatching has stopped or aborted no slot starts another batch, not
\* even one that a crash requeued after the stop.
THEOREM StopIsFinal == Spec => NoBatchAfterStop
<1>1. ASSUME TypeOK, [Next]_vars, Refused, NEW v \in Worker
      PROVE  \/ held'[v] \in {held[v], << >>}
             \/ held[v] # << >> /\ held'[v] = Tail(held[v])
  <2>0. held \in [Worker -> Batch]
    BY <1>1 DEF TypeOK
  <2>1. CASE UNCHANGED held
    BY <2>1
  <2>2. ASSUME NEW w \in Worker, Complete(w)
        PROVE  (held[v] # << >> /\ held'[v] = Tail(held[v])) \/ held'[v] = held[v]
    BY <2>0, <2>2 DEF Complete
  <2>3. ASSUME NEW w \in Worker, held' = [held EXCEPT ![w] = << >>]
        PROVE  held'[v] \in {held[v], << >>}
    BY <2>0, <2>3
  <2>4. ASSUME NEW w \in Worker, Take(w)
        PROVE  FALSE
    BY <1>1, <2>4 DEF Take, TakeBatch
  <2>5. CASE \E w \in Worker : Slot(w)
    BY <2>1, <2>2, <2>3, <2>4, <2>5
       DEF Slot, Collected, Unavailable, CrashedCollecting, Refuse, Finish,
           CrashAndReplace, CrashAndAbort, CrashSilently, Arrive,
           LoseReplacement, CrashIdle, Drained
  <2>6. CASE (\E p \in Plans : Push(p)) \/ StopDispatch \/ UNCHANGED vars
    BY <2>1, <2>6 DEF Push, StopDispatch, clientVars, vars
  <2> QED BY <1>1, <2>5, <2>6 DEF Next
<1>2. TypeOK /\ [Next]_vars
        => [Refused => \A w \in Worker :
                \/ held'[w] \in {held[w], << >>}
                \/ held[w] # << >> /\ held'[w] = Tail(held[w])]_vars
  BY <1>1
<1> QED BY <1>2, TypeCorrect, PTL DEF Spec, NoBatchAfterStop
=============================================================================
