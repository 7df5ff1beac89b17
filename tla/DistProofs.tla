----------------------------- MODULE DistProofs -----------------------------
(***************************************************************************)
(* Theorems about the distributed run (Dist), for every number of workers, *)
(* every collection and every pattern of deaths, spawn failures, test      *)
(* outcomes and limits; among them that it implements its abstract         *)
(* specification (Scheduler).                                              *)
(*                                                                         *)
(* The argument for that is an account of every slot (Tally): what its     *)
(* owner holds, what its worker has still to run and what the frames       *)
(* between them say of it fit together, so that a teardown report is       *)
(* always that of the first test left and a batch is over when its "done"  *)
(* is read.  An account of the collections (Awaited, Virgin, EmptyTold)    *)
(* shows that the batches are pushed once, and to slots that can run them. *)
(***************************************************************************)
EXTENDS Dist, QueueProofs, SequenceTheorems

-----------------------------------------------------------------------------
(* What travels in the pipes and the channel. *)

Reports == [kind : {"report"}, test : Test, failed : BOOLEAN,
            phase : {"setup", "call", "teardown", "scope", "crash"}]
Collections == [kind : {"collection"}, ids : CollectChoices \cup {<< >>}]
Interrupts == [kind : {"interrupted"}, code : Int]
Frames == Reports \cup Collections \cup Interrupts \cup {Done, Bye}
Events == Reports \cup Collections \cup Interrupts \cup {Banner}
Messages == [kind : {"run"}, ids : Batch \ {<< >>}] \cup {Workerinput, Shutdown}

Processes == [st : ProcState, batch : Batch, items : SUBSET Test,
              failed : Nat, code : Int \cup {None}, last : Batch]
Verdicts == [action : {"none", "silent", "replace", "abort"},
             running : Batch, replace : BOOLEAN]

(* The types, finer than TypeOK: no batch is empty, and a process that is  *)
(* at an item has one.                                                     *)
QueueTypes == QueueTypeOK /\ \A w \in Worker : \A i \in DOMAIN queues[w] : queues[w][i] # << >>

OwnerTypes ==
    /\ pc \in [Worker -> PcState]
    /\ held \in [Worker -> Batch]
    /\ verdict \in [Worker -> Verdicts]
    /\ \A w \in Worker : pc[w] = "send" => held[w] # << >>

ProcessTypes ==
    /\ proc \in [Worker -> Processes]
    /\ crashes \in 0 .. MaxCrash
    /\ \A w \in Worker : proc[w].st \in {"item", "body", "teardown"} => proc[w].batch # << >>

PipeTypes == inp \in [Worker -> Seq(Messages)] /\ out \in [Worker -> Seq(Frames)]

MergeTypes ==
    /\ merge \in [at : {"recv", "count"}, pending : 0 .. NumWorkers, got : BOOLEAN,
                  first : CollectChoices \cup {<< >>}, failed : Nat, hit : BOOLEAN,
                  override : Int \cup {None}, banner : BOOLEAN]
    /\ IsABag(reports)
    /\ exit \in Int \cup {None}

Types ==
    /\ QueueTypes
    /\ OwnerTypes
    /\ ProcessTypes
    /\ PipeTypes
    /\ events \in Seq(Events)
    /\ MergeTypes

\* A frame of a kind has the fields of that kind.
LEMMA Kinds ==
    /\ \A f \in Frames \cup Events :
          /\ f.kind = "report" => f \in Reports
          /\ f.kind = "collection" => f \in Collections
          /\ f.kind = "interrupted" => f \in Interrupts
    /\ \A m \in Messages : m.kind = "run" => m.ids \in Batch /\ m.ids # << >>
    /\ Workerinput.kind # "run" /\ Shutdown.kind # "run"
BY DEF Frames, Events, Messages, Reports, Collections, Interrupts, Done, Bye, Banner,
       Workerinput, Shutdown

LEMMA Built ==
    /\ \A t \in Test, p \in {"setup", "call", "teardown", "scope", "crash"}, f \in BOOLEAN :
          Report(t, p, f) \in Reports
    /\ \A ids \in CollectChoices \cup {<< >>} : Collection(ids) \in Collections
    /\ \A c \in Int : Interrupted(c) \in Interrupts
    /\ \A ids \in Batch : ids # << >> => Run(ids) \in Messages
    /\ Workerinput \in Messages /\ Shutdown \in Messages
BY DEF Reports, Collections, Interrupts, Messages, Report, Collection, Interrupted, Run

\* A new process.
LEMMA NewProcess ==
    ASSUME NEW st \in ProcState
    PROVE  Process(st) \in Processes /\ Process(st).st = st
BY DEF Process, Processes, Batch

LEMMA InitTypes == Init => Types
<1> SUFFICES ASSUME Init PROVE Types
  OBVIOUS
<1> USE DEF Init
<1>1. << >> \in Batch /\ CollectChoices \subseteq Batch
  BY DistAssumption DEF Batch
<1>2. QueueTypes
  <2>1. << >> \in Seq(Batch) /\ \A i \in DOMAIN << >> : FALSE
    OBVIOUS
  <2> QED
    BY <2>1, MaxRestartAssumption DEF QueueInit, QueueTypes, QueueTypeOK
<1>3. OwnerTypes
  BY <1>1 DEF OwnerTypes, PcState, Verdicts, NoVerdict
<1>4. ProcessTypes
  <2>1. {"input", "gone"} \subseteq ProcState
    BY DEF ProcState
  <2>2. \A w \in Worker : proc[w] \in Processes /\ proc[w].st \in {"input", "gone"}
    BY <2>1, NewProcess
  <2> QED
    BY <2>2, DistAssumption DEF ProcessTypes
<1>5. PipeTypes /\ events \in Seq(Events)
  BY DEF PipeTypes
<1>6. MergeTypes
  BY NumWorkersAssumption DEF MergeTypes, IsABag, EmptyBag, SetToBag
<1> QED
  BY <1>2, <1>3, <1>4, <1>5, <1>6 DEF Types

-----------------------------------------------------------------------------
(* The steps of a worker process keep the types. *)

\* It writes frames and becomes another process.
LEMMA SendBecome ==
    ASSUME ProcessTypes, PipeTypes, NEW w \in Worker, NEW fs \in Seq(Frames), NEW p \in Processes,
           Send(w, fs), Become(w, p), UNCHANGED <<inp, crashes>>,
           p.st \in {"item", "body", "teardown"} => p.batch # << >>
    PROVE  ProcessTypes' /\ PipeTypes'
BY DEF ProcessTypes, PipeTypes, Send, Become

\* It reads its input and becomes another process.
LEMMA ReadBecome ==
    ASSUME ProcessTypes, PipeTypes, NEW w \in Worker, NEW p \in Processes, inp[w] # << >>,
           inp' = [inp EXCEPT ![w] = Tail(@)], Become(w, p), UNCHANGED <<out, crashes>>,
           p.st \in {"item", "body", "teardown"} => p.batch # << >>
    PROVE  ProcessTypes' /\ PipeTypes'
BY DEF ProcessTypes, PipeTypes, Become

LEMMA RepeatType ==
    ASSUME NEW Elem, NEW x \in Elem, NEW n \in Nat
    PROVE  [i \in 1 .. n |-> x] \in Seq(Elem)
OBVIOUS

LEMMA FewFrames ==
    /\ << >> \in Seq(Frames)
    /\ \A f, g \in Frames : <<f>> \in Seq(Frames) /\ <<f, g>> \in Seq(Frames)
OBVIOUS

\* The reports of scope teardowns that fail.
LEMMA ScopeReports ==
    ASSUME ProcessTypes, NEW w \in Worker, NEW n \in Nat
    PROVE  ScopeFailures(w, n) \in Seq(Reports)
<1>1. CASE proc[w].last = << >>
  BY <1>1 DEF ScopeFailures
<1>2. CASE proc[w].last # << >>
  <2>1. proc[w].last[1] \in Test
    BY <1>2 DEF ProcessTypes, Processes, Batch
  <2>2. Report(proc[w].last[1], "scope", TRUE) \in Reports
    BY <2>1, Built
  <2>3. [i \in 1 .. n |-> Report(proc[w].last[1], "scope", TRUE)] \in Seq(Reports)
    BY <2>2, RepeatType
  <2> QED
    BY <1>2, <2>3 DEF ScopeFailures
<1> QED
  BY <1>1, <1>2

LEMMA ScopeFailuresType ==
    ASSUME ProcessTypes, NEW w \in Worker, NEW n \in Nat
    PROVE  ScopeFailures(w, n) \in Seq(Frames)
<1>1. \A fs \in Seq(Reports) : fs \in Seq(Frames)
  BY DEF Frames
<1> QED
  BY <1>1, ScopeReports

LEMMA WorkerTypes ==
    ASSUME ProcessTypes, PipeTypes, NEW w \in Worker, WorkerStep(w)
    PROVE  ProcessTypes' /\ PipeTypes'
<1> DEFINE p == proc[w]
<1> USE DEF ProcessOnly
<1>a. p \in Processes /\ inp[w] \in Seq(Messages) /\ out[w] \in Seq(Frames)
  BY DEF ProcessTypes, PipeTypes
<1>b. p.st \in {"item", "body", "teardown"} => Head(p.batch) \in Test /\ Tail(p.batch) \in Batch
  BY DEF ProcessTypes, Processes, Batch
<1>1. CASE ReadInput(w)
  <2>1. Process("collecting") \in Processes /\ Process("collecting").st = "collecting"
    BY NewProcess DEF ProcState
  <2> QED
    BY <1>1, <2>1, ReadBecome DEF ReadInput
<1>2. CASE Collect(w)
  <2>1. PICK ids \in CollectChoices :
          /\ Send(w, <<Collection(ids)>>)
          /\ Become(w, [Process("idle") EXCEPT !.items = {ids[i] : i \in DOMAIN ids}])
    BY <1>2 DEF Collect
  <2>2. {ids[i] : i \in DOMAIN ids} \subseteq Test
    BY DistAssumption
  <2>3. [Process("idle") EXCEPT !.items = {ids[i] : i \in DOMAIN ids}] \in Processes
    <3>1. Process("idle") \in Processes
      BY NewProcess DEF ProcState
    <3> QED
      BY <2>2, <3>1 DEF Processes
  <2>4. [Process("idle") EXCEPT !.items = {ids[i] : i \in DOMAIN ids}].st = "idle"
    BY DEF Process
  <2>5. <<Collection(ids)>> \in Seq(Frames)
    BY Built DEF Frames
  <2> QED
    BY <1>2, <2>1, <2>3, <2>4, <2>5, SendBecome DEF Collect
<1>3. CASE ReadRun(w)
  <2>1. Head(inp[w]).ids \in Batch /\ Head(inp[w]).ids # << >>
    BY <1>3, <1>a, Kinds DEF ReadRun
  <2> DEFINE q == [p EXCEPT !.st = "item", !.batch = Head(inp[w]).ids]
  <2>2. q \in Processes /\ q.batch # << >>
    BY <2>1, <1>a DEF Processes, ProcState
  <2> QED
    BY <1>3, <2>2, ReadBecome DEF ReadRun
<1>4. CASE Uncollected(w)
  <2> DEFINE q == [p EXCEPT !.batch = Tail(p.batch),
                            !.st = IF Tail(p.batch) = << >> THEN "batchEnd" ELSE "item"]
             fs == <<Report(Head(p.batch), "setup", TRUE), Report(Head(p.batch), "teardown", FALSE)>>
  <2>1. p.st = "item" /\ Send(w, fs) /\ Become(w, q) /\ UNCHANGED <<inp, crashes>>
    BY <1>4 DEF Uncollected
  <2>2. q \in Processes
    BY <1>a, <1>b, <2>1 DEF Processes, ProcState
  <2>3. q.st \in {"item", "body", "teardown"} => q.batch # << >>
    BY <1>a DEF Processes
  <2>4. fs \in Seq(Frames)
    <3>1. Report(Head(p.batch), "setup", TRUE) \in Reports
      BY <1>b, <2>1 DEF Report, Reports
    <3>2. Report(Head(p.batch), "teardown", FALSE) \in Reports
      BY <1>b, <2>1 DEF Report, Reports
    <3>3. Reports \subseteq Frames
      BY DEF Frames
    <3> QED
      BY <3>1, <3>2, <3>3, FewFrames
  <2> QED
    BY <2>1, <2>2, <2>3, <2>4, SendBecome
<1>5. CASE Scopes(w)
  <2>1. PICK n \in ScopeFails : Send(w, ScopeFailures(w, n))
    BY <1>5 DEF Scopes
  <2>2. ScopeFailures(w, n) \in Seq(Frames)
    BY ScopeFailuresType, DistAssumption
  <2> DEFINE q == [p EXCEPT !.st = "body"]
  <2>3. q \in Processes /\ q.batch # << >>
    BY <1>5, <1>a DEF Scopes, Processes, ProcState, ProcessTypes
  <2> QED
    BY <1>5, <2>1, <2>2, <2>3, SendBecome DEF Scopes
<1>6. CASE Body(w)
  <2>1. p.st = "body" /\ p.batch # << >>
    BY <1>6 DEF Body, ProcessTypes
  <2> DEFINE q(o) == [p EXCEPT !.st = "teardown",
                               !.failed = IF o = "fail" THEN @ + 1 ELSE @,
                               !.code = IF o = "exit" THEN ReturnCode ELSE @]
             fs(o) == IF o = "exit" THEN << >> ELSE <<Report(Head(p.batch), "call", o = "fail")>>
  <2>2. PICK o \in Outcomes : Send(w, fs(o)) /\ Become(w, q(o))
    BY <1>6 DEF Body
  <2>3. q(o) \in Processes /\ q(o).batch # << >>
    <3>1. (IF o = "fail" THEN p.failed + 1 ELSE p.failed) \in Nat
      BY <1>a DEF Processes
    <3>2. (IF o = "exit" THEN ReturnCode ELSE p.code) \in Int \cup {None}
      BY <1>a, DistAssumption DEF Processes
    <3> QED
      BY <1>a, <2>1, <3>1, <3>2 DEF Processes, ProcState
  <2>4. fs(o) \in Seq(Frames)
    <3>1. Report(Head(p.batch), "call", o = "fail") \in Reports
      <4> DEFINE f == o = "fail"
      <4>1. f \in BOOLEAN
        OBVIOUS
      <4> HIDE DEF f
      <4>2. Report(Head(p.batch), "call", f) \in Reports
        BY <1>b, <2>1, <4>1 DEF Report, Reports
      <4> QED
        BY <4>2 DEF f
    <3>2. Reports \subseteq Frames
      BY DEF Frames
    <3> QED
      BY <3>1, <3>2, FewFrames
  <2> HIDE DEF q, fs
  <2> QED
    BY <1>6, <2>2, <2>3, <2>4, SendBecome DEF Body
<1>7. CASE Teardown(w)
  <2> DEFINE failed(f) == IF f THEN p.failed + 1 ELSE p.failed
             rest(f) == IF LimitReached(failed(f)) THEN << >> ELSE Tail(p.batch)
             q(f) == [p EXCEPT !.st = IF rest(f) = << >> THEN "batchEnd" ELSE "item",
                               !.batch = rest(f), !.failed = failed(f), !.last = <<Head(p.batch)>>]
             fs(f) == <<Report(Head(p.batch), "teardown", f)>>
  <2>1. PICK f \in TeardownFails : Send(w, fs(f)) /\ Become(w, q(f))
    BY <1>7 DEF Teardown
  <2>2. p.st = "teardown" /\ f \in BOOLEAN
    BY <1>7, DistAssumption DEF Teardown
  <2>3. failed(f) \in Nat
    BY <1>a, <2>2 DEF Processes
  <2>4. rest(f) \in Batch /\ <<Head(p.batch)>> \in Batch
    BY <1>b, <2>2 DEF Batch
  <2>5. fs(f) \in Seq(Frames)
    BY <1>b, <2>2, Built DEF Frames
  <2> HIDE DEF failed, rest, fs
  <2>6. q(f) \in Processes /\ (q(f).st \in {"item", "body", "teardown"} => q(f).batch # << >>)
    BY <1>a, <2>3, <2>4 DEF Processes, ProcState
  <2> HIDE DEF q
  <2> QED
    BY <1>7, <2>1, <2>5, <2>6, SendBecome DEF Teardown
<1>8. CASE BatchEnd(w)
  <2> DEFINE leaving == [p EXCEPT !.st = "leaving"]
             idle == [p EXCEPT !.st = "idle"]
  <2>1. /\ leaving \in Processes /\ leaving.st = "leaving"
        /\ idle \in Processes /\ idle.st = "idle"
    BY <1>a DEF Processes, ProcState
  <2>2. \A c \in Int : <<Interrupted(c)>> \in Seq(Frames)
    BY Built DEF Frames
  <2>3. TESTS_FAILED \in Int /\ (p.code # None => p.code \in Int) /\ <<Done>> \in Seq(Frames)
    BY <1>a DEF TESTS_FAILED, Processes, Frames
  <2>4. \/ \E c \in Int : Send(w, <<Interrupted(c)>>) /\ Become(w, leaving)
        \/ Send(w, <<Done>>) /\ Become(w, idle)
    BY <1>8, <2>3 DEF BatchEnd
  <2>5. UNCHANGED <<inp, crashes>>
    BY <1>8 DEF BatchEnd
  <2> HIDE DEF leaving, idle
  <2> QED
    BY <2>1, <2>2, <2>3, <2>4, <2>5, SendBecome
<1>9. CASE Leave(w)
  <2> DEFINE q == [p EXCEPT !.st = "final"]
  <2>1. q \in Processes /\ q.st = "final" /\ <<Done>> \in Seq(Frames)
    BY <1>a DEF Processes, ProcState, Frames
  <2> QED
    BY <1>9, <2>1, SendBecome DEF Leave
<1>10. CASE ReadShutdown(w)
  <2> DEFINE q == [p EXCEPT !.st = "final"]
  <2>1. q \in Processes /\ q.st = "final"
    BY <1>a DEF Processes, ProcState
  <2> QED
    BY <1>10, <2>1, ReadBecome DEF ReadShutdown
<1>11. CASE FinalTeardown(w)
  <2>1. PICK n \in ScopeFails : Send(w, ScopeFailures(w, n))
    BY <1>11 DEF FinalTeardown
  <2>2. ScopeFailures(w, n) \in Seq(Frames)
    BY ScopeFailuresType, DistAssumption
  <2> DEFINE q == [p EXCEPT !.st = "bye"]
  <2>3. q \in Processes /\ q.st = "bye"
    BY <1>a DEF Processes, ProcState
  <2> QED
    BY <1>11, <2>1, <2>2, <2>3, SendBecome DEF FinalTeardown
<1>12. CASE SayBye(w)
  <2> DEFINE q == [p EXCEPT !.st = "exiting"]
  <2>1. q \in Processes /\ q.st = "exiting" /\ <<Bye>> \in Seq(Frames)
    BY <1>a DEF Processes, ProcState, Frames
  <2> QED
    BY <1>12, <2>1, SendBecome DEF SayBye
<1>13. CASE Exit(w)
  <2>1. Process("gone") \in Processes /\ Process("gone").st = "gone"
    BY NewProcess DEF ProcState
  <2> QED
    BY <1>13, <2>1 DEF Exit, Become, ProcessTypes, PipeTypes
<1> QED
  BY <1>1, <1>2, <1>3, <1>4, <1>5, <1>6, <1>7, <1>8, <1>9, <1>10, <1>11, <1>12, <1>13 DEF WorkerStep

-----------------------------------------------------------------------------
(* The steps of the queue, an owner and the merge loop keep the types.     *)

\* Taking a batch, requeueing a remainder and clearing the queues.
LEMMA QueueStepTypes ==
    ASSUME QueueTypes, NEW w \in Worker, NEW remaining \in Batch,
           \/ TakeBatch(w) \/ NoBatch(w) \/ Stop
           \/ CrashSilent \/ CrashReplace(w, remaining) \/ CrashAbort
    PROVE  QueueTypes'
<1> USE DEF QueueTypes, QueueTypeOK
<1>0. << >> \in Seq(Batch) /\ \A i \in DOMAIN << >> : FALSE
  OBVIOUS
<1>1. CASE TakeBatch(w)
  <2>1. queues[w] \in Seq(Batch) /\ queues[w] # << >>
    BY <1>1 DEF TakeBatch
  <2>2. /\ Tail(queues[w]) \in Seq(Batch)
        /\ \A i \in DOMAIN Tail(queues[w]) : Tail(queues[w])[i] = queues[w][i + 1] /\ i + 1 \in DOMAIN queues[w]
    BY <2>1
  <2> QED
    BY <1>1, <2>2 DEF TakeBatch
<1>2. CASE NoBatch(w)
  BY <1>2 DEF NoBatch, queueVars
<1>3. CASE Stop
  BY <1>0, <1>3 DEF Stop
<1>4. CASE CrashSilent
  BY <1>4 DEF CrashSilent, queueVars
<1>5. CASE CrashReplace(w, remaining)
  <2>1. queues[w] \in Seq(Batch) /\ restarts - 1 \in Int
    OBVIOUS
  <2>2. CASE remaining = << >>
    BY <1>5, <2>1, <2>2 DEF CrashReplace
  <2>3. CASE remaining # << >>
    <3> DEFINE q == <<remaining>> \o queues[w]
    <3>1. q \in Seq(Batch)
      BY <2>1
    <3>2. \A i \in DOMAIN q : q[i] = IF i = 1 THEN remaining ELSE queues[w][i - 1]
      BY <2>1
    <3>3. \A i \in DOMAIN q : i # 1 => i - 1 \in DOMAIN queues[w]
      BY <2>1
    <3>4. \A i \in DOMAIN q : q[i] # << >>
      BY <2>3, <3>2, <3>3
    <3>5. queues' = [queues EXCEPT ![w] = q]
      BY <1>5, <2>3 DEF CrashReplace
    <3> HIDE DEF q
    <3> QED
      BY <1>5, <2>1, <3>1, <3>4, <3>5 DEF CrashReplace
  <2> QED
    BY <2>2, <2>3
<1>6. CASE CrashAbort
  BY <1>0, <1>6 DEF CrashAbort
<1> QED
  BY <1>1, <1>2, <1>3, <1>4, <1>5, <1>6

LEMMA PostType ==
    ASSUME events \in Seq(Events), NEW es \in Seq(Events), Post(es)
    PROVE  events' \in Seq(Events)
BY DEF Post

\* The owner reads a frame, writes a message, goes on.
LEMMA PopType ==
    ASSUME PipeTypes, NEW w \in Worker, out[w] # << >>, Pop(w)
    PROVE  /\ out' \in [Worker -> Seq(Frames)]
           /\ Head(out[w]) \in Frames
BY DEF PipeTypes, Pop

LEMMA WriteType ==
    ASSUME PipeTypes, NEW w \in Worker, NEW m \in Messages, Write(w, m)
    PROVE  inp' \in [Worker -> Seq(Messages)]
BY DEF PipeTypes, Write

LEMMA FewEvents ==
    /\ << >> \in Seq(Events)
    /\ \A e, f \in Events : <<e>> \in Seq(Events) /\ <<e>> \o <<f>> \in Seq(Events)
    /\ \A e \in Events : <<e>> \o << >> \in Seq(Events) /\ << >> \o <<e>> \in Seq(Events)
    /\ << >> \o << >> \in Seq(Events)
OBVIOUS

\* Posting a frame that was read.
LEMMA ForwardType ==
    ASSUME events \in Seq(Events), NEW f \in Frames, f.kind \in {"report", "collection", "interrupted"},
           Post(<<f>>)
    PROVE  events' \in Seq(Events)
<1>1. f \in Events
  BY Kinds DEF Events
<1> QED
  BY <1>1, PostType, FewEvents

\* The empty collection in the place of a worker's.
LEMMA EmptyCollectionType ==
    ASSUME events \in Seq(Events), Post(<<Collection(<< >>)>>)
    PROVE  events' \in Seq(Events)
<1>1. Collection(<< >>) \in Events
  BY DEF Collection, Collections, Events
<1> QED
  BY <1>1, PostType, FewEvents

\* A worker is started: a process that has not written anything yet.
LEMMA SpawnType ==
    ASSUME ProcessTypes, NEW w \in Worker, Become(w, Process("collecting")), UNCHANGED crashes
    PROVE  ProcessTypes'
<1>1. Process("collecting") \in Processes /\ Process("collecting").st = "collecting"
  BY NewProcess DEF ProcState
<1> QED
  BY <1>1 DEF ProcessTypes, Become

\* The owner's own variables: it only goes to another label.
LEMMA GotoType ==
    ASSUME OwnerTypes, NEW w \in Worker, NEW label \in PcState \ {"send"}, Goto(w, label),
           UNCHANGED <<held, verdict>>
    PROVE  OwnerTypes'
BY DEF OwnerTypes, Goto

LEMMA SameOwner == OwnerTypes /\ UNCHANGED ownerVars => OwnerTypes'
BY DEF OwnerTypes, ownerVars
LEMMA SameQueue == QueueTypes /\ UNCHANGED queueVars => QueueTypes'
BY DEF QueueTypes, QueueTypeOK, queueVars
LEMMA SameProcess == ProcessTypes /\ UNCHANGED procVars => ProcessTypes'
BY DEF ProcessTypes, procVars
LEMMA SameMerge == MergeTypes /\ UNCHANGED mergeVars => MergeTypes'
BY DEF MergeTypes, mergeVars
LEMMA SamePipes == PipeTypes /\ UNCHANGED <<inp, out>> => PipeTypes'
BY DEF PipeTypes

LEMMA WithoutType ==
    ASSUME NEW s \in Seq(Test), NEW t
    PROVE  Without(s, t) \in Seq(Test)
<1> DEFINE positions == {i \in DOMAIN s : s[i] # t}
           kept == InOrder(positions)
           n == Cardinality(positions)
<1>1. positions \in SUBSET (1 .. Len(s)) /\ Len(s) \in Nat
  OBVIOUS
<1>2. Without(s, t) = [k \in DOMAIN kept |-> s[kept[k]]]
  BY DEF Without
<1> HIDE DEF positions
<1>3. n \in Nat /\ DOMAIN kept = 1 .. n /\ \A k \in 1 .. n : kept[k] \in positions
  BY <1>1, InOrderPositions
<1> HIDE DEF kept, n
<1>4. \A k \in 1 .. n : s[kept[k]] \in Test
  <2> TAKE k \in 1 .. n
  <2>1. kept[k] \in positions
    BY <1>3
  <2>2. kept[k] \in 1 .. Len(s)
    BY <1>1, <2>1
  <2> QED
    BY <2>2
<1> QED
  BY <1>2, <1>3, <1>4

\* Whatever the mode, the batches of a run are non-empty.
LEMMA PlanType ==
    ASSUME NEW collected \in CollectChoices \cup {<< >>}
    PROVE  /\ Plan[collected] \in Seq(Batch)
           /\ \A i \in DOMAIN Plan[collected] : Plan[collected][i] # << >>
<1>1. collected \in Seq(Test)
  <2>1. CollectChoices \subseteq Seq(Test)
    BY DistAssumption
  <2>2. << >> \in Seq(Test)
    OBVIOUS
  <2> QED
    BY <2>1, <2>2
<1>2. NumWorkers \in Nat \ {0}
  BY NumWorkersAssumption
<1>3. Plan[collected] = BuildBatches(Mode, collected, File, Group, NumWorkers, Reorder)
  BY DEF Plan
<1> QED
  BY <1>1, <1>2, <1>3, BuildBatchesBatches DEF Batch

LEMMA OwnerStepTypes ==
    ASSUME Types, NEW w \in Worker, OwnerStep(w)
    PROVE  Types'
<1> USE DEF Types
<1>l. {"start", "collect", "doomed", "next", "read", "waitStop", "crashed", "tell",
       "absorb", "lost", "drain", "dying", "reap", "end"} \subseteq PcState \ {"send"}
  BY DEF PcState
<1>h. held[w] \in Batch /\ out[w] \in Seq(Frames) /\ << >> \in Batch
  BY DEF OwnerTypes, PipeTypes, Batch
<1>1. CASE StartForked(w)
  <2>1. QueueTypes' /\ ProcessTypes' /\ MergeTypes'
    BY <1>1, SameQueue, SameProcess, SameMerge DEF StartForked
  <2>2. OwnerTypes'
    BY <1>1, <1>l, GotoType DEF StartForked
  <2>3. PipeTypes' /\ events' \in Seq(Events)
    BY <1>1, WriteType, EmptyCollectionType DEF StartForked, PipeTypes, Messages
  <2> QED
    BY <2>1, <2>2, <2>3
<1>2. CASE StartSpawned(w)
  <2>1. QueueTypes' /\ MergeTypes' /\ PipeTypes'
    BY <1>2, SameQueue, SameMerge, SamePipes DEF StartSpawned
  <2>2. OwnerTypes'
    BY <1>2, <1>l, GotoType DEF StartSpawned
  <2>3. ProcessTypes'
    BY <1>2, SpawnType, SameProcess DEF StartSpawned, procVars
  <2>4. events' \in Seq(Events)
    BY <1>2, EmptyCollectionType DEF StartSpawned
  <2> QED
    BY <2>1, <2>2, <2>3, <2>4
<1>3. CASE CollectFrame(w)
  <2>1. QueueTypes' /\ ProcessTypes' /\ MergeTypes'
    BY <1>3, SameQueue, SameProcess, SameMerge DEF CollectFrame
  <2>2. OwnerTypes'
    BY <1>3, <1>l, GotoType DEF CollectFrame
  <2>3. PipeTypes' /\ events' \in Seq(Events)
    BY <1>3, PopType, ForwardType DEF CollectFrame, PipeTypes, Frame
  <2> QED
    BY <2>1, <2>2, <2>3
<1>4. CASE CollectEof(w)
  <2>1. QueueTypes' /\ ProcessTypes' /\ MergeTypes' /\ PipeTypes'
    BY <1>4, SameQueue, SameProcess, SameMerge, SamePipes DEF CollectEof
  <2>2. OwnerTypes' /\ events' \in Seq(Events)
    BY <1>4, <1>l, GotoType, EmptyCollectionType DEF CollectEof
  <2> QED
    BY <2>1, <2>2
<1>5. CASE NextBatch(w)
  <2>1. ProcessTypes' /\ MergeTypes' /\ PipeTypes' /\ events' \in Seq(Events)
    BY <1>5, SameProcess, SameMerge, SamePipes DEF NextBatch
  <2>2. QueueTypes'
    BY <1>5, <1>h, QueueStepTypes DEF NextBatch
  <2>3. Head(queues[w]) \in Batch /\ Head(queues[w]) # << >>
    BY <1>5 DEF NextBatch, TakeBatch, QueueTypes, QueueTypeOK
  <2>4. OwnerTypes'
    BY <1>5, <2>3 DEF NextBatch, OwnerTypes, Goto, PcState
  <2> QED
    BY <2>1, <2>2, <2>4
<1>6. CASE NoMoreBatches(w)
  <2>1. ProcessTypes' /\ MergeTypes' /\ events' \in Seq(Events)
    BY <1>6, SameProcess, SameMerge DEF NoMoreBatches
  <2>2. QueueTypes'
    BY <1>6, <1>h, QueueStepTypes DEF NoMoreBatches
  <2>3. OwnerTypes' /\ PipeTypes'
    BY <1>6, <1>l, GotoType, WriteType DEF NoMoreBatches, PipeTypes, Messages
  <2> QED
    BY <2>1, <2>2, <2>3
<1>7. CASE SendRun(w)
  <2>1. QueueTypes' /\ ProcessTypes' /\ MergeTypes' /\ events' \in Seq(Events)
    BY <1>7, SameQueue, SameProcess, SameMerge DEF SendRun
  <2>2. Run(held[w]) \in Messages
    BY <1>7, <1>h, Built DEF SendRun, OwnerTypes
  <2>3. OwnerTypes' /\ PipeTypes'
    BY <1>7, <1>l, <2>2, GotoType, WriteType DEF SendRun, PipeTypes
  <2> QED
    BY <2>1, <2>3
<1>8. CASE ReadReport(w)
  <2>1. QueueTypes' /\ ProcessTypes' /\ MergeTypes'
    BY <1>8, SameQueue, SameProcess, SameMerge DEF ReadReport
  <2>2. PipeTypes' /\ events' \in Seq(Events)
    BY <1>8, PopType, ForwardType DEF ReadReport, PipeTypes, Frame
  <2>3. held' \in [Worker -> Batch] /\ UNCHANGED <<pc, verdict>> /\ pc[w] = "read"
    <3>1. Without(held[w], Head(out[w]).test) \in Batch
      BY <1>h, WithoutType DEF Batch
    <3>2. held' \in {held, [held EXCEPT ![w] = Without(held[w], Head(out[w]).test)]}
      BY <1>8 DEF ReadReport
    <3> QED
      BY <1>8, <3>1, <3>2 DEF ReadReport, OwnerTypes
  <2>4. \A v \in Worker : v # w => held'[v] = held[v]
    BY <1>8 DEF ReadReport, OwnerTypes
  <2>5. OwnerTypes'
    BY <2>3, <2>4 DEF OwnerTypes
  <2> QED
    BY <2>1, <2>2, <2>5
<1>9. CASE ReadDone(w)
  <2>1. QueueTypes' /\ ProcessTypes' /\ MergeTypes' /\ events' \in Seq(Events)
    BY <1>9, SameQueue, SameProcess, SameMerge DEF ReadDone
  <2>2. PipeTypes'
    BY <1>9, PopType DEF ReadDone, PipeTypes, Frame
  <2>3. OwnerTypes'
    BY <1>9, <1>h DEF ReadDone, OwnerTypes, Goto, PcState
  <2> QED
    BY <2>1, <2>2, <2>3
<1>10. CASE ReadInterrupted(w)
  <2>1. QueueTypes' /\ ProcessTypes' /\ MergeTypes'
    BY <1>10, SameQueue, SameProcess, SameMerge DEF ReadInterrupted
  <2>2. PipeTypes' /\ events' \in Seq(Events)
    BY <1>10, PopType, ForwardType DEF ReadInterrupted, PipeTypes, Frame
  <2>3. OwnerTypes'
    BY <1>10, <1>l, GotoType DEF ReadInterrupted
  <2> QED
    BY <2>1, <2>2, <2>3
<1>11. CASE WaitStop(w) \/ ReadEof(w) \/ DrainEof(w) \/ Reap(w)
  <2>1. QueueTypes' /\ ProcessTypes' /\ MergeTypes' /\ PipeTypes' /\ events' \in Seq(Events)
    BY <1>11, SameQueue, SameProcess, SameMerge, SamePipes DEF WaitStop, ReadEof, DrainEof, Reap
  <2>2. OwnerTypes'
    BY <1>11, <1>l, GotoType DEF WaitStop, ReadEof, DrainEof, Reap
  <2> QED
    BY <2>1, <2>2
<1>12. CASE Book(w)
  <2>1. ProcessTypes' /\ MergeTypes' /\ PipeTypes' /\ events' \in Seq(Events)
    BY <1>12, SameProcess, SameMerge, SamePipes DEF Book
  <2>2. Remainder(w) \in Batch
    BY <1>h DEF Remainder, Batch
  <2>3. QueueTypes'
    BY <1>12, <1>h, <2>2, QueueStepTypes DEF Book
  <2> DEFINE running == IF held[w] = << >> THEN << >> ELSE <<Head(held[w])>>
             found(action) == [action |-> action, running |-> running, replace |-> pc[w] = "crashed"]
  <2>4. running \in Batch
    BY <1>h DEF Batch
  <2>5. \E action \in {"silent", "replace", "abort"} : verdict' = [verdict EXCEPT ![w] = found(action)]
    BY <1>12 DEF Book
  <2>6. \A action \in {"silent", "replace", "abort"} : found(action) \in Verdicts
    <3> HIDE DEF running
    <3>1. (pc[w] = "crashed") \in BOOLEAN
      OBVIOUS
    <3> QED
      BY <2>4, <3>1 DEF Verdicts
  <2> HIDE DEF found
  <2>7. OwnerTypes'
    BY <1>12, <1>h, <2>5, <2>6 DEF Book, OwnerTypes, Goto, PcState
  <2> QED
    BY <2>1, <2>3, <2>7
<1>13. CASE Tell(w)
  <2>1. QueueTypes' /\ MergeTypes'
    BY <1>13, SameQueue, SameMerge DEF Tell
  <2>2. ProcessTypes'
    BY <1>13, SpawnType, SameProcess DEF Tell, procVars
  <2>3. PipeTypes'
    <3>1. << >> \in Seq(Messages) /\ << >> \in Seq(Frames)
      OBVIOUS
    <3>2. \/ UNCHANGED <<inp, out>>
          \/ inp' = [inp EXCEPT ![w] = << >>] /\ out' = [out EXCEPT ![w] = << >>]
      BY <1>13 DEF Tell
    <3> QED
      BY <3>1, <3>2, SamePipes DEF PipeTypes
  <2>4. OwnerTypes'
    <3>1. NoVerdict \in Verdicts
      BY <1>h DEF NoVerdict, Verdicts
    <3>2. \E label \in PcState \ {"send"} : Goto(w, label)
      BY <1>13, <1>l DEF Tell
    <3> QED
      BY <1>13, <3>1, <3>2 DEF Tell, OwnerTypes, Goto
  <2>5. events' \in Seq(Events)
    <3> DEFINE v == verdict[w]
               failure == IF v.action # "silent" /\ v.running # << >>
                          THEN <<Report(v.running[1], "crash", TRUE)>> ELSE << >>
               banner == IF v.action = "abort" THEN <<Banner>> ELSE << >>
    <3>1. Post(failure \o banner)
      BY <1>13 DEF Tell
    <3>2. v.running # << >> => v.running[1] \in Test
      BY DEF OwnerTypes, Verdicts, Batch
    <3>3. v.running # << >> => Report(v.running[1], "crash", TRUE) \in Events
      BY <3>2, Built DEF Events
    <3>4. Banner \in Events
      BY DEF Events
    <3>5. failure \o banner \in Seq(Events)
      BY <3>3, <3>4, FewEvents
    <3> QED
      BY <3>1, <3>5, PostType
  <2> QED
    BY <2>1, <2>2, <2>3, <2>4, <2>5
<1>14. CASE Absorb(w)
  <2>1. QueueTypes' /\ ProcessTypes' /\ MergeTypes' /\ events' \in Seq(Events)
    BY <1>14, SameQueue, SameProcess, SameMerge DEF Absorb
  <2>2. OwnerTypes' /\ PipeTypes'
    BY <1>14, <1>l, GotoType, PopType DEF Absorb, PipeTypes, Frame
  <2> QED
    BY <2>1, <2>2
<1>15. CASE DrainReport(w)
  <2>1. QueueTypes' /\ ProcessTypes' /\ MergeTypes' /\ OwnerTypes'
    BY <1>15, SameQueue, SameProcess, SameMerge, SameOwner DEF DrainReport
  <2>2. PipeTypes' /\ events' \in Seq(Events)
    BY <1>15, PopType, ForwardType DEF DrainReport, PipeTypes, Frame
  <2> QED
    BY <2>1, <2>2
<1>16. CASE DrainBye(w)
  <2>1. QueueTypes' /\ ProcessTypes' /\ MergeTypes' /\ events' \in Seq(Events)
    BY <1>16, SameQueue, SameProcess, SameMerge DEF DrainBye
  <2>2. OwnerTypes' /\ PipeTypes'
    BY <1>16, <1>l, GotoType, PopType DEF DrainBye, PipeTypes, Frame
  <2> QED
    BY <2>1, <2>2
<1> QED
  BY <1>1, <1>2, <1>3, <1>4, <1>5, <1>6, <1>7, <1>8, <1>9, <1>10, <1>11, <1>12, <1>13,
     <1>14, <1>15, <1>16 DEF OwnerStep

LEMMA SameEvents == events \in Seq(Events) /\ UNCHANGED events => events' \in Seq(Events)
OBVIOUS

\* The batches are pushed: each slot's queue gets its share.
LEMMA PushTypes ==
    ASSUME QueueTypes, NEW batches \in Seq(Batch), PushBatches(batches),
           \A i \in DOMAIN batches : batches[i] # << >>
    PROVE  QueueTypes'
<1> USE DEF QueueTypes, QueueTypeOK
<1>1. CASE aborted \/ softStopped
  BY <1>1 DEF PushBatches
<1>2. CASE ~(aborted \/ softStopped)
  <2>1. queues' = [w \in Worker |-> queues[w] \o Share(batches, w)]
    BY <1>2 DEF PushBatches
  <2>2. ASSUME NEW w \in Worker
        PROVE  /\ queues'[w] \in Seq(Batch)
               /\ \A i \in DOMAIN queues'[w] : queues'[w][i] # << >>
    <3> DEFINE s == Share(batches, w)
    <3>1. s \in Seq(Batch)
      BY ShareType
    <3>2. \A k \in DOMAIN s : s[k] # << >>
      BY ShareDomain
    <3> HIDE DEF s
    <3>3. queues[w] \in Seq(Batch) /\ queues'[w] = queues[w] \o s
      BY <2>1 DEF s
    <3> QED
      BY <3>1, <3>2, <3>3
  <2>3. DOMAIN queues' = Worker /\ queues' = [w \in Worker |-> queues'[w]]
    BY <2>1
  <2> QED
    BY <2>2, <2>3 DEF PushBatches
<1> QED
  BY <1>1, <1>2

\* The first event, received.
LEMMA ReceivedType ==
    ASSUME events \in Seq(Events), events # << >>, Received
    PROVE  events' \in Seq(Events) /\ Head(events) \in Events
BY DEF Received

\* One more report in the bag.
LEMMA OneMoreReport ==
    ASSUME IsABag(reports), NEW r
    PROVE  IsABag(reports (+) SetToBag({r}))
BY DEF IsABag, (+), SetToBag

LEMMA MergeStepTypes ==
    ASSUME Types, MergeStep
    PROVE  Types'
<1> USE DEF Types
<1>w. NumWorkers \in Nat /\ NumWorkers > 0 /\ merge.pending \in 0 .. NumWorkers
  BY NumWorkersAssumption DEF MergeTypes
<1>o. OwnerTypes' /\ ProcessTypes' /\ PipeTypes'
  <2>1. UNCHANGED <<ownerVars, procVars, inp, out>>
    BY DEF MergeStep, MergeFirst, MergeSame, MergeDifferent, MergeCount, MergeReport,
           MergeInterrupted, MergeBanner, MergeEnd, MergeOnly
  <2> QED
    BY <2>1, SameOwner, SameProcess, SamePipes
<1>c. Counting \in [at : {"recv", "count"}, pending : 0 .. NumWorkers, got : BOOLEAN,
                    first : CollectChoices \cup {<< >>}, failed : Nat, hit : BOOLEAN,
                    override : Int \cup {None}, banner : BOOLEAN]
  BY DEF Counting, MergeTypes
<1>s. Stop => QueueTypes'
  <2>1. PICK w \in Worker : TRUE
    BY NumWorkersAssumption DEF Worker
  <2>2. << >> \in Batch
    BY DEF Batch
  <2> QED
    BY <2>1, <2>2, QueueStepTypes
<1>1. CASE MergeFirst
  <2>1. QueueTypes' /\ events' \in Seq(Events)
    BY <1>1, SameQueue, ReceivedType DEF MergeFirst, Event
  <2>2. Head(events).ids \in CollectChoices \cup {<< >>}
    <3>1. Head(events) \in Collections
      BY <1>1, ReceivedType, Kinds DEF MergeFirst, Event
    <3> QED
      BY <3>1 DEF Collections
  <2>3. MergeTypes'
    BY <1>1, <1>c, <2>2 DEF MergeFirst, MergeTypes, MergeOnly
  <2> QED
    BY <1>o, <2>1, <2>3
<1>2. CASE MergeSame
  <2>1. QueueTypes' /\ events' \in Seq(Events)
    BY <1>2, SameQueue, ReceivedType DEF MergeSame, Event
  <2>2. MergeTypes'
    BY <1>2, <1>c DEF MergeSame, MergeTypes, MergeOnly
  <2> QED
    BY <1>o, <2>1, <2>2
<1>3. CASE MergeDifferent
  <2>1. QueueTypes' /\ events' \in Seq(Events)
    BY <1>3, <1>s, ReceivedType DEF MergeDifferent, Event
  <2>2. MergeTypes'
    BY <1>3, <1>c DEF MergeDifferent, MergeTypes, MergeOnly, TESTS_FAILED
  <2> QED
    BY <1>o, <2>1, <2>2
<1>4. CASE MergeCount
  <2> DEFINE pending == Larger(merge.pending - 1, 0)
  <2>1. pending \in 0 .. NumWorkers
    BY <1>w DEF Larger
  <2>2. merge' = [merge EXCEPT !.at = "recv", !.pending = pending]
    BY <1>4 DEF MergeCount
  <2>3. MergeTypes'
    <3> HIDE DEF pending
    <3> QED
      BY <1>4, <2>1, <2>2 DEF MergeCount, MergeTypes, MergeOnly
  <2>4. QueueTypes'
    <3>1. /\ Plan[merge.first] \in Seq(Batch)
          /\ \A i \in DOMAIN Plan[merge.first] : Plan[merge.first][i] # << >>
      BY PlanType DEF MergeTypes
    <3>2. PushBatches(Plan[merge.first]) \/ UNCHANGED queueVars
      BY <1>4 DEF MergeCount
    <3> QED
      BY <3>1, <3>2, PushTypes, SameQueue
  <2>5. events' \in Seq(Events)
    BY <1>4 DEF MergeCount
  <2> QED
    BY <1>o, <2>3, <2>4, <2>5
<1>5. CASE MergeReport
  <2> DEFINE r == Head(events)
             failed == IF r.failed THEN merge.failed + 1 ELSE merge.failed
             stops == r.failed /\ LimitReached(failed) /\ ~merge.hit
  <2>1. events' \in Seq(Events)
    BY <1>5, ReceivedType DEF MergeReport, Event
  <2>2. QueueTypes'
    BY <1>5, <1>s, SameQueue DEF MergeReport
  <2>3. failed \in Nat
    BY DEF MergeTypes
  <2>4. merge' = [merge EXCEPT !.failed = failed, !.hit = merge.hit \/ stops]
    BY <1>5 DEF MergeReport
  <2>5. (merge.hit \/ stops) \in BOOLEAN
    OBVIOUS
  <2>6. IsABag(reports')
    BY <1>5, OneMoreReport DEF MergeReport, MergeTypes
  <2>7. MergeTypes'
    <3> DEFINE hit == merge.hit \/ stops
    <3>1. hit \in BOOLEAN /\ merge' = [merge EXCEPT !.failed = failed, !.hit = hit]
      BY <2>4, <2>5
    <3> HIDE DEF hit, failed
    <3> QED
      BY <1>5, <2>3, <2>6, <3>1 DEF MergeReport, MergeTypes, MergeOnly
  <2> QED
    BY <1>o, <2>1, <2>2, <2>7
<1>6. CASE MergeInterrupted
  <2>1. events' \in Seq(Events)
    BY <1>6, ReceivedType DEF MergeInterrupted, Event
  <2>2. QueueTypes'
    BY <1>6, <1>s, SameQueue DEF MergeInterrupted
  <2>3. Head(events).code \in Int
    <3>1. Head(events) \in Interrupts
      BY <1>6, ReceivedType, Kinds DEF MergeInterrupted, Event
    <3> QED
      BY <3>1 DEF Interrupts
  <2>4. MergeTypes'
    BY <1>6, <2>3 DEF MergeInterrupted, MergeTypes, MergeOnly
  <2> QED
    BY <1>o, <2>1, <2>2, <2>4
<1>7. CASE MergeBanner
  <2>1. QueueTypes' /\ events' \in Seq(Events)
    BY <1>7, SameQueue, ReceivedType DEF MergeBanner, Event
  <2>2. MergeTypes'
    BY <1>7 DEF MergeBanner, MergeTypes, MergeOnly
  <2> QED
    BY <1>o, <2>1, <2>2
<1>8. CASE MergeEnd
  <2>1. QueueTypes' /\ events' \in Seq(Events)
    BY <1>8, SameQueue DEF MergeEnd
  <2>2. ExitCode \in Int
    BY DEF ExitCode, MergeTypes, INTERRUPTED, TESTS_FAILED, NO_TESTS_COLLECTED, OK
  <2>3. MergeTypes'
    BY <1>8, <2>2 DEF MergeEnd, MergeTypes
  <2> QED
    BY <1>o, <2>1, <2>3
<1> QED
  BY <1>1, <1>2, <1>3, <1>4, <1>5, <1>6, <1>7, <1>8 DEF MergeStep

\* A process dies.
LEMMA DieTypes ==
    ASSUME Types, NEW w \in Worker, Die(w)
    PROVE  Types'
<1> USE DEF Types
<1>1. QueueTypes' /\ OwnerTypes' /\ PipeTypes' /\ MergeTypes' /\ events' \in Seq(Events)
  BY SameQueue, SameOwner, SamePipes, SameMerge DEF Die
<1>2. Process("gone") \in Processes /\ Process("gone").st = "gone"
  BY NewProcess DEF ProcState
<1>3. crashes' \in 0 .. MaxCrash
  BY DistAssumption DEF Die, ProcessTypes
<1>4. ProcessTypes'
  BY <1>2, <1>3 DEF Die, Become, ProcessTypes
<1> QED
  BY <1>1, <1>4

LEMMA StutterTypes == Types /\ UNCHANGED vars => Types'
BY SameQueue, SameOwner, SameProcess, SamePipes, SameMerge DEF Types, vars, procVars

LEMMA NextTypes ==
    ASSUME Types, [Next]_vars
    PROVE  Types'
<1>1. ASSUME NEW w \in Worker, WorkerStep(w) PROVE Types'
  <2>1. ProcessTypes' /\ PipeTypes'
    BY <1>1, WorkerTypes DEF Types
  <2>2. UNCHANGED <<queueVars, ownerVars, events, mergeVars>>
    BY <1>1 DEF WorkerStep, ReadInput, Collect, ReadRun, Uncollected, Scopes, Body, Teardown,
                BatchEnd, Leave, ReadShutdown, FinalTeardown, SayBye, Exit, ProcessOnly
  <2> QED
    BY <2>1, <2>2, SameQueue, SameOwner, SameMerge DEF Types
<1>2. Terminated => UNCHANGED vars
  BY DEF Terminated
<1> QED
  BY <1>1, <1>2, OwnerStepTypes, DieTypes, MergeStepTypes, StutterTypes DEF Next

LEMMA TypesImplyTypeOK == Types => TypeOK
<1> SUFFICES ASSUME Types PROVE TypeOK
  OBVIOUS
<1>1. \A i \in DOMAIN events : events[i].kind \in {"collection", "report", "interrupted", "banner"}
  <2>1. \A e \in Events : e.kind \in {"collection", "report", "interrupted", "banner"}
    BY DEF Events, Reports, Collections, Interrupts, Banner
  <2> QED
    BY <2>1 DEF Types
<1>2. merge \in [at : {"recv", "count"}, pending : 0 .. NumWorkers, got : BOOLEAN,
                 first : Batch, failed : Nat, hit : BOOLEAN,
                 override : Int \cup {None}, banner : BOOLEAN]
  <2>1. << >> \in Batch /\ CollectChoices \subseteq Batch
    BY DistAssumption DEF Batch
  <2> QED
    BY <2>1 DEF Types, MergeTypes
<1> QED
  BY <1>1, <1>2 DEF Types, TypeOK, QueueTypes, OwnerTypes, ProcessTypes, MergeTypes, Verdicts, Processes

LEMMA Typed == Spec => []Types
<1>1. Types /\ [Next]_vars => Types'
  BY NextTypes
<1> QED
  BY InitTypes, <1>1, PTL DEF Spec

\* Every variable of the distributed run stays within its type, so that no
\* frame, event or report of another shape travels, the counters stay natural
\* numbers and the batches are made of collected tests.
THEOREM DistTypes == Spec => []TypeOK
BY Typed, TypesImplyTypeOK, PTL

-----------------------------------------------------------------------------
(* What an owner and its worker know of each other.                        *)

Stopping == {"leaving", "final", "bye", "exiting"}
HasRun(w) == \E i \in DOMAIN inp[w] : inp[w][i].kind = "run"
Said(w, kind) == {i \in DOMAIN out[w] : out[w][i].kind = kind}

\* Before the first message nothing is in the pipes, and only a forked worker
\* is there.
AtStart(w) ==
    /\ inp[w] = << >> /\ out[w] = << >>
    /\ proc[w].st \in (IF w \in Forked THEN {"input", "gone"} ELSE {"gone"})

\* While the owner waits for a collection, its worker says nothing else.
AtCollect(w) ==
    /\ proc[w].st \in {"input", "collecting", "idle", "gone"}
    /\ out[w] # << >> => Len(out[w]) = 1 /\ proc[w].st \in {"idle", "gone"}
    /\ proc[w].st = "input" => inp[w] = <<Workerinput>>
    /\ proc[w].st \in {"collecting", "idle"} => inp[w] = << >>

\* Between two batches the worker idles, unless the queue is stopped.
AtNext(w) ==
    /\ Alive(w) => inp[w] = << >>
    /\ proc[w].st \notin {"input", "collecting"}
    /\ ~StopSeen => out[w] = << >> /\ proc[w].st \in {"idle", "gone"}

AtSend(w) ==
    /\ Alive(w) => inp[w] = << >>
    /\ out[w] = << >> /\ proc[w].st \in {"idle", "gone"}

\* The batch is taken before anything is said of it, and nothing else is sent.
InBatch(w) ==
    /\ proc[w].st \notin {"input", "collecting"}
    /\ Alive(w) /\ inp[w] # << >> =>
          proc[w].st = "idle" /\ out[w] = << >> /\ Len(inp[w]) = 1 /\ HasRun(w)

\* A worker that leaves has said so, before the "done" of its last batch; any
\* other "done" is the last thing it said.
AtRead(w) ==
    InBatch(w) /\ (~StopSeen =>
        /\ proc[w].st \in Stopping => Said(w, "interrupted") # {}
        /\ \A i \in Said(w, "done") :
              \/ i = Len(out[w]) /\ proc[w].st \in {"idle", "gone"}
              \/ \E j \in Said(w, "interrupted") : j < i)

Known(w) ==
    /\ pc[w] = "start" => AtStart(w)
    /\ pc[w] \in {"collect", "absorb"} => AtCollect(w)
    /\ pc[w] = "next" => AtNext(w)
    /\ pc[w] = "send" => AtSend(w)
    /\ pc[w] = "read" => AtRead(w)
    /\ pc[w] = "waitStop" => InBatch(w)
    /\ pc[w] \in {"drain", "reap"} => (Alive(w) => ~HasRun(w))
    /\ pc[w] \in {"doomed", "crashed", "dying", "tell", "end", "lost"} => Eof(w)

Protocol == (\A w \in Worker : Known(w)) /\ (exit # None => Over)

\* A stop is never taken back.
LEMMA StopStays == [Next]_vars => (StopSeen => StopSeen')
<1> SUFFICES ASSUME [Next]_vars, StopSeen PROVE StopSeen'
  OBVIOUS
<1> USE DEF StopSeen
<1>1. CASE UNCHANGED <<aborted, softStopped>>
  BY <1>1
<1>2. ASSUME NEW w \in Worker, WorkerStep(w) \/ Die(w) PROVE StopSeen'
  BY <1>2 DEF WorkerStep, ReadInput, Collect, ReadRun, Uncollected, Scopes, Body, Teardown,
              BatchEnd, Leave, ReadShutdown, FinalTeardown, SayBye, Exit, Die, ProcessOnly, queueVars
<1>3. ASSUME NEW w \in Worker, OwnerStep(w) PROVE StopSeen'
  <2>1. CASE Book(w)
    BY <2>1 DEF Book, CrashSilent, CrashReplace, CrashAbort, queueVars
  <2>2. CASE NextBatch(w) \/ NoMoreBatches(w)
    BY <2>2 DEF NextBatch, NoMoreBatches, TakeBatch, NoBatch, queueVars
  <2> QED
    BY <1>3, <2>1, <2>2 DEF OwnerStep, StartForked, StartSpawned, CollectFrame, CollectEof, SendRun,
       ReadReport, ReadDone, ReadInterrupted, WaitStop, ReadEof, Tell, Absorb, DrainReport, DrainBye,
       DrainEof, Reap, queueVars
<1>4. ASSUME MergeStep PROVE StopSeen'
  <2>1. CASE MergeCount
    BY <2>1 DEF MergeCount, PushBatches, queueVars
  <2>2. CASE MergeReport \/ MergeInterrupted \/ MergeDifferent
    BY <2>2 DEF MergeReport, MergeInterrupted, MergeDifferent, Stop, queueVars
  <2> QED
    BY <1>4, <2>1, <2>2 DEF MergeStep, MergeFirst, MergeSame, MergeBanner, MergeEnd, queueVars
<1> QED
  BY <1>1, <1>2, <1>3, <1>4 DEF Next, Terminated, vars, queueVars

\* What is known of a worker does not depend on the others.
LEMMA KnownStays ==
    ASSUME NEW w \in Worker, Known(w), StopSeen => StopSeen',
           pc'[w] = pc[w], proc'[w] = proc[w], inp'[w] = inp[w], out'[w] = out[w]
    PROVE  Known(w)'
BY DEF Known, AtStart, AtCollect, AtNext, AtSend, AtRead, InBatch, Alive, Eof, HasRun, Said

\* What a worker's step does to its state, its input and its output.
Reads(w, from, to) ==
    /\ proc[w].st = from /\ proc'[w].st = to
    /\ inp[w] # << >> /\ inp'[w] = Tail(inp[w]) /\ out'[w] = out[w]

Writes(w, from, to, kinds) ==
    /\ proc[w].st \in from /\ proc'[w].st \in to
    /\ inp'[w] = inp[w]
    /\ \E fs \in Seq(Frames) :
          /\ out'[w] = out[w] \o fs
          /\ \A i \in DOMAIN fs : fs[i].kind \in kinds

AtItem == {"item", "body", "teardown"}

Moves(w) ==
    \/ Reads(w, "input", "collecting") \/ Reads(w, "idle", "item")
    \/ Reads(w, "idle", "final") /\ Head(inp[w]) = Shutdown
    \/ proc[w].st = "collecting" /\ proc'[w].st = "idle" /\ inp'[w] = inp[w]
       /\ \E f \in Frames : out'[w] = Append(out[w], f)
    \/ Writes(w, AtItem, AtItem \cup {"batchEnd"}, {"report"})
    \/ Writes(w, {"final"}, {"bye"}, {"report"})
    \/ Writes(w, {"bye"}, {"exiting"}, {"bye"})
    \/ Writes(w, {"exiting"}, {"gone"}, {})
    \/ Writes(w, {"leaving"}, {"final"}, {"done"})
    \/ proc[w].st = "batchEnd" /\ inp'[w] = inp[w]
       /\ \/ proc'[w].st = "leaving" /\ \E c \in Int : out'[w] = Append(out[w], Interrupted(c))
          \/ proc'[w].st = "idle" /\ out'[w] = Append(out[w], Done)

LEMMA SendWrites ==
    ASSUME PipeTypes, ProcessTypes, NEW w \in Worker, NEW fs \in Seq(Frames), NEW p,
           Send(w, fs), Become(w, p), UNCHANGED inp,
           NEW from, NEW to, NEW kinds, proc[w].st \in from, p.st \in to,
           \A i \in DOMAIN fs : fs[i].kind \in kinds
    PROVE  Writes(w, from, to, kinds)
BY DEF Writes, Send, Become, PipeTypes, ProcessTypes

LEMMA SendOne ==
    ASSUME PipeTypes, NEW w \in Worker, NEW f \in Frames, Send(w, <<f>>)
    PROVE  out'[w] = Append(out[w], f)
<1>1. out[w] \in Seq(Frames) /\ out'[w] = out[w] \o <<f>>
  BY DEF PipeTypes, Send
<1> QED
  BY <1>1

LEMMA ReadsOne ==
    ASSUME PipeTypes, ProcessTypes, NEW w \in Worker, NEW p, NEW from, proc[w].st = from, inp[w] # << >>,
           inp' = [inp EXCEPT ![w] = Tail(@)], Become(w, p), UNCHANGED out
    PROVE  Reads(w, from, p.st)
BY DEF Reads, Become, PipeTypes, ProcessTypes

LEMMA WorkerMoves ==
    ASSUME Types, NEW w \in Worker, WorkerStep(w)
    PROVE  Moves(w)
<1> DEFINE p == proc[w]
<1> USE DEF Types
<1>a. p \in Processes /\ out[w] \in Seq(Frames)
  BY DEF ProcessTypes, PipeTypes
<1>b. p.st \in {"item", "body", "teardown"} => Head(p.batch) \in Test
  BY DEF ProcessTypes, Processes, Batch
<1>c. \A fs \in Seq(Reports) : fs \in Seq(Frames) /\ \A i \in DOMAIN fs : fs[i].kind \in {"report"}
  <2>1. \A r \in Reports : r.kind \in {"report"}
    BY DEF Reports
  <2>2. Reports \subseteq Frames
    BY DEF Frames
  <2> QED
    BY <2>1, <2>2
<1>1. CASE ReadInput(w)
  <2>1. Process("collecting").st = "collecting"
    BY DEF Process
  <2> QED
    BY <1>1, <2>1, ReadsOne DEF ReadInput, Moves
<1>2. CASE Collect(w)
  <2>1. PICK ids \in CollectChoices :
          /\ Send(w, <<Collection(ids)>>)
          /\ Become(w, [Process("idle") EXCEPT !.items = {ids[i] : i \in DOMAIN ids}])
    BY <1>2 DEF Collect
  <2>2. Collection(ids) \in Frames
    BY Built DEF Frames
  <2>3. proc'[w].st = "idle"
    BY <2>1 DEF Become, Process, ProcessTypes
  <2>4. out'[w] = Append(out[w], Collection(ids))
    BY <2>1, <2>2, SendOne
  <2> QED
    BY <1>2, <2>2, <2>3, <2>4 DEF Collect, Moves
<1>3. CASE ReadRun(w)
  <2> DEFINE q == [p EXCEPT !.st = "item", !.batch = Head(inp[w]).ids]
  <2>1. q.st = "item"
    BY <1>a DEF Processes
  <2> QED
    BY <1>3, <2>1, ReadsOne DEF ReadRun, Moves
<1>4. CASE ReadShutdown(w)
  <2> DEFINE q == [p EXCEPT !.st = "final"]
  <2>1. q.st = "final"
    BY <1>a DEF Processes
  <2> QED
    BY <1>4, <2>1, ReadsOne DEF ReadShutdown, Moves
<1>i. Writes(w, AtItem, AtItem \cup {"batchEnd"}, {"report"}) => Moves(w)
  BY DEF Moves
<1>5. CASE Uncollected(w)
  <2> DEFINE q == [p EXCEPT !.batch = Tail(p.batch),
                            !.st = IF Tail(p.batch) = << >> THEN "batchEnd" ELSE "item"]
             fs == <<Report(Head(p.batch), "setup", TRUE), Report(Head(p.batch), "teardown", FALSE)>>
  <2>1. p.st \in AtItem /\ Send(w, fs) /\ Become(w, q) /\ UNCHANGED inp
    BY <1>5 DEF Uncollected, AtItem
  <2>2. Report(Head(p.batch), "setup", TRUE) \in Reports /\ Report(Head(p.batch), "teardown", FALSE) \in Reports
    BY <1>b, <2>1, Built DEF AtItem
  <2>3. fs \in Seq(Reports)
    <3>1. \A f, g \in Reports : <<f, g>> \in Seq(Reports)
      OBVIOUS
    <3> HIDE DEF q
    <3> QED
      BY <2>2, <3>1
  <2>4. q.st \in AtItem \cup {"batchEnd"}
    BY <1>a DEF Processes, AtItem
  <2> HIDE DEF q, fs
  <2> QED
    BY <1>c, <1>i, <2>1, <2>3, <2>4, SendWrites
<1>6. CASE Scopes(w)
  <2> DEFINE q == [p EXCEPT !.st = "body"]
  <2>1. PICK n \in ScopeFails : Send(w, ScopeFailures(w, n))
    BY <1>6 DEF Scopes
  <2>2. ScopeFailures(w, n) \in Seq(Reports)
    BY ScopeReports, DistAssumption
  <2>3. p.st \in AtItem /\ q.st \in AtItem \cup {"batchEnd"} /\ Become(w, q) /\ UNCHANGED inp
    BY <1>6, <1>a DEF Scopes, Processes, AtItem
  <2> HIDE DEF q
  <2> QED
    BY <1>c, <1>i, <2>1, <2>2, <2>3, SendWrites
<1>7. CASE Body(w)
  <2> DEFINE q(o) == [p EXCEPT !.st = "teardown",
                               !.failed = IF o = "fail" THEN @ + 1 ELSE @,
                               !.code = IF o = "exit" THEN ReturnCode ELSE @]
             fs(o) == IF o = "exit" THEN << >> ELSE <<Report(Head(p.batch), "call", o = "fail")>>
  <2>1. PICK o \in Outcomes : Send(w, fs(o)) /\ Become(w, q(o))
    BY <1>7 DEF Body
  <2>2. p.st \in AtItem /\ UNCHANGED inp
    BY <1>7 DEF Body, AtItem
  <2>3. q(o).st \in AtItem \cup {"batchEnd"}
    BY <1>a DEF Processes, AtItem
  <2>4. fs(o) \in Seq(Reports)
    <3> DEFINE f == o = "fail"
    <3>1. f \in BOOLEAN
      OBVIOUS
    <3> HIDE DEF f
    <3>2. Report(Head(p.batch), "call", f) \in Reports
      BY <1>b, <2>2, <3>1, Built DEF AtItem
    <3>3. <<Report(Head(p.batch), "call", f)>> \in Seq(Reports) /\ << >> \in Seq(Reports)
      BY <3>2
    <3> QED
      BY <3>3 DEF f
  <2> HIDE DEF q, fs
  <2> QED
    BY <1>c, <1>i, <2>1, <2>2, <2>3, <2>4, SendWrites
<1>8. CASE Teardown(w)
  <2> DEFINE failed(f) == IF f THEN p.failed + 1 ELSE p.failed
             rest(f) == IF LimitReached(failed(f)) THEN << >> ELSE Tail(p.batch)
             q(f) == [p EXCEPT !.st = IF rest(f) = << >> THEN "batchEnd" ELSE "item",
                               !.batch = rest(f), !.failed = failed(f), !.last = <<Head(p.batch)>>]
             fs(f) == <<Report(Head(p.batch), "teardown", f)>>
  <2>1. PICK f \in TeardownFails : Send(w, fs(f)) /\ Become(w, q(f))
    BY <1>8 DEF Teardown
  <2>2. p.st \in AtItem /\ UNCHANGED inp /\ f \in BOOLEAN
    BY <1>8, DistAssumption DEF Teardown, AtItem
  <2>3. Report(Head(p.batch), "teardown", f) \in Reports
    BY <1>b, <2>2, Built DEF AtItem
  <2>4. fs(f) \in Seq(Reports)
    BY <2>3
  <2> HIDE DEF failed, rest, fs
  <2>5. q(f).st \in AtItem \cup {"batchEnd"}
    BY <1>a DEF Processes, AtItem
  <2> HIDE DEF q
  <2> QED
    BY <1>c, <1>i, <2>1, <2>2, <2>4, <2>5, SendWrites
<1>9. CASE BatchEnd(w)
  <2> DEFINE leaving == [p EXCEPT !.st = "leaving"]
             idle == [p EXCEPT !.st = "idle"]
  <2>1. leaving.st = "leaving" /\ idle.st = "idle"
    BY <1>a DEF Processes
  <2>2. \A c \in Int : Interrupted(c) \in Frames
    BY Built DEF Frames
  <2>3. TESTS_FAILED \in Int /\ (p.code # None => p.code \in Int) /\ Done \in Frames
    BY <1>a DEF TESTS_FAILED, Processes, Frames
  <2>4. \/ \E c \in Int : Send(w, <<Interrupted(c)>>) /\ Become(w, leaving)
        \/ Send(w, <<Done>>) /\ Become(w, idle)
    BY <1>9, <2>3 DEF BatchEnd
  <2>5. UNCHANGED inp /\ p.st = "batchEnd"
    BY <1>9 DEF BatchEnd
  <2> HIDE DEF leaving, idle
  <2>6. \A q : Become(w, q) => proc'[w] = q
    BY DEF Become, ProcessTypes
  <2>7. \/ proc'[w].st = "leaving" /\ \E c \in Int : out'[w] = Append(out[w], Interrupted(c))
        \/ proc'[w].st = "idle" /\ out'[w] = Append(out[w], Done)
    BY <2>1, <2>2, <2>3, <2>4, <2>6, SendOne
  <2> QED
    BY <2>5, <2>7 DEF Moves
<1>10. CASE Leave(w)
  <2> DEFINE q == [p EXCEPT !.st = "final"]
             fs == <<Done>>
  <2>1. q.st \in {"final"} /\ fs \in Seq(Frames) /\ \A i \in DOMAIN fs : fs[i].kind \in {"done"}
    BY <1>a DEF Processes, Frames, Done
  <2>2. p.st \in {"leaving"} /\ Send(w, fs) /\ Become(w, q) /\ UNCHANGED inp
    BY <1>10 DEF Leave
  <2>3. Writes(w, {"leaving"}, {"final"}, {"done"})
    <3> HIDE DEF q, fs
    <3> QED
      BY <2>1, <2>2, SendWrites
  <2> QED
    BY <2>3 DEF Moves
<1>11. CASE FinalTeardown(w)
  <2> DEFINE q == [p EXCEPT !.st = "bye"]
  <2>1. PICK n \in ScopeFails : Send(w, ScopeFailures(w, n))
    BY <1>11 DEF FinalTeardown
  <2>2. ScopeFailures(w, n) \in Seq(Reports)
    BY ScopeReports, DistAssumption
  <2>3. q.st \in {"bye"} /\ Become(w, q) /\ UNCHANGED inp /\ p.st \in {"final"}
    BY <1>11, <1>a DEF FinalTeardown, Processes
  <2>4. Writes(w, {"final"}, {"bye"}, {"report"})
    <3> HIDE DEF q
    <3> QED
      BY <1>c, <2>1, <2>2, <2>3, SendWrites
  <2> QED
    BY <2>4 DEF Moves
<1>12. CASE SayBye(w)
  <2> DEFINE q == [p EXCEPT !.st = "exiting"]
             fs == <<Bye>>
  <2>1. q.st \in {"exiting"} /\ fs \in Seq(Frames) /\ \A i \in DOMAIN fs : fs[i].kind \in {"bye"}
    BY <1>a DEF Processes, Frames, Bye
  <2>2. p.st \in {"bye"} /\ Send(w, fs) /\ Become(w, q) /\ UNCHANGED inp
    BY <1>12 DEF SayBye
  <2>3. Writes(w, {"bye"}, {"exiting"}, {"bye"})
    <3> HIDE DEF q, fs
    <3> QED
      BY <2>1, <2>2, SendWrites
  <2> QED
    BY <2>3 DEF Moves
<1>13. CASE Exit(w)
  <2>1. proc'[w].st = "gone" /\ inp'[w] = inp[w] /\ proc[w].st = "exiting"
    BY <1>13 DEF Exit, Become, Process, ProcessTypes
  <2>2. << >> \in Seq(Frames) /\ out'[w] = out[w] \o << >> /\ \A i \in DOMAIN << >> : FALSE
    BY <1>13, <1>a DEF Exit
  <2>3. Writes(w, {"exiting"}, {"gone"}, {})
    BY <2>1, <2>2 DEF Writes
  <2> QED
    BY <2>3 DEF Moves
<1> QED
  BY <1>1, <1>2, <1>3, <1>4, <1>5, <1>6, <1>7, <1>8, <1>9, <1>10, <1>11, <1>12, <1>13 DEF WorkerStep

LEMMA TailOfOne ==
    ASSUME NEW Elem, NEW s \in Seq(Elem), Len(s) = 1
    PROVE  Tail(s) = << >>
<1>1. Tail(s) \in Seq(Elem) /\ Len(Tail(s)) = 0
  OBVIOUS
<1> QED
  BY <1>1, EmptySeq

LEMMA SaidAppend ==
    ASSUME NEW w \in Worker, NEW f \in Frames, out[w] \in Seq(Frames), out'[w] = Append(out[w], f)
    PROVE  /\ \A k : Said(w, k)' = Said(w, k) \cup (IF f.kind = k THEN {Len(out[w]) + 1} ELSE {})
           /\ Len(out'[w]) = Len(out[w]) + 1
           /\ \A k : \A i \in Said(w, k) : i \in Nat /\ i <= Len(out[w])
BY DEF Said

LEMMA SaidConcat ==
    ASSUME NEW w \in Worker, NEW from, NEW to, NEW kinds, out[w] \in Seq(Frames), Writes(w, from, to, kinds)
    PROVE  \A k : /\ Said(w, k) \subseteq Said(w, k)'
                  /\ \A i \in Said(w, k)' :
                        i \in Said(w, k) \/ (k \in kinds /\ i \in Nat /\ i > Len(out[w]))
                  /\ \A i \in Said(w, k) : i \in Nat /\ i <= Len(out[w])
<1>1. PICK fs \in Seq(Frames) : out'[w] = out[w] \o fs /\ \A i \in DOMAIN fs : fs[i].kind \in kinds
  BY DEF Writes
<1>2. /\ DOMAIN out[w] \subseteq DOMAIN out'[w]
      /\ \A i \in DOMAIN out[w] : out'[w][i] = out[w][i] /\ i \in Nat /\ i <= Len(out[w])
  BY <1>1
<1>3. \A i \in DOMAIN out'[w] :
        i \notin DOMAIN out[w] => /\ i \in Nat /\ i > Len(out[w])
                                  /\ i - Len(out[w]) \in DOMAIN fs
                                  /\ out'[w][i] = fs[i - Len(out[w])]
  BY <1>1
<1>4. \A i \in DOMAIN out'[w] : i \notin DOMAIN out[w] => out'[w][i].kind \in kinds
  BY <1>1, <1>3
<1>5. \A i \in DOMAIN out[w] : out'[w][i].kind = out[w][i].kind
  BY <1>2
<1> SUFFICES ASSUME NEW k
             PROVE  /\ Said(w, k) \subseteq Said(w, k)'
                    /\ \A i \in Said(w, k)' :
                          i \in Said(w, k) \/ (k \in kinds /\ i \in Nat /\ i > Len(out[w]))
                    /\ \A i \in Said(w, k) : i \in Nat /\ i <= Len(out[w])
  OBVIOUS
<1>6. Said(w, k) \subseteq Said(w, k)' /\ \A i \in Said(w, k) : i \in Nat /\ i <= Len(out[w])
  BY <1>2, <1>5 DEF Said
<1>7. \A i \in Said(w, k)' :
        i \in Said(w, k) \/ (k \in kinds /\ i \in Nat /\ i > Len(out[w]))
  <2> SUFFICES ASSUME NEW i \in Said(w, k)', i \notin Said(w, k)
               PROVE  k \in kinds /\ i \in Nat /\ i > Len(out[w])
    OBVIOUS
  <2>1. i \in DOMAIN out'[w] /\ out'[w][i].kind = k
    BY DEF Said
  <2>2. i \notin DOMAIN out[w]
    BY <1>5, <2>1 DEF Said
  <2> QED
    BY <1>3, <1>4, <2>1, <2>2
<1> QED
  BY <1>6, <1>7

\* A worker's own step keeps what is known of it.
LEMMA WorkerKnown ==
    ASSUME Types, NEW w \in Worker, Known(w), Moves(w), pc' = pc, StopSeen' = StopSeen
    PROVE  Known(w)'
<1> USE DEF Types
<1>a. out[w] \in Seq(Frames) /\ inp[w] \in Seq(Messages)
  BY DEF PipeTypes
<1>m. /\ proc[w].st # "gone"
      /\ \/ inp'[w] = inp[w] /\ proc[w].st \notin {"input", "idle"}
         \/ inp[w] # << >> /\ inp'[w] = Tail(inp[w]) /\ proc[w].st \in {"input", "idle"}
      /\ proc'[w].st # "input" /\ (proc'[w].st = "collecting" => proc[w].st = "input")
  <2>1. CASE \E from \in {"input", "idle"}, to \in {"collecting", "item", "final"} :
               Reads(w, from, to) /\ (to = "collecting" => from = "input")
    BY <2>1 DEF Reads
  <2>2. ASSUME NEW from, NEW to, NEW kinds, Writes(w, from, to, kinds)
        PROVE  proc[w].st \in from /\ proc'[w].st \in to /\ inp'[w] = inp[w]
    BY <2>2 DEF Writes
  <2> QED
    BY <2>1, <2>2 DEF Moves, AtItem
<1>i. proc[w].st \in {"input", "idle"} => inp[w] # << >>
  BY DEF Moves, Reads, Writes, AtItem
<1>1. pc[w] \notin {"start", "send", "doomed", "crashed", "dying", "tell", "end", "lost"}
  BY <1>m, <1>i DEF Known, AtStart, AtSend, Eof, Alive
<1>2. CASE pc[w] \in {"collect", "absorb"}
  <2>1. AtCollect(w)
    BY <1>2 DEF Known
  <2>2. \/ Reads(w, "input", "collecting")
        \/ /\ proc[w].st = "collecting" /\ proc'[w].st = "idle" /\ inp'[w] = inp[w]
           /\ \E f \in Frames : out'[w] = Append(out[w], f)
    BY <1>m, <1>i, <2>1 DEF AtCollect, Moves, Reads, Writes, AtItem
  <2>3. CASE Reads(w, "input", "collecting")
    <3>1. inp'[w] = << >>
      <4>1. Len(inp[w]) = 1 /\ inp'[w] = Tail(inp[w])
        BY <2>1, <2>3 DEF AtCollect, Reads
      <4> QED
        BY <1>a, <4>1, TailOfOne
    <3>2. out'[w] = << >>
      BY <2>1, <2>3 DEF AtCollect, Reads
    <3> QED
      BY <1>2, <2>3, <3>1, <3>2 DEF Known, AtCollect, Reads
  <2>4. CASE /\ proc[w].st = "collecting" /\ proc'[w].st = "idle" /\ inp'[w] = inp[w]
             /\ \E f \in Frames : out'[w] = Append(out[w], f)
    <3>1. out[w] = << >> /\ inp[w] = << >>
      BY <2>1, <2>4 DEF AtCollect
    <3>2. Len(out'[w]) = 1
      BY <2>4, <3>1
    <3> QED
      BY <1>2, <2>4, <3>1, <3>2 DEF Known, AtCollect
  <2> QED
    BY <2>2, <2>3, <2>4
<1>3. CASE pc[w] = "next"
  <2>1. AtNext(w)
    BY <1>3 DEF Known
  <2>2. StopSeen /\ inp'[w] = << >>
    BY <1>m, <1>i, <2>1 DEF AtNext, Alive
  <2> QED
    BY <1>3, <1>m, <2>1, <2>2 DEF Known, AtNext
<1>4. CASE pc[w] \in {"read", "waitStop"}
  <2>1. InBatch(w)
    BY <1>4 DEF Known, AtRead
  <2>2. InBatch(w)'
    <3>1. CASE inp'[w] = inp[w] /\ proc[w].st \notin {"input", "idle"}
      <4>1. inp'[w] = << >>
        BY <1>m, <2>1, <3>1 DEF InBatch, Alive
      <4> QED
        BY <1>m, <2>1, <4>1 DEF InBatch
    <3>2. CASE inp[w] # << >> /\ inp'[w] = Tail(inp[w])
      <4>1. inp'[w] = << >>
        <5>1. Len(inp[w]) = 1
          BY <1>m, <2>1, <3>2 DEF InBatch, Alive
        <5> QED
          BY <1>a, <3>2, <5>1, TailOfOne
      <4> QED
        BY <1>m, <2>1, <4>1 DEF InBatch
    <3> QED
      BY <1>m, <3>1, <3>2
  <2>3. CASE pc[w] = "read" /\ ~StopSeen
    <3> DEFINE Told == proc[w].st \in Stopping => Said(w, "interrupted") # {}
               Early(i) == \E j \in Said(w, "interrupted") : j < i
    <3>1. Told /\ \A i \in Said(w, "done") : (i = Len(out[w]) /\ proc[w].st \in {"idle", "gone"}) \/ Early(i)
      BY <2>3 DEF Known, AtRead
    <3> SUFFICES /\ proc'[w].st \in Stopping => Said(w, "interrupted")' # {}
                 /\ \A i \in Said(w, "done")' :
                       \/ i = Len(out'[w]) /\ proc'[w].st \in {"idle", "gone"}
                       \/ \E j \in Said(w, "interrupted")' : j < i
      BY <2>2, <2>3 DEF Known, AtRead
    <3>2. CASE \E from, to : Reads(w, from, to)
      <4>1. Len(inp[w]) = 1 /\ HasRun(w) /\ out'[w] = << >>
        BY <1>m, <2>1, <3>2 DEF InBatch, Alive, Reads
      <4>2. Head(inp[w]) # Shutdown
        BY <1>a, <4>1 DEF HasRun, Shutdown
      <4>3. proc[w].st = "idle"
        BY <1>m, <2>1, <3>2 DEF InBatch, Alive, Reads
      <4>4. Reads(w, "idle", "item")
        BY <4>2, <4>3 DEF Moves, Reads, Writes, AtItem
      <4>5. proc'[w].st \notin Stopping
        BY <4>4 DEF Reads, Stopping
      <4> QED
        BY <4>1, <4>5 DEF Said
    <3>3. CASE Writes(w, AtItem, AtItem \cup {"batchEnd"}, {"report"})
      <4>1. proc[w].st \in AtItem /\ proc'[w].st \in AtItem \cup {"batchEnd"}
        BY <3>3 DEF Writes
      <4>2. proc'[w].st \notin Stopping /\ proc[w].st \notin {"idle", "gone"}
        BY <4>1 DEF AtItem, Stopping
      <4> QED
        BY <1>a, <3>1, <3>3, <4>2, SaidConcat
    <3>4. CASE Writes(w, {"final"}, {"bye"}, {"report"}) \/ Writes(w, {"bye"}, {"exiting"}, {"bye"})
               \/ Writes(w, {"exiting"}, {"gone"}, {})
      <4>1. proc[w].st \in Stopping
        BY <3>4 DEF Writes, Stopping
      <4>2. /\ \A k : Said(w, k) \subseteq Said(w, k)'
            /\ Said(w, "done")' \subseteq Said(w, "done")
        BY <1>a, <3>4, SaidConcat
      <4>3. proc[w].st \notin {"idle", "gone"}
        BY <4>1 DEF Stopping
      <4> QED
        BY <3>1, <4>1, <4>2, <4>3
    <3>5. CASE Writes(w, {"leaving"}, {"final"}, {"done"})
      <4>1. proc[w].st \in Stopping /\ proc[w].st \notin {"idle", "gone"}
        BY <3>5 DEF Writes, Stopping
      <4>2. PICK j \in Said(w, "interrupted") : j \in Nat /\ j <= Len(out[w])
        BY <1>a, <3>1, <3>5, <4>1, SaidConcat
      <4>3. Len(out[w]) \in Nat
        BY <1>a
      <4>4. /\ Said(w, "interrupted") \subseteq Said(w, "interrupted")'
            /\ \A i \in Said(w, "done")' : i \in Said(w, "done") \/ (i \in Nat /\ i > Len(out[w]))
        BY <1>a, <3>5, SaidConcat
      <4>5. \A i \in Said(w, "done")' : \E l \in Said(w, "interrupted") : l < i
        <5>1. \A i \in Said(w, "done") : \E l \in Said(w, "interrupted") : l < i
          BY <3>1, <4>1
        <5>2. \A i \in Nat : i > Len(out[w]) => j < i
          BY <4>2, <4>3
        <5> QED
          BY <4>2, <4>4, <5>1, <5>2
      <4> QED
        BY <4>2, <4>4, <4>5
    <3>6. CASE /\ proc[w].st = "batchEnd" /\ inp'[w] = inp[w]
               /\ \/ proc'[w].st = "leaving" /\ \E c \in Int : out'[w] = Append(out[w], Interrupted(c))
                  \/ proc'[w].st = "idle" /\ out'[w] = Append(out[w], Done)
      <4>1. CASE proc'[w].st = "leaving" /\ \E c \in Int : out'[w] = Append(out[w], Interrupted(c))
        <5>1. PICK c \in Int : out'[w] = Append(out[w], Interrupted(c))
          BY <4>1
        <5>2. Interrupted(c) \in Frames /\ Interrupted(c).kind = "interrupted"
          BY Built DEF Frames, Interrupted
        <5>3. /\ Said(w, "interrupted")' = Said(w, "interrupted") \cup {Len(out[w]) + 1}
              /\ Said(w, "done")' = Said(w, "done") \cup {}
          BY <1>a, <5>1, <5>2, SaidAppend, ZenonT(60)
        <5> QED
          BY <3>1, <3>6, <5>3
      <4>2. CASE proc'[w].st = "idle" /\ out'[w] = Append(out[w], Done)
        <5>1. Done \in Frames /\ Done.kind = "done"
          BY DEF Frames, Done
        <5>2. /\ Said(w, "interrupted")' = Said(w, "interrupted") \cup {}
              /\ Said(w, "done")' = Said(w, "done") \cup {Len(out[w]) + 1}
              /\ Len(out'[w]) = Len(out[w]) + 1
          BY <1>a, <4>2, <5>1, SaidAppend
        <5>3. proc'[w].st \notin Stopping
          BY <4>2 DEF Stopping
        <5> QED
          BY <3>1, <3>6, <4>2, <5>2, <5>3
      <4> QED
        BY <3>6, <4>1, <4>2
    <3> QED
      BY <2>1, <3>2, <3>3, <3>4, <3>5, <3>6 DEF Moves, InBatch
  <2> QED
    BY <1>4, <2>2, <2>3 DEF Known, AtRead
<1>5. CASE pc[w] \in {"drain", "reap"}
  <2>1. ~HasRun(w)
    BY <1>5, <1>m DEF Known, Alive
  <2>2. ~HasRun(w)'
    <3>1. inp[w] # << >> =>
            \A i \in DOMAIN Tail(inp[w]) : i + 1 \in DOMAIN inp[w] /\ Tail(inp[w])[i] = inp[w][i + 1]
      BY <1>a
    <3> QED
      BY <1>m, <2>1, <3>1 DEF HasRun
  <2> QED
    BY <1>5, <2>2 DEF Known
<1>6. pc[w] \in PcState
  BY DEF OwnerTypes
<1> QED
  BY <1>1, <1>2, <1>3, <1>4, <1>5, <1>6 DEF PcState

\* The first frame is taken.
LEMMA SaidTail ==
    ASSUME NEW w \in Worker, out[w] \in Seq(Frames), out[w] # << >>, out'[w] = Tail(out[w])
    PROVE  \A k : /\ \A i \in Said(w, k)' : i \in Nat /\ i >= 1 /\ i + 1 \in Said(w, k)
                  /\ \A i \in Said(w, k) : i \in Nat /\ i >= 1 /\ (i # 1 => i - 1 \in Said(w, k)')
<1>1. \A i \in DOMAIN out'[w] : i \in Nat /\ i >= 1 /\ i + 1 \in DOMAIN out[w] /\ out'[w][i] = out[w][i + 1]
  OBVIOUS
<1>2. \A i \in DOMAIN out[w] :
        i \in Nat /\ i >= 1 /\ (i # 1 => i - 1 \in DOMAIN out'[w] /\ out'[w][i - 1] = out[w][i])
  OBVIOUS
<1> SUFFICES ASSUME NEW k
             PROVE  /\ \A i \in Said(w, k)' : i \in Nat /\ i >= 1 /\ i + 1 \in Said(w, k)
                    /\ \A i \in Said(w, k) : i \in Nat /\ i >= 1 /\ (i # 1 => i - 1 \in Said(w, k)')
  OBVIOUS
<1> QED
  BY <1>1, <1>2 DEF Said

LEMMA PopTail ==
    ASSUME PipeTypes, NEW w \in Worker, Pop(w)
    PROVE  out'[w] = Tail(out[w]) /\ out[w] \in Seq(Frames)
BY DEF PipeTypes, Pop

LEMMA WriteLast ==
    ASSUME PipeTypes, NEW w \in Worker, NEW m \in Messages, Write(w, m)
    PROVE  /\ Alive(w) /\ inp[w] = << >> => inp'[w] = <<m>>
           /\ ~Alive(w) => inp'[w] = inp[w]
<1>1. inp'[w] = IF Alive(w) THEN Append(inp[w], m) ELSE inp[w]
  BY DEF PipeTypes, Write
<1>2. Append(<< >>, m) = <<m>>
  OBVIOUS
<1> QED
  BY <1>1, <1>2

LEMMA GotoLabel ==
    ASSUME OwnerTypes, NEW w \in Worker, NEW label, Goto(w, label)
    PROVE  pc'[w] = label
BY DEF OwnerTypes, Goto

\* The collection is read.
LEMMA CollectionRead ==
    ASSUME PipeTypes, NEW w \in Worker, AtCollect(w), Frame(w, "collection"), Pop(w), UNCHANGED <<proc, inp>>
    PROVE  AtNext(w)'
<1>1. out[w] \in Seq(Frames) /\ out'[w] = Tail(out[w]) /\ Len(out[w]) = 1 /\ proc[w].st \in {"idle", "gone"}
  BY PopTail DEF AtCollect, Frame
<1>2. out'[w] = << >>
  BY <1>1, TailOfOne
<1> QED
  BY <1>1, <1>2 DEF AtCollect, AtNext, Alive

\* Whoever reads from a worker has its messages taken.
LEMMA InBatchRead ==
    ASSUME PipeTypes, NEW w \in Worker, InBatch(w), out[w] # << >>, UNCHANGED <<proc, inp>>
    PROVE  InBatch(w)' /\ (Alive(w) => inp[w] = << >>)
BY DEF InBatch, Alive

\* An owner's step keeps what is known of its worker.
LEMMA OwnerKnown ==
    ASSUME Types, NEW w \in Worker, Known(w), OwnerStep(w), StopSeen => StopSeen'
    PROVE  Known(w)'
<1> USE DEF Types
<1>a. out[w] \in Seq(Frames) /\ inp[w] \in Seq(Messages)
  BY DEF PipeTypes
<1>b. ASSUME Eof(w), UNCHANGED <<proc, out>>
      PROVE  Eof(w)'
  BY <1>b DEF Eof, Alive
<1>1. CASE StartForked(w)
  <2>1. AtStart(w)
    BY <1>1 DEF StartForked, Known
  <2>2. CASE Alive(w) /\ Write(w, Workerinput) /\ Goto(w, "collect")
    <3>1. inp'[w] = <<Workerinput>> /\ pc'[w] = "collect"
      BY <2>1, <2>2, WriteLast, GotoLabel, Built DEF AtStart
    <3>2. proc'[w].st = "input" /\ out'[w] = << >>
      BY <1>1, <2>1, <2>2 DEF AtStart, StartForked, Alive, procVars
    <3> QED
      BY <3>1, <3>2 DEF Known, AtCollect
  <2>3. CASE ~Alive(w) /\ Goto(w, "end")
    <3>1. Eof(w)' /\ pc'[w] = "end"
      BY <1>1, <2>1, <2>3, GotoLabel DEF Eof, AtStart, StartForked, Alive, procVars
    <3> QED
      BY <3>1 DEF Known
  <2> QED
    BY <1>1, <2>2, <2>3 DEF StartForked
<1>2. CASE StartSpawned(w)
  <2>1. AtStart(w) /\ proc[w].st = "gone" /\ UNCHANGED <<inp, out>>
    BY <1>2 DEF StartSpawned, Known, AtStart
  <2>2. CASE Become(w, Process("collecting")) /\ Goto(w, "collect")
    <3>1. proc'[w].st = "collecting" /\ pc'[w] = "collect"
      BY <2>2, GotoLabel DEF Become, Process, ProcessTypes
    <3> QED
      BY <2>1, <3>1 DEF Known, AtStart, AtCollect
  <2>3. CASE UNCHANGED proc /\ Goto(w, "end")
    <3>1. Eof(w)' /\ pc'[w] = "end"
      BY <2>1, <2>3, GotoLabel DEF Eof, AtStart, Alive
    <3> QED
      BY <3>1 DEF Known
  <2> QED
    BY <1>2, <2>2, <2>3 DEF StartSpawned
<1>3. CASE CollectFrame(w)
  <2>1. AtNext(w)' /\ pc'[w] = "next"
    BY <1>3, CollectionRead, GotoLabel DEF CollectFrame, Known, procVars
  <2> QED
    BY <2>1 DEF Known
<1>4. CASE CollectEof(w)
  <2>1. Eof(w)' /\ pc'[w] = "doomed"
    BY <1>4, <1>b, GotoLabel DEF CollectEof, procVars
  <2> QED
    BY <2>1 DEF Known
<1>5. CASE NextBatch(w)
  <2>1. AtNext(w) /\ ~StopSeen /\ UNCHANGED <<proc, inp, out>> /\ pc'[w] = "send"
    BY <1>5, GotoLabel DEF NextBatch, Known, TakeBatch, Refused, StopSeen, procVars
  <2> QED
    BY <2>1 DEF Known, AtNext, AtSend, Alive
<1>6. CASE NoMoreBatches(w)
  <2>1. AtNext(w) /\ UNCHANGED proc /\ pc'[w] = "drain"
    BY <1>6, GotoLabel DEF NoMoreBatches, Known, procVars
  <2>2. Alive(w) => inp'[w] = <<Shutdown>>
    BY <1>6, <2>1, WriteLast, Built DEF NoMoreBatches, AtNext
  <2>3. Alive(w)' => ~HasRun(w)'
    BY <2>1, <2>2 DEF Alive, HasRun, Shutdown
  <2> QED
    BY <2>1, <2>3 DEF Known
<1>7. CASE SendRun(w)
  <2>1. AtSend(w) /\ UNCHANGED <<proc, out>> /\ Write(w, Run(held[w]))
        /\ pc'[w] = IF Alive(w) THEN "read" ELSE "crashed"
    BY <1>7, GotoLabel DEF SendRun, Known, procVars
  <2>2. CASE Alive(w)
    <3>1. Run(held[w]) \in Messages
      BY <1>7, Built DEF SendRun, OwnerTypes
    <3>2. inp'[w] = <<Run(held[w])>>
      BY <2>1, <2>2, <3>1, WriteLast DEF AtSend
    <3>3. Len(inp'[w]) = 1 /\ HasRun(w)'
      BY <3>2 DEF HasRun, Run
    <3>4. proc'[w].st = "idle" /\ out'[w] = << >>
      BY <2>1, <2>2 DEF AtSend, Alive
    <3>5. AtRead(w)'
      BY <3>3, <3>4 DEF AtRead, InBatch, Said, Stopping
    <3> QED
      BY <2>1, <2>2, <3>5 DEF Known
  <2>3. CASE ~Alive(w)
    BY <2>1, <2>3 DEF Known, Eof, AtSend, Alive
  <2> QED
    BY <2>2, <2>3
<1>8. CASE ReadReport(w)
  <2>1. AtRead(w) /\ UNCHANGED <<pc, proc, inp>> /\ out[w] # << >> /\ Head(out[w]).kind = "report"
    BY <1>8 DEF ReadReport, Known, Frame, procVars
  <2>2. out'[w] = Tail(out[w])
    BY <1>8, PopTail DEF ReadReport
  <2>3. InBatch(w)'
    BY <2>1, InBatchRead DEF AtRead
  <2>4. \A k \in {"interrupted", "done"} : 1 \notin Said(w, k)
    BY <1>a, <2>1 DEF Said
  <2>5. CASE ~StopSeen
    <3>1. proc[w].st \in Stopping => Said(w, "interrupted")' # {}
      <4>1. ASSUME NEW j \in Said(w, "interrupted") PROVE j - 1 \in Said(w, "interrupted")'
        BY <1>a, <2>1, <2>2, <2>4, SaidTail
      <4> QED
        BY <2>1, <2>5, <4>1 DEF AtRead
    <3>2. ASSUME NEW i \in Said(w, "done")'
          PROVE  \/ i = Len(out'[w]) /\ proc[w].st \in {"idle", "gone"}
                 \/ \E j \in Said(w, "interrupted")' : j < i
      <4>1. i \in Nat /\ i + 1 \in Said(w, "done")
        BY <1>a, <2>1, <2>2, SaidTail
      <4>2. Len(out[w]) = Len(out'[w]) + 1 /\ Len(out'[w]) \in Nat
        BY <1>a, <2>1, <2>2
      <4>3. CASE i + 1 = Len(out[w]) /\ proc[w].st \in {"idle", "gone"}
        BY <4>1, <4>2, <4>3
      <4>4. CASE \E j \in Said(w, "interrupted") : j < i + 1
        <5>1. PICK j \in Said(w, "interrupted") : j < i + 1
          BY <4>4
        <5>2. j \in Nat /\ j >= 1 /\ j - 1 \in Said(w, "interrupted")'
          BY <1>a, <2>1, <2>2, <2>4, SaidTail
        <5>3. j - 1 < i
          BY <4>1, <5>1, <5>2
        <5> QED
          BY <5>2, <5>3
      <4> QED
        BY <2>1, <2>5, <4>1, <4>3, <4>4 DEF AtRead
    <3> QED
      BY <1>8, <2>1, <2>3, <3>1, <3>2 DEF ReadReport, Known, AtRead
  <2> QED
    BY <1>8, <2>1, <2>3, <2>5 DEF ReadReport, Known, AtRead
<1>9. CASE ReadDone(w)
  <2>1. AtRead(w) /\ UNCHANGED <<proc, inp>> /\ out[w] # << >> /\ Head(out[w]).kind = "done" /\ pc'[w] = "next"
    BY <1>9, GotoLabel DEF ReadDone, Known, Frame, procVars
  <2>2. out'[w] = Tail(out[w])
    BY <1>9, PopTail DEF ReadDone
  <2>3. (Alive(w) => inp[w] = << >>) /\ proc[w].st \notin {"input", "collecting"}
    BY <2>1, InBatchRead DEF AtRead, InBatch
  <2>4. CASE ~StopSeen
    <3>1. 1 \in Said(w, "done") /\ \A j \in Said(w, "interrupted") : j \in Nat /\ j >= 1
      BY <1>a, <2>1 DEF Said
    <3>2. Len(out[w]) = 1 /\ proc[w].st \in {"idle", "gone"}
      <4>1. \/ 1 = Len(out[w]) /\ proc[w].st \in {"idle", "gone"}
            \/ \E j \in Said(w, "interrupted") : j < 1
        BY <2>1, <2>4, <3>1 DEF AtRead
      <4>2. ~ \E j \in Said(w, "interrupted") : j < 1
        BY <3>1
      <4> QED
        BY <4>1, <4>2
    <3>3. out'[w] = << >>
      BY <1>a, <2>2, <3>2, TailOfOne
    <3> QED
      BY <2>1, <2>3, <3>2, <3>3 DEF Known, AtNext, Alive
  <2> QED
    BY <2>1, <2>3, <2>4 DEF Known, AtNext, Alive
<1>10. CASE ReadInterrupted(w)
  <2>1. InBatch(w)' /\ pc'[w] = "waitStop"
    BY <1>10, GotoLabel, InBatchRead DEF ReadInterrupted, Known, AtRead, Frame, procVars
  <2> QED
    BY <2>1 DEF Known
<1>11. CASE WaitStop(w)
  <2>1. InBatch(w) /\ StopSeen /\ UNCHANGED <<proc, inp, out>> /\ pc'[w] = "read"
    BY <1>11, GotoLabel DEF WaitStop, Known, procVars
  <2>2. InBatch(w)'
    BY <2>1 DEF InBatch, Alive, HasRun
  <2> QED
    BY <2>1, <2>2 DEF Known, AtRead
<1>12. CASE ReadEof(w) \/ DrainEof(w) \/ Reap(w)
  <2>1. Eof(w)' /\ pc'[w] \in {"crashed", "dying", "end"}
    BY <1>12, <1>b, GotoLabel DEF ReadEof, DrainEof, Reap, procVars
  <2> QED
    BY <2>1 DEF Known
<1>13. CASE Book(w)
  <2>1. Eof(w)' /\ pc'[w] = "tell"
    BY <1>13, <1>b, GotoLabel DEF Book, Known, procVars
  <2> QED
    BY <2>1 DEF Known
<1>14. CASE Tell(w)
  <2>1. Eof(w)
    BY <1>14 DEF Tell, Known
  <2>2. CASE /\ Become(w, Process("collecting")) /\ Goto(w, "absorb")
             /\ inp' = [inp EXCEPT ![w] = << >>] /\ out' = [out EXCEPT ![w] = << >>]
    <3>1. proc'[w].st = "collecting" /\ pc'[w] = "absorb" /\ inp'[w] = << >> /\ out'[w] = << >>
      BY <2>2, GotoLabel DEF Become, Process, ProcessTypes, PipeTypes
    <3> QED
      BY <3>1 DEF Known, AtCollect
  <2>3. CASE (Goto(w, "lost") \/ Goto(w, "end")) /\ UNCHANGED <<proc, inp, out>>
    <3>1. Eof(w)' /\ pc'[w] \in {"lost", "end"}
      BY <1>b, <2>1, <2>3, GotoLabel
    <3> QED
      BY <3>1 DEF Known
  <2> QED
    BY <1>14, <2>2, <2>3 DEF Tell
<1>15. CASE Absorb(w)
  <2>1. AtCollect(w) /\ UNCHANGED <<proc, inp>>
    BY <1>15 DEF Absorb, Known, procVars
  <2>2. CASE Frame(w, "collection") /\ Pop(w) /\ Goto(w, "next")
    <3>1. AtNext(w)' /\ pc'[w] = "next"
      BY <2>1, <2>2, CollectionRead, GotoLabel
    <3> QED
      BY <3>1 DEF Known
  <2>3. CASE Eof(w) /\ Goto(w, "lost") /\ UNCHANGED out
    <3>1. Eof(w)' /\ pc'[w] = "lost"
      BY <1>b, <2>1, <2>3, GotoLabel
    <3> QED
      BY <3>1 DEF Known
  <2> QED
    BY <1>15, <2>2, <2>3 DEF Absorb
<1>16. CASE DrainReport(w)
  BY <1>16 DEF DrainReport, Known, ownerVars, procVars, Alive, HasRun
<1>17. CASE DrainBye(w)
  <2>1. (Alive(w) => ~HasRun(w)) /\ UNCHANGED <<proc, inp>> /\ pc'[w] = "reap"
    BY <1>17, GotoLabel DEF DrainBye, Known, procVars
  <2> QED
    BY <2>1 DEF Known, Alive, HasRun
<1> QED
  BY <1>1, <1>2, <1>3, <1>4, <1>5, <1>6, <1>7, <1>8, <1>9, <1>10, <1>11, <1>12, <1>13,
     <1>14, <1>15, <1>16, <1>17 DEF OwnerStep

\* An owner's or a worker's step touches its own slot only.
LEMMA OwnSlot ==
    ASSUME Types, NEW w \in Worker, NEW v \in Worker, v # w,
           WorkerStep(w) \/ OwnerStep(w) \/ Die(w)
    PROVE  pc'[v] = pc[v] /\ proc'[v] = proc[v] /\ inp'[v] = inp[v] /\ out'[v] = out[v]
<1> USE DEF Types, OwnerTypes, ProcessTypes, PipeTypes, Become, Send, Goto, Write, Pop
<1>1. ASSUME WorkerStep(w) \/ Die(w)
      PROVE  pc'[v] = pc[v] /\ proc'[v] = proc[v] /\ inp'[v] = inp[v] /\ out'[v] = out[v]
  BY <1>1 DEF WorkerStep, ReadInput, Collect, ReadRun, Uncollected, Scopes, Body, Teardown,
         BatchEnd, Leave, ReadShutdown, FinalTeardown, SayBye, Exit, ProcessOnly, Die, ownerVars
<1>2. ASSUME OwnerStep(w)
      PROVE  pc'[v] = pc[v] /\ proc'[v] = proc[v] /\ inp'[v] = inp[v] /\ out'[v] = out[v]
  BY <1>2 DEF OwnerStep, StartForked, StartSpawned, CollectFrame, CollectEof, NextBatch,
         NoMoreBatches, SendRun, ReadReport, ReadDone, ReadInterrupted, WaitStop, ReadEof,
         Book, Tell, Absorb, DrainReport, DrainBye, DrainEof, Reap, procVars, ownerVars
<1> QED
  BY <1>1, <1>2

\* A death leaves what was written in the pipes.
LEMMA DieKnown ==
    ASSUME Types, NEW w \in Worker, Known(w), Die(w)
    PROVE  Known(w)'
<1>1. Alive(w) /\ proc'[w].st = "gone" /\ UNCHANGED <<pc, inp, out, aborted, softStopped>>
  BY DEF Die, Become, Process, Types, ProcessTypes, ownerVars, queueVars
<1>2. ~Alive(w)'
  BY <1>1 DEF Alive
<1>3. AtStart(w) => AtStart(w)'
  BY <1>1 DEF AtStart
<1>4. AtCollect(w) => AtCollect(w)'
  BY <1>1 DEF AtCollect
<1>5. AtNext(w) => AtNext(w)'
  BY <1>1, <1>2 DEF AtNext, StopSeen
<1>6. AtSend(w) => AtSend(w)'
  BY <1>1, <1>2 DEF AtSend
<1>7. InBatch(w) => InBatch(w)'
  BY <1>1, <1>2 DEF InBatch
<1>8. AtRead(w) => AtRead(w)'
  BY <1>1, <1>7 DEF AtRead, StopSeen, Said, Stopping
<1>9. ~Eof(w)
  BY <1>1 DEF Eof
<1> QED
  BY <1>1, <1>2, <1>3, <1>4, <1>5, <1>6, <1>7, <1>8, <1>9 DEF Known

LEMMA InitProtocol == Init => Protocol
<1> SUFFICES ASSUME Init PROVE Protocol
  OBVIOUS
<1>1. \A w \in Worker : AtStart(w) /\ pc[w] = "start"
  BY DEF Init, AtStart, Process
<1> QED
  BY <1>1 DEF Protocol, Known, Init

LEMMA NextProtocol ==
    ASSUME Types, Protocol, [Next]_vars
    PROVE  Protocol'
<1>1. StopSeen => StopSeen'
  BY StopStays
<1>2. CASE UNCHANGED vars
  <2>1. \A w \in Worker : Known(w)'
    BY <1>1, <1>2, KnownStays DEF Protocol, vars, ownerVars, procVars
  <2> QED
    BY <1>2, <2>1 DEF Protocol, Over, vars, ownerVars, mergeVars
<1>3. ASSUME NEW w \in Worker, WorkerStep(w) \/ OwnerStep(w) \/ Die(w)
      PROVE  Protocol'
  <2>1. \A v \in Worker : v # w => Known(v)'
    BY <1>1, <1>3, OwnSlot, KnownStays DEF Protocol
  <2>2. CASE WorkerStep(w)
    <3>1. Moves(w)
      BY <2>2, WorkerMoves
    <3>2. UNCHANGED <<pc, aborted, softStopped, exit>>
      BY <2>2 DEF WorkerStep, ReadInput, Collect, ReadRun, Uncollected, Scopes, Body, Teardown,
                  BatchEnd, Leave, ReadShutdown, FinalTeardown, SayBye, Exit, ProcessOnly,
                  queueVars, ownerVars, mergeVars
    <3>3. Known(w)'
      BY <3>1, <3>2, WorkerKnown DEF Protocol, StopSeen
    <3> QED
      BY <2>1, <3>2, <3>3 DEF Protocol, Over
  <2>3. CASE OwnerStep(w)
    <3>1. Known(w)'
      BY <1>1, <2>3, OwnerKnown DEF Protocol
    <3>2. UNCHANGED exit
      BY <2>3 DEF OwnerStep, StartForked, StartSpawned, CollectFrame, CollectEof, NextBatch,
         NoMoreBatches, SendRun, ReadReport, ReadDone, ReadInterrupted, WaitStop, ReadEof,
         Book, Tell, Absorb, DrainReport, DrainBye, DrainEof, Reap, mergeVars
    <3>3. ~Over
      BY <2>3 DEF Over, OwnerStep, StartForked, StartSpawned, CollectFrame, CollectEof, NextBatch,
         NoMoreBatches, SendRun, ReadReport, ReadDone, ReadInterrupted, WaitStop, ReadEof,
         Book, Tell, Absorb, DrainReport, DrainBye, DrainEof, Reap
    <3> QED
      BY <2>1, <3>1, <3>2, <3>3 DEF Protocol
  <2>4. CASE Die(w)
    <3>1. Known(w)' /\ UNCHANGED <<pc, exit>>
      BY <2>4, DieKnown DEF Protocol, Die, ownerVars, mergeVars
    <3> QED
      BY <2>1, <3>1 DEF Protocol, Over
  <2> QED
    BY <1>3, <2>2, <2>3, <2>4
<1>4. CASE MergeStep
  <2>1. UNCHANGED <<pc, proc, inp, out>>
    BY <1>4 DEF MergeStep, MergeFirst, MergeSame, MergeDifferent, MergeCount, MergeReport,
           MergeInterrupted, MergeBanner, MergeEnd, MergeOnly, ownerVars, procVars
  <2>2. \A v \in Worker : Known(v)'
    BY <1>1, <2>1, KnownStays DEF Protocol
  <2>3. exit' = exit \/ Over
    BY <1>4 DEF MergeStep, MergeFirst, MergeSame, MergeDifferent, MergeCount, MergeReport,
           MergeInterrupted, MergeBanner, MergeEnd, MergeOnly
  <2> QED
    BY <2>1, <2>2, <2>3 DEF Protocol, Over
<1> QED
  BY <1>2, <1>3, <1>4 DEF Next, Terminated

LEMMA Followed == Spec => []Protocol
<1>1. Types /\ Protocol /\ [Next]_vars => Protocol'
  BY NextProtocol
<1> QED
  BY InitProtocol, Typed, <1>1, PTL DEF Spec

\* However the owners, the workers and the merge loop are interleaved and
\* whoever dies, the run ends only when all its processes are gone and what
\* they wrote has been read.
THEOREM DistNothingLeftBehind == Spec => []NothingLeftBehind
<1>1. Protocol => NothingLeftBehind
  BY DEF Protocol, Known, Over, NothingLeftBehind, Eof
<1> QED
  BY <1>1, Followed, PTL

\* A worker that leaves its loop never has a batch in its input, because its
\* owner reads the interrupt before the "done" and waits for the stop between
\* the two.
THEOREM DistNoRunAfterLeave == Spec => []NoRunAfterLeave
<1>1. Types /\ Protocol => NoRunAfterLeave
  <2> SUFFICES ASSUME Types, Protocol, NEW w \in Worker, proc[w].st \in Stopping
               PROVE  ~HasRun(w)
    BY DEF NoRunAfterLeave, HasRun, Stopping
  <2>1. Alive(w) /\ proc[w].st \notin {"input", "collecting", "idle", "gone"} /\ pc[w] \in PcState
    BY DEF Alive, Stopping, Types, OwnerTypes
  <2>2. inp[w] = << >> => ~HasRun(w)
    BY DEF HasRun
  <2> QED
    BY <2>1, <2>2 DEF Protocol, Known, AtStart, AtCollect, AtNext, AtSend, AtRead, InBatch, Eof, PcState
<1> QED
  BY <1>1, Typed, Followed, PTL

-----------------------------------------------------------------------------
(* `remaining` when a report is read. *)

LEMMA WithoutAbsent ==
    ASSUME NEW Elem, NEW h, h \in Seq(Elem), NEW t, \A k \in DOMAIN h : h[k] # t
    PROVE  Without(h, t) = h
<1> DEFINE n == Len(h)
           K == {i \in DOMAIN h : h[i] # t}
<1>1. n \in Nat /\ DOMAIN h = 1 .. n /\ K = 1 .. n
  OBVIOUS
<1>2. \A k \in 1 .. n : Cardinality({j \in 1 .. n : j <= k}) = k
  <2> TAKE k \in 1 .. n
  <2>1. {j \in 1 .. n : j <= k} = 1 .. k
    OBVIOUS
  <2>2. Cardinality(1 .. k) = k
    BY FS_Interval
  <2> QED
    BY <2>1, <2>2
<1>3. K \in SUBSET (1 .. n) /\ Cardinality(K) = n
  <2>1. Cardinality(1 .. n) = n
    <3> HIDE DEF n
    <3> QED
      BY <1>1, FS_Interval
  <2> HIDE DEF K, n
  <2> QED
    BY <1>1, <2>1
<1>4. DOMAIN InOrder(K) = 1 .. n /\ \A k \in 1 .. n : InOrder(K)[k] \in 1 .. n /\ Rank(K, InOrder(K)[k]) = k
  <2> HIDE DEF n, K
  <2> QED
    BY <1>1, <1>3, InOrderPositions
<1>5. \A k \in 1 .. n : InOrder(K)[k] = k
  <2> TAKE k \in 1 .. n
  <2> DEFINE i == InOrder(K)[k]
  <2>1. i \in 1 .. n /\ Rank(K, i) = k
    BY <1>4
  <2> HIDE DEF i, K, n
  <2>2. Rank(K, i) = i
    BY <1>1, <1>2, <2>1 DEF Rank
  <2> QED
    BY <2>1, <2>2 DEF i
<1>6. Without(h, t) = [k \in 1 .. n |-> h[k]]
  <2>1. Without(h, t) = [k \in DOMAIN InOrder(K) |-> h[InOrder(K)[k]]]
    BY DEF Without
  <2> HIDE DEF K, n
  <2> QED
    BY <1>4, <1>5, <2>1
<1> QED
  BY <1>1, <1>6

\* The worker runs its batch in order: the test that is reported is the first.
LEMMA WithoutFirst ==
    ASSUME NEW Elem, NEW h, h \in Seq(Elem), h # << >>, Injective(h)
    PROVE  Without(h, h[1]) = Tail(h)
<1> DEFINE n == Len(h)
           K == {i \in DOMAIN h : h[i] # h[1]}
           m == n - 1
<1>1. n \in Nat /\ m \in Nat /\ DOMAIN h = 1 .. n
  OBVIOUS
<1>2. K = 2 .. n
  BY <1>1 DEF Injective
<1>3. \A k \in 2 .. n : Cardinality({j \in 2 .. n : j <= k}) = k - 1
  <2> TAKE k \in 2 .. n
  <2>1. {j \in 2 .. n : j <= k} = 2 .. k
    OBVIOUS
  <2>2. Cardinality(2 .. k) = k - 1
    BY FS_Interval
  <2> QED
    BY <2>1, <2>2
<1>4. K \in SUBSET (1 .. n) /\ Cardinality(K) = m
  <2>1. Cardinality(2 .. n) = m
    BY <1>1, FS_Interval
  <2> QED
    BY <1>1, <1>2, <2>1
<1>5. DOMAIN InOrder(K) = 1 .. m /\ \A k \in 1 .. m : InOrder(K)[k] \in K /\ Rank(K, InOrder(K)[k]) = k
  <2> HIDE DEF n, K, m
  <2> QED
    BY <1>1, <1>4, InOrderPositions
<1>6. \A k \in 1 .. m : InOrder(K)[k] = k + 1
  <2> TAKE k \in 1 .. m
  <2> DEFINE i == InOrder(K)[k]
  <2>1. i \in 2 .. n /\ Rank(K, i) = k
    BY <1>2, <1>5
  <2> HIDE DEF i, K
  <2>2. Rank(K, i) = i - 1
    BY <1>2, <1>3, <2>1 DEF Rank
  <2> QED
    BY <1>1, <2>1, <2>2 DEF i
<1>7. Without(h, h[1]) = [k \in 1 .. m |-> h[k + 1]]
  <2>1. Without(h, h[1]) = [k \in DOMAIN InOrder(K) |-> h[InOrder(K)[k]]]
    BY DEF Without
  <2> HIDE DEF K, n, m
  <2> QED
    BY <1>5, <1>6, <2>1
<1> DEFINE g == [k \in 1 .. m |-> h[k + 1]]
<1>8. g \in Seq(Elem) /\ Len(g) = m /\ \A k \in 1 .. m : g[k] = h[k + 1]
  <2>1. \A k \in 1 .. m : h[k + 1] \in Elem
    BY <1>1
  <2> HIDE DEF m, n
  <2> QED
    BY <1>1, <2>1
<1>9. Tail(h) \in Seq(Elem) /\ Len(Tail(h)) = m /\ \A k \in 1 .. m : Tail(h)[k] = h[k + 1]
  OBVIOUS
<1>10. g = Tail(h)
  <2> HIDE DEF g, m
  <2> QED
    BY <1>8, <1>9, SeqEqual
<1> QED
  BY <1>7, <1>10

-----------------------------------------------------------------------------
(* The account of a batch: what the frames on their way say of it. *)

Torn(f) == f.kind = "report" /\ f.phase = "teardown"
OfScope(f) == f.kind = "report" /\ f.phase = "scope"

\* n[i] tests have their teardown reported by the first i frames of s: the
\* first n[i] of h, in their order.  A scope is named after none that follow.
Counts(n, s, h) ==
    /\ n \in [0 .. Len(s) -> 0 .. Len(h)]
    /\ n[0] = 0
    /\ \A i, j \in 0 .. Len(s) : i <= j => n[i] <= n[j]
    /\ \A i \in 1 .. Len(s) :
          /\ IF Torn(s[i]) THEN n[i] = n[i - 1] + 1 /\ s[i].test = h[n[i]] ELSE n[i] = n[i - 1]
          /\ OfScope(s[i]) => \A k \in DOMAIN h : h[k] = s[i].test => k <= n[i]

LEMMA CountNothing ==
    ASSUME NEW Elem, NEW h, h \in Seq(Elem)
    PROVE  \E n : Counts(n, << >>, h) /\ n[0] = 0
<1> DEFINE n == [i \in 0 .. 0 |-> 0]
<1>1. Counts(n, << >>, h)
  BY DEF Counts
<1> QED
  BY <1>1

\* Frames that may follow when the first m tests of h are done: if d = 1 the last
\* of them reports the next test, and none other reports a teardown.
Follow(fs, h, m, d) ==
    /\ d = 1 => fs # << >>
    /\ \A i \in DOMAIN fs :
          /\ Torn(fs[i]) <=> i = Len(fs) /\ d = 1
          /\ Torn(fs[i]) => fs[i].test = h[m + 1]
          /\ OfScope(fs[i]) => \A k \in DOMAIN h : h[k] = fs[i].test => k <= m

\* The account of s goes on to r.
GoesOn(n, s, r, h, m) ==
    \E c : Counts(c, r, h) /\ c[Len(r)] = m /\ \A i \in 0 .. Len(s) : c[i] = n[i]

LEMMA CountMore ==
    ASSUME NEW Elem, NEW s, s \in Seq(Elem), NEW fs, fs \in Seq(Elem), NEW T, NEW h, h \in Seq(T),
           NEW n, Counts(n, s, h), NEW more, more \in 0 .. 1, n[Len(s)] + more <= Len(h),
           Follow(fs, h, n[Len(s)], more)
    PROVE  GoesOn(n, s, s \o fs, h, n[Len(s)] + more)
<1> DEFINE L == Len(s)
           M == Len(fs)
           r == s \o fs
           m == n[L]
           c == [i \in 0 .. L + M |-> IF i <= L THEN n[i] ELSE IF i = L + M THEN m + more ELSE m]
<1>1. /\ L \in Nat /\ M \in Nat /\ r \in Seq(Elem) /\ Len(r) = L + M
      /\ \A i \in 1 .. L : r[i] = s[i]
      /\ \A i \in 1 .. M : r[L + i] = fs[i]
      /\ DOMAIN fs = 1 .. M /\ DOMAIN h = 1 .. Len(h) /\ Len(h) \in Nat
  OBVIOUS
<1>2. /\ n \in [0 .. L -> 0 .. Len(h)] /\ n[0] = 0
      /\ \A i, j \in 0 .. L : i <= j => n[i] <= n[j]
      /\ \A i \in 1 .. L :
            /\ IF Torn(s[i]) THEN n[i] = n[i - 1] + 1 /\ s[i].test = h[n[i]] ELSE n[i] = n[i - 1]
            /\ OfScope(s[i]) => \A k \in DOMAIN h : h[k] = s[i].test => k <= n[i]
  BY DEF Counts
<1>3. m \in 0 .. Len(h) /\ m + more \in 0 .. Len(h) /\ more \in 0 .. 1 /\ (M = 0 => more = 0)
  <2>1. M = 0 => fs = << >>
    OBVIOUS
  <2> QED
    BY <1>1, <1>2, <2>1 DEF Follow
<1>4. \A i \in 1 .. M :
        /\ Torn(fs[i]) <=> i = M /\ more = 1
        /\ Torn(fs[i]) => fs[i].test = h[m + 1]
        /\ OfScope(fs[i]) => \A k \in DOMAIN h : h[k] = fs[i].test => k <= m
  BY <1>1 DEF Follow
<1> HIDE DEF L, M, m, r
<1>5. /\ \A i \in 0 .. L : c[i] = n[i]
      /\ \A i \in L + 1 .. L + M : c[i] = IF i = L + M THEN m + more ELSE m
      /\ c[L + M] = m + more
  BY <1>1, <1>2, <1>3 DEF m
<1>6. c \in [0 .. L + M -> 0 .. Len(h)]
  BY <1>1, <1>2, <1>3
<1> HIDE DEF c
<1>7. \A i, j \in 0 .. L + M : i <= j => c[i] <= c[j]
  <2> SUFFICES ASSUME NEW i \in 0 .. L + M, NEW j \in 0 .. L + M, i <= j PROVE c[i] <= c[j]
    OBVIOUS
  <2>1. \A k \in 0 .. L : c[k] <= m /\ c[k] \in Nat
    BY <1>1, <1>2, <1>5 DEF m
  <2>2. CASE j <= L
    <3>1. i \in 0 .. L /\ j \in 0 .. L
      BY <1>1, <2>2
    <3> QED
      BY <1>2, <1>5, <3>1
  <2>a. \A k \in L + 1 .. L + M : c[k] \in Nat /\ m <= c[k] /\ (k # L + M => c[k] = m)
    BY <1>3, <1>5
  <2>3. CASE j > L /\ i <= L
    <3>1. j \in L + 1 .. L + M /\ i \in 0 .. L
      BY <1>1, <2>3
    <3> QED
      BY <1>3, <2>1, <2>a, <3>1
  <2>4. CASE i > L
    <3>1. i \in L + 1 .. L + M /\ j \in L + 1 .. L + M
      BY <1>1, <2>4
    <3>2. i = L + M => j = i
      BY <1>1, <3>1
    <3> QED
      BY <1>3, <2>a, <3>1, <3>2
  <2> QED
    BY <1>1, <2>2, <2>3, <2>4
<1>8. ASSUME NEW i \in 1 .. L + M
      PROVE  /\ IF Torn(r[i]) THEN c[i] = c[i - 1] + 1 /\ r[i].test = h[c[i]] ELSE c[i] = c[i - 1]
             /\ OfScope(r[i]) => \A k \in DOMAIN h : h[k] = r[i].test => k <= c[i]
  <2>1. CASE i <= L
    <3>1. i \in 1 .. L /\ i - 1 \in 0 .. L /\ r[i] = s[i] /\ c[i] = n[i] /\ c[i - 1] = n[i - 1]
      BY <1>1, <1>5, <2>1
    <3> QED
      BY <1>2, <3>1
  <2>2. CASE i > L
    <3> DEFINE j == i - L
    <3>1. j \in 1 .. M /\ r[i] = fs[j] /\ (j = M <=> i = L + M)
      <4>1. j \in 1 .. M /\ i = L + j /\ (j = M <=> i = L + M)
        BY <1>1, <2>2
      <4> QED
        BY <1>1, <4>1
    <3>2. c[i - 1] = m
      <4>1. i - 1 = L => c[i - 1] = m
        BY <1>1, <1>5 DEF m
      <4>2. i - 1 # L => i - 1 \in L + 1 .. L + M /\ i - 1 # L + M
        BY <1>1, <2>2
      <4> QED
        BY <1>5, <4>1, <4>2
    <3>3. c[i] = IF i = L + M THEN m + more ELSE m
      BY <1>1, <1>5, <2>2
    <3> HIDE DEF j
    <3>4. CASE i = L + M /\ more = 1
      <4>1. Torn(r[i]) /\ r[i].test = h[m + 1] /\ c[i] = m + 1 /\ ~OfScope(r[i])
        BY <1>4, <3>1, <3>3, <3>4 DEF Torn, OfScope
      <4> QED
        BY <3>2, <4>1
    <3>5. CASE ~(i = L + M /\ more = 1)
      <4>1. ~Torn(r[i]) /\ c[i] = m
        BY <1>3, <1>4, <3>1, <3>3, <3>5
      <4> QED
        BY <1>4, <3>1, <3>2, <4>1
    <3> QED
      BY <3>4, <3>5
  <2> QED
    BY <1>1, <2>1, <2>2
<1>9. Counts(c, r, h)
  <2>1. c[0] = 0
    BY <1>1, <1>2, <1>5
  <2> QED
    BY <1>1, <1>6, <1>7, <1>8, <2>1 DEF Counts
<1>10. \A i \in 0 .. Len(s) : c[i] = n[i]
  BY <1>5 DEF L
<1>11. c[Len(r)] = n[Len(s)] + more
  BY <1>1, <1>5 DEF m, L
<1> QED
  BY <1>9, <1>10, <1>11 DEF r, GoesOn

\* The first frame of s is read, and the first test of h is struck off if it
\* says so: what follows is the account of the rest.
ReadOff(n, s, h) ==
    /\ Torn(s[1]) => h # << >> /\ s[1].test = h[1]
    /\ OfScope(s[1]) => \A k \in DOMAIN h : h[k] # s[1].test
    /\ n[1] = IF Torn(s[1]) THEN 1 ELSE 0
    /\ \E c : /\ Counts(c, Tail(s), IF Torn(s[1]) THEN Tail(h) ELSE h)
              /\ \A i \in 0 .. Len(s) - 1 : c[i] = n[i + 1] - n[1]

LEMMA CountLess ==
    ASSUME NEW Elem, NEW s, s \in Seq(Elem), s # << >>, NEW T, NEW h, h \in Seq(T),
           NEW n, Counts(n, s, h)
    PROVE  ReadOff(n, s, h)
<1> DEFINE L == Len(s) - 1
           r == Tail(s)
           one == IF Torn(s[1]) THEN 1 ELSE 0
           g == IF Torn(s[1]) THEN Tail(h) ELSE h
           c == [i \in 0 .. L |-> n[i + 1] - one]
<1>1. /\ L \in Nat /\ Len(s) = L + 1 /\ Len(r) = L
      /\ \A i \in 1 .. L : r[i] = s[i + 1]
      /\ DOMAIN h = 1 .. Len(h) /\ Len(h) \in Nat
  OBVIOUS
<1>2. /\ n \in [0 .. L + 1 -> 0 .. Len(h)] /\ n[0] = 0
      /\ \A i, j \in 0 .. L + 1 : i <= j => n[i] <= n[j]
      /\ \A i \in 1 .. L + 1 :
            /\ IF Torn(s[i]) THEN n[i] = n[i - 1] + 1 /\ s[i].test = h[n[i]] ELSE n[i] = n[i - 1]
            /\ OfScope(s[i]) => \A k \in DOMAIN h : h[k] = s[i].test => k <= n[i]
  BY <1>1 DEF Counts
<1>3. one \in 0 .. 1 /\ n[1] = one /\ (Torn(s[1]) <=> one = 1)
  BY <1>1, <1>2
<1>4. Torn(s[1]) => Len(h) >= 1 /\ s[1].test = h[1]
  BY <1>1, <1>2, <1>3
<1>5. OfScope(s[1]) => \A k \in DOMAIN h : h[k] # s[1].test
  <2>1. OfScope(s[1]) => n[1] = 0
    BY <1>3 DEF OfScope, Torn
  <2> QED
    BY <1>1, <1>2, <2>1
<1>6. /\ Len(g) = Len(h) - one /\ DOMAIN g = 1 .. Len(h) - one /\ Len(h) - one \in Nat
      /\ \A k \in 1 .. Len(h) - one : g[k] = h[k + one] /\ k + one \in 1 .. Len(h)
  <2>1. CASE Torn(s[1])
    <3>1. h # << >>
      BY <1>4, <2>1
    <3>2. /\ Len(Tail(h)) = Len(h) - 1 /\ DOMAIN Tail(h) = 1 .. Len(h) - 1 /\ Len(h) - 1 \in Nat
          /\ \A k \in 1 .. Len(h) - 1 : Tail(h)[k] = h[k + 1] /\ k + 1 \in 1 .. Len(h)
      BY <3>1
    <3> QED
      BY <2>1, <3>2
  <2>2. CASE ~Torn(s[1])
    BY <1>1, <2>2
  <2> QED
    BY <2>1, <2>2
<1> HIDE DEF L, r, one, g
<1>7. \A i \in 0 .. L : /\ c[i] = n[i + 1] - one /\ n[i + 1] \in 0 .. Len(h) /\ one <= n[i + 1]
                        /\ i + 1 \in 0 .. L + 1
  BY <1>1, <1>2, <1>3
<1>8. c \in [0 .. L -> 0 .. Len(g)] /\ c[0] = 0
  BY <1>1, <1>3, <1>6, <1>7
<1> HIDE DEF c
<1>9. \A i, j \in 0 .. L : i <= j => c[i] <= c[j]
  <2> SUFFICES ASSUME NEW i \in 0 .. L, NEW j \in 0 .. L, i <= j PROVE c[i] <= c[j]
    OBVIOUS
  <2>1. n[i + 1] <= n[j + 1]
    BY <1>1, <1>2, <1>7
  <2> QED
    BY <1>3, <1>7, <2>1
<1>10. ASSUME NEW i \in 1 .. L
       PROVE  /\ IF Torn(r[i]) THEN c[i] = c[i - 1] + 1 /\ r[i].test = g[c[i]] ELSE c[i] = c[i - 1]
              /\ OfScope(r[i]) => \A k \in DOMAIN g : g[k] = r[i].test => k <= c[i]
  <2> DEFINE j == i + 1
  <2>1. j \in 1 .. L + 1 /\ j - 1 = i /\ r[i] = s[j]
    BY <1>1
  <2>2. c[i] = n[j] - one /\ c[i - 1] = n[j - 1] - one /\ n[j] \in Nat /\ n[j - 1] \in Nat /\ one <= n[j - 1]
    <3>1. i \in 0 .. L /\ i - 1 \in 0 .. L /\ (i - 1) + 1 = j - 1
      BY <1>1
    <3> QED
      BY <1>2, <1>7, <3>1
  <2>3. /\ IF Torn(s[j]) THEN n[j] = n[j - 1] + 1 /\ s[j].test = h[n[j]] ELSE n[j] = n[j - 1]
        /\ OfScope(s[j]) => \A k \in DOMAIN h : h[k] = s[j].test => k <= n[j]
    BY <1>2, <2>1
  <2> HIDE DEF j
  <2>4. CASE Torn(r[i])
    <3>1. c[i] = c[i - 1] + 1 /\ r[i].test = h[n[j]] /\ ~OfScope(r[i])
      BY <1>3, <2>1, <2>2, <2>3, <2>4 DEF Torn, OfScope
    <3>2. c[i] \in 1 .. Len(g) /\ c[i] + one = n[j]
      <4>1. c[i] \in 0 .. Len(g) /\ c[i - 1] \in 0 .. Len(g)
        BY <1>1, <1>8
      <4> QED
        BY <1>3, <2>2, <3>1, <4>1, SMTT(60)
    <3>3. g[c[i]] = h[n[j]]
      BY <1>6, <3>2
    <3> QED
      BY <2>4, <3>1, <3>3
  <2>5. CASE ~Torn(r[i])
    <3>1. c[i] = c[i - 1]
      BY <2>1, <2>2, <2>3, <2>5
    <3>2. ASSUME OfScope(r[i]), NEW k \in DOMAIN g, g[k] = r[i].test PROVE k <= c[i]
      <4>1. k + one \in DOMAIN h /\ h[k + one] = r[i].test /\ k \in Nat
        BY <1>1, <1>6, <3>2
      <4>2. k + one <= n[j]
        BY <2>1, <2>3, <3>2, <4>1
      <4> QED
        BY <1>3, <2>2, <4>1, <4>2
    <3> QED
      BY <2>5, <3>1, <3>2
  <2> QED
    BY <2>4, <2>5
<1>11. Counts(c, r, g)
  BY <1>1, <1>8, <1>9, <1>10 DEF Counts
<1>12. \A i \in 0 .. Len(s) - 1 : c[i] = n[i + 1] - n[1]
  BY <1>3, <1>7 DEF L
<1>13. Torn(s[1]) => h # << >> /\ s[1].test = h[1]
  <2>1. h = << >> => Len(h) = 0
    OBVIOUS
  <2> QED
    BY <1>4, <2>1
<1> QED
  BY <1>3, <1>5, <1>11, <1>12, <1>13 DEF r, g, one, ReadOff
-----------------------------------------------------------------------------
(* What must be known of a slot.                                           *)

Working == {"read", "waitStop"}
Holding == {"send", "read", "waitStop", "crashed"}

\* Only an owner that works holds a batch, and only one that has booked a crash
\* remembers what it found.
OwnerSays(w) ==
    /\ held[w] # << >> => pc[w] \in Holding
    /\ IF pc[w] = "tell" THEN verdict[w].action # "none" /\ Len(verdict[w].running) <= 1
       ELSE verdict[w] = NoVerdict

NoBlame(w) == \A i \in DOMAIN out[w] : out[w][i].kind = "report" => out[w][i].phase # "crash"

\* No item is at work and none is reported.
Quiet(w) ==
    /\ proc[w].st \notin AtItem \cup {"batchEnd", "leaving"}
    /\ \A i \in DOMAIN out[w] : ~Torn(out[w][i])

\* After its "done" a worker reports no other item.
DoneLast(w) ==
    \A i \in Said(w, "done") :
        /\ proc[w].st \in {"idle", "final", "bye", "exiting", "gone"}
        /\ \A j \in DOMAIN out[w] : j > i => ~Torn(out[w][j])

\* The worker is behind the first m tests of what its owner holds.
Behind(w, m) ==
    /\ proc[w].st \in AtItem =>
          /\ Len(proc[w].batch) = Len(held[w]) - m
          /\ \A k \in DOMAIN proc[w].batch : proc[w].batch[k] = held[w][m + k]
    /\ proc[w].st = "batchEnd" => m = Len(held[w]) \/ LimitReached(proc[w].failed)
    /\ \A j \in DOMAIN proc[w].last, k \in DOMAIN held[w] :
          held[w][k] = proc[w].last[j] => k <= m

\* A "done" that comes before the end of the batch comes with a stop.
Final(w, n) ==
    pc[w] = "read" /\ ~StopSeen =>
        \A i \in Said(w, "done") :
            n[i] = Len(held[w]) \/ \E j \in Said(w, "interrupted") : j < i

InWork(w) ==
    /\ DoneLast(w)
    /\ Alive(w) => \A i \in DOMAIN inp[w] : inp[w][i].kind = "run" => inp[w][i].ids = held[w]
    /\ \E n \in [0 .. Len(out[w]) -> 0 .. Len(held[w])], m \in 0 .. Len(held[w]) :
          Counts(n, out[w], held[w]) /\ m = n[Len(out[w])] /\ Behind(w, m) /\ Final(w, n)

\* The item a worker ran last, which it names scope teardowns after, is not to
\* be run again.
LastGone(w) ==
    /\ proc[w].st \in {"input", "collecting", "gone"} => proc[w].last = << >>
    /\ \A j \in DOMAIN proc[w].last :
          /\ proc[w].last[j] \notin Tests(queues[w])
          /\ pc[w] = "send" => \A k \in DOMAIN held[w] : held[w][k] # proc[w].last[j]

Tally(w) ==
    /\ OwnerSays(w)
    /\ NoBlame(w)
    /\ Distinct(PendingOf(held[w], queues[w]))
    /\ LastGone(w)
    /\ IF pc[w] \in Working THEN InWork(w) ELSE Quiet(w)

(* And of the collections.                                                 *)

Coming == {i \in DOMAIN events : events[i].kind = "collection"}
Waiting == {w \in Worker : pc[w] \in {"start", "collect"}}
Taken == IF merge.at = "count" THEN 1 ELSE 0

\* The merge loop waits for those that have not arrived, and has kept the first.
Awaited ==
    /\ merge.pending = Cardinality(Waiting) + Cardinality(Coming) + Taken
    /\ merge.at = "count" \/ merge.pending < NumWorkers => merge.got

\* Before the batches are pushed there is nothing to run.
Virgin ==
    ~Pushed => \A w \in Worker : queues[w] = << >> /\ pc[w] \notin Holding /\ proc[w].last = << >>

\* A slot without a worker sends an empty collection: it is the first, or is
\* not the same as the first, which stops the run.
EmptyTold ==
    ~Pushed /\ ~Refused =>
        /\ ~batchesReady
        /\ \/ \A w \in Worker : pc[w] \in {"start", "collect", "next"}
           \/ \E i \in Coming : events[i].ids = << >>
           \/ merge.got /\ merge.first = << >>

Ledger == (\A w \in Worker : Tally(w)) /\ Awaited /\ Virgin /\ EmptyTold

-----------------------------------------------------------------------------
(* Nothing is known of a slot that another slot's steps could change.      *)

LEMMA TallyStays ==
    ASSUME Types, NEW w \in Worker, Tally(w), StopSeen => StopSeen',
           queues'[w] = queues[w] \/ queues'[w] = << >>,
           pc'[w] = pc[w], held'[w] = held[w], verdict'[w] = verdict[w],
           proc'[w] = proc[w], inp'[w] = inp[w], out'[w] = out[w]
    PROVE  Tally(w)'
<1>1. OwnerSays(w)' /\ NoBlame(w)' /\ (Quiet(w) => Quiet(w)')
  BY DEF Tally, OwnerSays, NoBlame, Quiet
<1>2. Distinct(PendingOf(held[w], queues[w]))' /\ LastGone(w)'
  <2>1. CASE queues'[w] = queues[w]
    BY <2>1 DEF Tally, LastGone
  <2>2. CASE queues'[w] = << >>
    <3>1. held[w] \in Batch /\ queues[w] \in Seq(Batch)
      BY DEF Types, OwnerTypes, QueueTypes, QueueTypeOK
    <3>2. Distinct(PendingOf(held[w], << >>))
      BY <3>1, ClearMoves DEF Tally
    <3>3. Tests(<< >>) = {}
      BY DEF Tests
    <3>4. LastGone(w)'
      BY <2>2, <3>3 DEF Tally, LastGone
    <3> QED
      BY <2>2, <3>2, <3>4
  <2> QED
    BY <2>1, <2>2
<1>3. InWork(w) => InWork(w)'
  <2> SUFFICES ASSUME InWork(w) PROVE InWork(w)'
    OBVIOUS
  <2>1. /\ DoneLast(w)'
        /\ Alive(w)' => \A i \in DOMAIN inp'[w] : inp'[w][i].kind = "run" => inp'[w][i].ids = held'[w]
    BY DEF InWork, DoneLast, Said, Alive
  <2>2. PICK n \in [0 .. Len(out[w]) -> 0 .. Len(held[w])], m \in 0 .. Len(held[w]) :
          Counts(n, out[w], held[w]) /\ m = n[Len(out[w])] /\ Behind(w, m) /\ Final(w, n)
    BY DEF InWork
  <2>3. Behind(w, m)' /\ Final(w, n)'
    BY <2>2 DEF Behind, Final, Said
  <2> QED
    BY <2>1, <2>2, <2>3 DEF InWork
<1> QED
  BY <1>1, <1>2, <1>3 DEF Tally

-----------------------------------------------------------------------------
(* The worker's steps.                                                     *)

LEMMA InConcat ==
    ASSUME NEW Elem, NEW s, s \in Seq(Elem), NEW fs, fs \in Seq(Elem), NEW i, i \in DOMAIN (s \o fs)
    PROVE  \/ i \in DOMAIN s /\ (s \o fs)[i] = s[i]
           \/ /\ i \in Nat /\ i > Len(s)
              /\ i - Len(s) \in DOMAIN fs /\ (s \o fs)[i] = fs[i - Len(s)]
OBVIOUS

\* The reports of scope teardowns name the last item.
LEMMA ScopeNames ==
    ASSUME NEW w \in Worker, NEW k \in Nat, NEW i, i \in DOMAIN ScopeFailures(w, k), ProcessTypes
    PROVE  /\ ScopeFailures(w, k)[i].kind = "report" /\ ScopeFailures(w, k)[i].phase = "scope"
           /\ 1 \in DOMAIN proc[w].last /\ ScopeFailures(w, k)[i].test = proc[w].last[1]
<1>1. proc[w].last \in Seq(Test)
  BY DEF ProcessTypes, Processes, Batch
<1>2. proc[w].last # << >>
  BY DEF ScopeFailures
<1>3. 1 \in DOMAIN proc[w].last
  BY <1>1, <1>2
<1> QED
  BY <1>2, <1>3 DEF ScopeFailures, Report

\* The account goes on with what is written.
CountedOn(w, old, m) ==
    \E c \in [0 .. Len(out'[w]) -> 0 .. Len(held'[w])] :
        /\ Counts(c, out'[w], held'[w])
        /\ c[Len(out'[w])] = m /\ m \in 0 .. Len(held'[w])
        /\ \A i \in 0 .. Len(out[w]) : c[i] = old[i]

LEMMA Accounted ==
    ASSUME PipeTypes, OwnerTypes, NEW w \in Worker,
           NEW old, Counts(old, out[w], held[w]), NEW m, m = old[Len(out[w])],
           NEW gs, gs \in Seq(Frames), out'[w] = out[w] \o gs, held'[w] = held[w],
           NEW d, d \in 0 .. 1, m + d <= Len(held[w]), Follow(gs, held[w], m, d)
    PROVE  CountedOn(w, old, m + d)
<1> DEFINE S0 == out[w]
           H0 == held[w]
<1>1. S0 \in Seq(Frames) /\ H0 \in Seq(Test) /\ out'[w] = S0 \o gs
  BY DEF PipeTypes, OwnerTypes, Batch
<1>2. GoesOn(old, S0, S0 \o gs, H0, old[Len(S0)] + d)
  <2>1. /\ Counts(old, S0, H0) /\ old[Len(S0)] + d <= Len(H0)
        /\ Follow(gs, H0, old[Len(S0)], d)
    OBVIOUS
  <2> HIDE DEF S0, H0
  <2> QED
    BY <1>1, <2>1, CountMore
<1>3. PICK c : /\ Counts(c, S0 \o gs, H0)
               /\ c[Len(S0 \o gs)] = old[Len(S0)] + d
               /\ \A i \in 0 .. Len(S0) : c[i] = old[i]
  BY <1>2 DEF GoesOn
<1>4. c \in [0 .. Len(S0 \o gs) -> 0 .. Len(H0)] /\ Len(S0 \o gs) \in Nat
  BY <1>1, <1>3 DEF Counts
<1>5. c[Len(S0 \o gs)] \in 0 .. Len(H0)
  <2>1. PICK e : e = Len(S0 \o gs)
    OBVIOUS
  <2> HIDE DEF S0, H0
  <2> QED
    BY <1>4, <2>1, SMTT(60)
<1> QED
  BY <1>1, <1>3, <1>4, <1>5 DEF CountedOn

\* Only the first "done" of a batch that is over, or one of a worker that has
\* left, is written without a stop.
AtEndOnly(w, gs, over) ==
    \A i \in DOMAIN gs :
        /\ gs[i].kind = "report" => gs[i].phase # "crash"
        /\ gs[i].kind = "done" /\ pc[w] = "read" /\ ~StopSeen =>
              \/ i = Len(gs) /\ over
              \/ Said(w, "interrupted") # {}

NoInput(w) == \A i \in DOMAIN inp'[w] : \E j \in DOMAIN inp[w] : inp'[w][i] = inp[w][j]

\* What the owner of a batch knows survives what its worker writes.
LEMMA WrittenOn ==
    ASSUME Types, NEW w \in Worker, Tally(w), pc[w] \in Working, UNCHANGED <<queueVars, ownerVars>>,
           NEW old, Counts(old, out[w], held[w]), NEW m, m = old[Len(out[w])], Final(w, old),
           NEW gs, gs \in Seq(Frames), out'[w] = out[w] \o gs,
           NEW d, d \in 0 .. 1, NEW mm, mm = m + d, mm <= Len(held[w]), Follow(gs, held[w], m, d),
           Behind(w, mm)', LastGone(w)', DoneLast(w)',
           Alive(w), NoInput(w), AtEndOnly(w, gs, mm = Len(held[w]))
    PROVE  Tally(w)'
<1> USE DEF Types
<1>1. out[w] \in Seq(Frames) /\ Len(out[w]) \in Nat /\ out'[w] = out[w] \o gs
  BY DEF PipeTypes
<1>2. PICK c \in [0 .. Len(out'[w]) -> 0 .. Len(held'[w])] :
        /\ Counts(c, out'[w], held'[w])
        /\ c[Len(out'[w])] = mm /\ mm \in 0 .. Len(held'[w])
        /\ \A i \in 0 .. Len(out[w]) : c[i] = old[i]
  <2>1. PipeTypes /\ OwnerTypes /\ held'[w] = held[w]
    BY DEF ownerVars
  <2>2. CountedOn(w, old, m + d)
    BY <2>1, Accounted
  <2> QED
    BY <2>2 DEF CountedOn
<1>3. OwnerSays(w)' /\ Distinct(PendingOf(held[w], queues[w]))'
  BY DEF Tally, OwnerSays, ownerVars, queueVars
<1>4. \A i \in DOMAIN out'[w] :
        \/ i \in DOMAIN out[w] /\ out'[w][i] = out[w][i]
        \/ /\ i \in Nat /\ i > Len(out[w])
           /\ i - Len(out[w]) \in DOMAIN gs /\ out'[w][i] = gs[i - Len(out[w])]
  BY <1>1, InConcat
<1>5. NoBlame(w)'
  BY <1>4 DEF Tally, NoBlame, AtEndOnly
<1>6. Final(w, c)'
  <2> SUFFICES ASSUME pc[w] = "read", ~StopSeen, NEW i, i \in Said(w, "done")'
               PROVE  c[i] = Len(held[w]) \/ \E j \in Said(w, "interrupted")' : j < i
    BY DEF Final, ownerVars, queueVars, StopSeen
  <2>0. \A j \in Said(w, "interrupted") : j \in Said(w, "interrupted")' /\ j \in Nat /\ j <= Len(out[w])
    <3> TAKE j \in Said(w, "interrupted")
    <3>1. j \in DOMAIN out[w] /\ out[w][j].kind = "interrupted"
      BY DEF Said
    <3>2. j \in DOMAIN out'[w] /\ out'[w][j] = out[w][j] /\ j \in Nat /\ j <= Len(out[w])
      BY <1>1, <3>1
    <3> QED
      BY <3>1, <3>2 DEF Said
  <2>1. CASE i \in DOMAIN out[w] /\ out'[w][i] = out[w][i]
    <3>1. i \in Said(w, "done") /\ i \in 0 .. Len(out[w])
      BY <1>1, <2>1 DEF Said
    <3>2. old[i] = Len(held[w]) \/ \E j \in Said(w, "interrupted") : j < i
      BY <3>1 DEF Final
    <3> QED
      BY <1>2, <2>0, <3>1, <3>2
  <2>2. CASE /\ i \in Nat /\ i > Len(out[w])
             /\ i - Len(out[w]) \in DOMAIN gs /\ out'[w][i] = gs[i - Len(out[w])]
    <3> DEFINE l == i - Len(out[w])
    <3>1. l \in DOMAIN gs /\ gs[l].kind = "done"
      BY <2>2 DEF Said
    <3> HIDE DEF l
    <3>2. (l = Len(gs) /\ mm = Len(held[w])) \/ Said(w, "interrupted") # {}
      BY <3>1 DEF AtEndOnly
    <3>3. l = Len(gs) => i = Len(out'[w])
      BY <1>1, <2>2 DEF l
    <3> QED
      BY <1>1, <1>2, <2>0, <2>2, <3>2, <3>3
  <2> QED
    BY <1>4, <2>1, <2>2 DEF Said
<1>7. Alive(w)' => \A i \in DOMAIN inp'[w] : inp'[w][i].kind = "run" => inp'[w][i].ids = held'[w]
  BY DEF Tally, InWork, ownerVars, NoInput
<1>8. InWork(w)'
  BY <1>2, <1>6, <1>7 DEF InWork
<1> QED
  BY <1>3, <1>5, <1>8 DEF Tally, ownerVars

\* Nor does anything change for an owner whose worker has no batch.
LEMMA QuietOn ==
    ASSUME Types, NEW w \in Worker, Tally(w), pc[w] \notin Working, UNCHANGED <<queueVars, ownerVars>>,
           NEW gs, gs \in Seq(Frames), out'[w] = out[w] \o gs,
           \A i \in DOMAIN gs : ~Torn(gs[i]) /\ (gs[i].kind = "report" => gs[i].phase # "crash"),
           proc'[w].st \notin AtItem \cup {"batchEnd", "leaving"},
           proc'[w].last = << >> \/ proc'[w].last = proc[w].last,
           proc'[w].st \in {"input", "collecting", "gone"} => proc'[w].last = << >>
    PROVE  Tally(w)'
<1>1. out[w] \in Seq(Frames)
  BY DEF Types, PipeTypes
<1>2. \A i \in DOMAIN out'[w] :
        \/ i \in DOMAIN out[w] /\ out'[w][i] = out[w][i]
        \/ i - Len(out[w]) \in DOMAIN gs /\ out'[w][i] = gs[i - Len(out[w])]
  BY <1>1, InConcat
<1>3. OwnerSays(w)' /\ Distinct(PendingOf(held[w], queues[w]))'
  BY DEF Tally, OwnerSays, ownerVars, queueVars
<1>4. NoBlame(w)' /\ Quiet(w)'
  BY <1>2 DEF Tally, NoBlame, Quiet
<1>5. LastGone(w)'
  BY DEF Tally, LastGone, ownerVars, queueVars
<1> QED
  BY <1>3, <1>4, <1>5 DEF Tally, ownerVars

\* The frames a worker writes outside the items.
LEMMA PlainFrames ==
    ASSUME ProcessTypes, NEW w \in Worker, NEW gs,
           \/ gs = << >> \/ gs = <<Bye>> \/ gs = <<Done>>
           \/ \E c \in Int : gs = <<Interrupted(c)>>
           \/ \E ids \in CollectChoices : gs = <<Collection(ids)>>
           \/ \E n \in ScopeFails : gs = ScopeFailures(w, n)
           \/ \E f \in Frames : gs = <<f>> /\ f.kind = "report" /\ f.phase = "call"
    PROVE  /\ gs \in Seq(Frames)
           /\ \A i \in DOMAIN gs : ~Torn(gs[i]) /\ (gs[i].kind = "report" => gs[i].phase # "crash")
<1>1. CASE gs = << >> \/ gs = <<Bye>> \/ gs = <<Done>>
  <2>1. Bye \in Frames /\ Done \in Frames /\ Bye.kind # "report" /\ Done.kind # "report"
    BY DEF Frames, Bye, Done
  <2>2. gs \in Seq(Frames)
    BY <1>1, <2>1, FewFrames
  <2>3. \A i \in DOMAIN gs : gs[i] = Bye \/ gs[i] = Done
    BY <1>1
  <2> QED
    BY <2>1, <2>2, <2>3 DEF Torn
<1>2. CASE \E c \in Int : gs = <<Interrupted(c)>>
  <2>1. PICK c \in Int : gs = <<Interrupted(c)>>
    BY <1>2
  <2>2. Interrupted(c) \in Frames /\ Interrupted(c).kind = "interrupted"
    BY Built DEF Frames, Interrupted
  <2> QED
    BY <2>1, <2>2 DEF Torn
<1>3. CASE \E ids \in CollectChoices : gs = <<Collection(ids)>>
  <2>1. PICK ids \in CollectChoices : gs = <<Collection(ids)>>
    BY <1>3
  <2>2. Collection(ids) \in Frames /\ Collection(ids).kind = "collection"
    BY Built DEF Frames, Collection
  <2> QED
    BY <2>1, <2>2 DEF Torn
<1>4. CASE \E n \in ScopeFails : gs = ScopeFailures(w, n)
  <2>1. PICK n \in ScopeFails : gs = ScopeFailures(w, n)
    BY <1>4
  <2>2. n \in Nat
    BY DistAssumption
  <2>3. gs \in Seq(Frames)
    BY <2>1, <2>2, ScopeFailuresType
  <2>4. ASSUME NEW i \in DOMAIN gs PROVE gs[i].phase = "scope"
    BY <2>1, <2>2, ScopeNames
  <2> QED
    BY <2>3, <2>4 DEF Torn
<1>5. CASE \E f \in Frames : gs = <<f>> /\ f.kind = "report" /\ f.phase = "call"
  BY <1>5 DEF Torn
<1> QED
  BY <1>1, <1>2, <1>3, <1>4, <1>5

LEMMA QuietWorker ==
    ASSUME Types, NEW w \in Worker, Known(w), Tally(w), pc[w] \notin Working, WorkerStep(w)
    PROVE  Tally(w)'
<1> USE DEF Types, ProcessOnly
<1>a. /\ proc[w] \in Processes /\ proc \in [Worker -> Processes]
      /\ out[w] \in Seq(Frames) /\ out \in [Worker -> Seq(Frames)] /\ out[w] \o << >> = out[w]
  BY DEF ProcessTypes, PipeTypes
<1>b. proc[w].st \notin AtItem \cup {"batchEnd", "leaving"}
  BY DEF Tally, Quiet
<1>c. UNCHANGED <<queueVars, ownerVars>> /\ Alive(w)
  BY DEF Alive, WorkerStep, ReadInput, Collect, ReadRun, Uncollected, Scopes, Body, Teardown, BatchEnd,
         Leave, ReadShutdown, FinalTeardown, SayBye, Exit
<1>d. ASSUME NEW gs, \/ gs = << >> \/ gs = <<Bye>>
                     \/ \E ids \in CollectChoices : gs = <<Collection(ids)>>
                     \/ \E n \in ScopeFails : gs = ScopeFailures(w, n),
             out'[w] = out[w] \o gs,
             proc'[w].st \in {"collecting", "idle", "final", "bye", "exiting", "gone"},
             proc'[w].last = << >> \/ proc'[w].last = proc[w].last,
             proc'[w].st \in {"collecting", "gone"} => proc'[w].last = << >>
      PROVE  Tally(w)'
  <2>1. /\ gs \in Seq(Frames)
        /\ \A i \in DOMAIN gs : ~Torn(gs[i]) /\ (gs[i].kind = "report" => gs[i].phase # "crash")
    BY <1>d, PlainFrames
  <2>2. /\ proc'[w].st \notin AtItem \cup {"batchEnd", "leaving"}
        /\ proc'[w].st \in {"input", "collecting", "gone"} => proc'[w].last = << >>
    BY <1>d DEF AtItem
  <2> QED
    BY <1>c, <1>d, <2>1, <2>2, QuietOn
<1>1. CASE ReadInput(w)
  BY <1>1, <1>a, <1>d DEF ReadInput, Become, Process
<1>2. CASE Collect(w)
  BY <1>2, <1>a, <1>d DEF Collect, Send, Become, Process
<1>3. CASE ReadRun(w)
  <2>1. HasRun(w) /\ Alive(w) /\ proc[w].st = "idle" /\ inp[w] # << >>
    <3>1. 1 \in DOMAIN inp[w] /\ inp[w][1].kind = "run"
      BY <1>3 DEF ReadRun, PipeTypes
    <3> QED
      BY <1>3, <3>1 DEF ReadRun, HasRun, Alive
  <2> QED
    BY <2>1 DEF Known, AtStart, AtCollect, AtNext, AtSend, Eof, Working, OwnerTypes, PcState
<1>4. CASE ReadShutdown(w)
  BY <1>4, <1>a, <1>d DEF ReadShutdown, Become, Processes
<1>5. CASE FinalTeardown(w)
  <2>1. PICK n \in ScopeFails : Send(w, ScopeFailures(w, n))
    BY <1>5 DEF FinalTeardown
  <2>2. out'[w] = out[w] \o ScopeFailures(w, n)
    BY <1>a, <2>1 DEF Send
  <2>3. proc'[w].st = "bye" /\ proc'[w].last = proc[w].last
    BY <1>5, <1>a DEF FinalTeardown, Become, Processes
  <2>4. PICK gs : gs = ScopeFailures(w, n)
    OBVIOUS
  <2> QED
    BY <1>d, <2>2, <2>3, <2>4
<1>6. CASE SayBye(w)
  BY <1>6, <1>a, <1>d DEF SayBye, Send, Become, Processes
<1>7. CASE Exit(w)
  BY <1>7, <1>a, <1>d DEF Exit, Become, Process
<1> QED
  BY <1>b, <1>1, <1>2, <1>3, <1>4, <1>5, <1>6, <1>7
  DEF WorkerStep, AtItem, Uncollected, Scopes, Body, Teardown, BatchEnd, Leave

-----------------------------------------------------------------------------
(* The steps of a worker that has a batch, or has left its loop.           *)

\* What a batch in work says of the test its worker is at, the n-th.
AtPlace(w, n) ==
    LET rest == Tail(proc[w].batch)
    IN  /\ n \in 1 .. Len(held[w]) /\ Head(proc[w].batch) = held[w][n]
        /\ Head(proc[w].batch) \in Test
        /\ Len(rest) = Len(held[w]) - n
        /\ \A k \in DOMAIN rest : rest[k] = held[w][n + k]
        /\ rest = << >> => n = Len(held[w])
        /\ \A k \in DOMAIN held[w] : held[w][k] = held[w][n] => k = n
        /\ held[w][n] \notin Tests(queues[w])

LEMMA AtTest ==
    ASSUME Types, NEW w \in Worker, Tally(w), proc[w].st \in AtItem,
           NEW m, m \in 0 .. Len(held[w]), Behind(w, m), NEW n, n = m + 1
    PROVE  AtPlace(w, n)
<1> DEFINE b == proc[w].batch
           h == held[w]
<1>1. b \in Seq(Test) /\ b # << >> /\ h \in Seq(Test) /\ m \in Nat /\ queues[w] \in Seq(Batch)
  BY DEF Types, ProcessTypes, Processes, OwnerTypes, QueueTypes, QueueTypeOK, Batch, AtItem
<1>2. Len(b) = Len(h) - m /\ \A k \in DOMAIN b : b[k] = h[m + k]
  BY DEF Behind
<1>3. /\ Len(b) \in Nat \ {0} /\ DOMAIN b = 1 .. Len(b) /\ Head(b) = b[1] /\ Head(b) \in Test
      /\ Len(Tail(b)) = Len(b) - 1 /\ DOMAIN Tail(b) = 1 .. Len(b) - 1
      /\ \A k \in 1 .. Len(b) - 1 : Tail(b)[k] = b[k + 1] /\ k + 1 \in 1 .. Len(b)
      /\ DOMAIN h = 1 .. Len(h) /\ Len(h) \in Nat
      /\ Tail(b) = << >> => Len(b) = 1
  <2>1. PICK r : r = Tail(b)
    OBVIOUS
  <2>2. r = << >> => Len(r) = 0
    OBVIOUS
  <2> HIDE DEF b, h
  <2> QED
    BY <1>1, <2>1, <2>2
<1> DEFINE P == PendingOf(h, queues[w])
<1>4. Distinct(P)
  BY DEF Tally
<1>5. /\ 0 \in DOMAIN P /\ P[0] = h
      /\ \A i \in DOMAIN queues[w] : i \in DOMAIN P /\ P[i] = queues[w][i] /\ i # 0
  BY <1>1 DEF PendingOf
<1>6. \A k \in DOMAIN h, l \in DOMAIN h : h[k] = h[l] => k = l
  <2> HIDE DEF P, h
  <2> QED
    BY <1>4, <1>5 DEF Distinct
<1> HIDE DEF b, h
<1>7. m + 1 \in DOMAIN h
  BY <1>1, <1>2, <1>3
<1>8. h[m + 1] \notin Tests(queues[w])
  <2> SUFFICES ASSUME NEW i \in DOMAIN queues[w], NEW j \in DOMAIN queues[w][i],
                      queues[w][i][j] = h[m + 1]
               PROVE  FALSE
    BY DEF Tests
  <2> HIDE DEF P
  <2> QED
    BY <1>4, <1>5, <1>7 DEF Distinct
<1>9. /\ Head(b) = h[m + 1] /\ Len(Tail(b)) = Len(h) - (m + 1)
      /\ \A k \in DOMAIN Tail(b) : Tail(b)[k] = h[m + 1 + k]
      /\ Tail(b) = << >> => m + 1 = Len(h)
  <2>1. ASSUME NEW k \in 1 .. Len(b) - 1 PROVE Tail(b)[k] = h[m + 1 + k]
    <3>1. k + 1 \in DOMAIN b /\ m + (k + 1) = m + 1 + k
      BY <1>1, <1>3
    <3> QED
      BY <1>2, <1>3, <3>1
  <2>2. PICK r : r = Tail(b)
    OBVIOUS
  <2>3. /\ DOMAIN r = 1 .. Len(b) - 1 /\ Len(r) = Len(b) - 1 /\ (r = << >> => Len(b) = 1)
        /\ \A k \in 1 .. Len(b) - 1 : r[k] = h[m + 1 + k]
    BY <1>3, <2>1, <2>2
  <2>4. Head(b) = h[m + 1] /\ Len(b) = Len(h) - m
    BY <1>1, <1>2, <1>3
  <2>5. /\ Head(b) = h[m + 1] /\ Len(r) = Len(h) - (m + 1)
        /\ \A k \in DOMAIN r : r[k] = h[m + 1 + k]
        /\ r = << >> => m + 1 = Len(h)
    BY <1>1, <1>3, <2>3, <2>4
  <2> QED
    BY <2>2, <2>5, Zenon
<1>10. /\ n \in 1 .. Len(h) /\ Head(b) = h[n]
       /\ Head(b) \in Test
       /\ Len(Tail(b)) = Len(h) - n
       /\ \A k \in DOMAIN Tail(b) : Tail(b)[k] = h[n + k]
       /\ Tail(b) = << >> => n = Len(h)
       /\ \A k \in DOMAIN h : h[k] = h[n] => k = n
       /\ h[n] \notin Tests(queues[w])
  BY <1>3, <1>6, <1>7, <1>8, <1>9, Zenon
<1> QED
  BY <1>10 DEF b, h, AtPlace

\* The "done" messages stay the last ones.
LEMMA DoneStays ==
    ASSUME PipeTypes, NEW w \in Worker, DoneLast(w), NEW gs, gs \in Seq(Frames), out'[w] = out[w] \o gs,
           \/ /\ proc'[w].st \in {"idle", "final", "bye", "exiting", "gone"}
              /\ \A i \in DOMAIN gs : ~Torn(gs[i])
           \/ /\ proc[w].st \notin {"idle", "final", "bye", "exiting", "gone"}
              /\ \A i \in DOMAIN gs : gs[i].kind # "done"
    PROVE  DoneLast(w)'
<1>1. out[w] \in Seq(Frames) /\ Len(out[w]) \in Nat
  BY DEF PipeTypes
<1>2. \A i \in DOMAIN out'[w] :
        \/ i \in DOMAIN out[w] /\ out'[w][i] = out[w][i] /\ i \in Nat /\ i <= Len(out[w])
        \/ /\ i \in Nat /\ i > Len(out[w])
           /\ i - Len(out[w]) \in DOMAIN gs /\ out'[w][i] = gs[i - Len(out[w])]
  BY <1>1, InConcat
<1> SUFFICES ASSUME NEW i \in Said(w, "done")'
             PROVE  /\ proc'[w].st \in {"idle", "final", "bye", "exiting", "gone"}
                    /\ \A j \in DOMAIN out'[w] : j > i => ~Torn(out'[w][j])
  BY DEF DoneLast
<1>3. CASE i \in DOMAIN out[w] /\ out'[w][i] = out[w][i]
  <2>1. i \in Said(w, "done")
    BY <1>3 DEF Said
  <2> QED
    BY <1>2, <2>1 DEF DoneLast
<1>4. CASE i \in Nat /\ i > Len(out[w]) /\ i - Len(out[w]) \in DOMAIN gs /\ out'[w][i] = gs[i - Len(out[w])]
  <2>1. gs[i - Len(out[w])].kind = "done"
    BY <1>4 DEF Said
  <2> QED
    BY <1>1, <1>2, <1>4, <2>1
<1> QED
  BY <1>2, <1>3, <1>4 DEF Said

\* Frames that report no teardown let the account stand.
LEMMA FollowPlain ==
    ASSUME ProcessTypes, NEW w \in Worker, NEW m, m \in 0 .. Len(held[w]), Behind(w, m), NEW gs,
           \/ gs = << >> \/ gs = <<Bye>> \/ gs = <<Done>>
           \/ \E c \in Int : gs = <<Interrupted(c)>>
           \/ \E n \in ScopeFails : gs = ScopeFailures(w, n)
           \/ \E f \in Frames : gs = <<f>> /\ f.kind = "report" /\ f.phase = "call"
    PROVE  Follow(gs, held[w], m, 0)
<1>1. \A i \in DOMAIN gs : ~Torn(gs[i])
  BY PlainFrames
<1>2. ASSUME NEW i \in DOMAIN gs, OfScope(gs[i]), NEW k \in DOMAIN held[w], held[w][k] = gs[i].test
      PROVE  k <= m
  <2>1. PICK n \in ScopeFails : gs = ScopeFailures(w, n)
    BY <1>2 DEF OfScope, Bye, Done, Interrupted
  <2>2. n \in Nat
    BY DistAssumption
  <2>3. 1 \in DOMAIN proc[w].last /\ gs[i].test = proc[w].last[1]
    BY <1>2, <2>1, <2>2, ScopeNames
  <2> QED
    BY <1>2, <2>3 DEF Behind
<1> QED
  BY <1>1, <1>2 DEF Follow

\* The steps that write no teardown.
LEMMA WorkerGoesOn ==
    ASSUME Types, NEW w \in Worker, Tally(w), pc[w] \in Working, UNCHANGED <<queueVars, ownerVars>>, Alive(w),
           inp'[w] = inp[w], proc'[w].last = proc[w].last \/ proc'[w].last = << >>,
           proc'[w].st \in {"input", "collecting", "gone"} => proc'[w].last = << >>,
           NEW gs, out'[w] = out[w] \o gs,
           \/ gs = << >> \/ gs = <<Bye>> \/ gs = <<Done>>
           \/ \E c \in Int : gs = <<Interrupted(c)>>
           \/ \E n \in ScopeFails : gs = ScopeFailures(w, n)
           \/ \E f \in Frames : gs = <<f>> /\ f.kind = "report" /\ f.phase = "call",
           \/ proc'[w].st \in {"idle", "final", "bye", "exiting", "gone"}
           \/ /\ proc[w].st \notin {"idle", "final", "bye", "exiting", "gone"}
              /\ gs # <<Done>>,
           proc'[w].st \in AtItem => proc[w].st \in AtItem /\ proc'[w].batch = proc[w].batch,
           proc'[w].st # "batchEnd",
           gs = <<Done>> /\ pc[w] = "read" /\ ~StopSeen =>
               \/ proc[w].st = "batchEnd" /\ ~LimitReached(proc[w].failed)
               \/ Said(w, "interrupted") # {}
    PROVE  Tally(w)'
<1>1. PICK old \in [0 .. Len(out[w]) -> 0 .. Len(held[w])], m \in 0 .. Len(held[w]) :
        Counts(old, out[w], held[w]) /\ m = old[Len(out[w])] /\ Behind(w, m) /\ Final(w, old)
  BY DEF Tally, InWork
<1>2. gs \in Seq(Frames) /\ \A i \in DOMAIN gs : ~Torn(gs[i]) /\ (gs[i].kind = "report" => gs[i].phase # "crash")
  BY PlainFrames DEF Types
<1>3. Follow(gs, held[w], m, 0)
  BY <1>1, FollowPlain DEF Types
<1>4. m = m + 0 /\ m <= Len(held[w]) /\ 0 \in 0 .. 1
  BY <1>1 DEF Types, OwnerTypes, Batch
<1>5. Behind(w, m)'
  BY <1>1, <1>4, SMTT(60) DEF Behind, ownerVars
<1>6. LastGone(w)'
  BY DEF Tally, LastGone, queueVars, ownerVars
<1>7. ASSUME NEW i \in DOMAIN gs, gs[i].kind = "done" PROVE gs = <<Done>>
  <2>1. \A n \in ScopeFails : gs = ScopeFailures(w, n) => gs[i].kind = "report"
    BY DistAssumption, ScopeNames DEF Types
  <2> QED
    BY <1>7, <2>1 DEF Bye, Interrupted
<1>8. DoneLast(w)'
  BY <1>2, <1>7, DoneStays DEF Tally, InWork, Types
<1>9. AtEndOnly(w, gs, m = Len(held[w]))
  <2>1. gs = <<Done>> => Len(gs) = 1 /\ DOMAIN gs = {1}
    OBVIOUS
  <2>2. proc[w].st = "batchEnd" /\ ~LimitReached(proc[w].failed) => m = Len(held[w])
    BY <1>1, <1>4 DEF Behind
  <2> QED
    BY <1>2, <1>7, <2>1, <2>2 DEF AtEndOnly
<1>10. NoInput(w)
  BY DEF NoInput
<1> HIDE DEF Types
<1> QED
  BY <1>1, <1>2, <1>3, <1>4, <1>5, <1>6, <1>8, <1>9, <1>10, WrittenOn

\* The batch is taken from the pipe.
LEMMA ReadRunTally ==
    ASSUME Types, NEW w \in Worker, Known(w), Tally(w), pc[w] \in Working,
           UNCHANGED <<queueVars, ownerVars>>, Alive(w), ReadRun(w)
    PROVE  Tally(w)'
<1>1. /\ proc[w] \in Processes /\ proc \in [Worker -> Processes] /\ inp \in [Worker -> Seq(Messages)]
      /\ inp[w] \in Seq(Messages) /\ inp[w] # << >> /\ proc[w].st = "idle" /\ held[w] \in Seq(Test)
  BY DEF ReadRun, Types, ProcessTypes, PipeTypes, OwnerTypes, Batch
<1>2. out[w] = << >> /\ out'[w] = << >>
  BY <1>1 DEF Known, AtRead, InBatch, Alive, Working, ReadRun
<1>3. PICK old \in [0 .. Len(out[w]) -> 0 .. Len(held[w])], m \in 0 .. Len(held[w]) :
        Counts(old, out[w], held[w]) /\ m = old[Len(out[w])] /\ Behind(w, m) /\ Final(w, old)
  BY DEF Tally, InWork
<1>4. m = 0 /\ m = m + 0 /\ m <= Len(held[w]) /\ 0 \in 0 .. 1
  BY <1>1, <1>2, <1>3 DEF Counts
<1>5. Head(inp[w]).ids = held[w] /\ inp'[w] = Tail(inp[w])
  <2>1. 1 \in DOMAIN inp[w] /\ Head(inp[w]) = inp[w][1]
    BY <1>1
  <2> QED
    BY <1>1, <2>1 DEF ReadRun, Tally, InWork
<1>6. proc'[w].st = "item" /\ proc'[w].batch = held[w] /\ proc'[w].last = proc[w].last
  BY <1>1, <1>5 DEF ReadRun, Become, Processes
<1>7. Behind(w, m)'
  <2>1. \A k \in DOMAIN held[w] : m + k = k
    BY <1>1, <1>4
  <2>2. Len(held[w]) = Len(held[w]) - m
    BY <1>1, <1>4
  <2> QED
    BY <1>3, <1>6, <2>1, <2>2 DEF Behind, ownerVars
<1>8. LastGone(w)' /\ DoneLast(w)'
  BY <1>2, <1>6 DEF Tally, LastGone, queueVars, ownerVars, DoneLast, Said
<1>9. NoInput(w)
  <2>1. \A i \in DOMAIN Tail(inp[w]) : i + 1 \in DOMAIN inp[w] /\ Tail(inp[w])[i] = inp[w][i + 1]
    BY <1>1
  <2> QED
    BY <1>5, <2>1 DEF NoInput
<1>10. Follow(<< >>, held[w], m, 0) /\ AtEndOnly(w, << >>, m = Len(held[w]))
  BY DEF Follow, AtEndOnly
<1>11. << >> \in Seq(Frames) /\ out'[w] = out[w] \o << >>
  BY <1>2
<1> QED
  BY <1>3, <1>4, <1>7, <1>8, <1>9, <1>10, <1>11, WrittenOn

\* An item is over: its teardown is reported last.
LEMMA ItemOverTally ==
    ASSUME Types, NEW w \in Worker, Tally(w), pc[w] \in Working,
           UNCHANGED <<queueVars, ownerVars>>, Alive(w), proc[w].st \in AtItem, inp'[w] = inp[w],
           NEW gs, gs \in Seq(Frames), out'[w] = out[w] \o gs, gs # << >>,
           Torn(gs[Len(gs)]), gs[Len(gs)].test = Head(proc[w].batch),
           \A i \in DOMAIN gs : gs[i].kind = "report" /\ gs[i].phase \notin {"scope", "crash"}
                                /\ (gs[i].phase = "teardown" => i = Len(gs)),
           proc'[w].st \in {"item", "batchEnd"},
           \/ proc'[w].batch = Tail(proc[w].batch) /\ (proc'[w].st = "batchEnd" => proc'[w].batch = << >>)
           \/ LimitReached(proc'[w].failed) /\ proc'[w].st = "batchEnd",
           \/ proc'[w].last = proc[w].last \/ proc'[w].last = <<Head(proc[w].batch)>>
    PROVE  Tally(w)'
<1>1. PICK old \in [0 .. Len(out[w]) -> 0 .. Len(held[w])], m \in 0 .. Len(held[w]) :
        Counts(old, out[w], held[w]) /\ m = old[Len(out[w])] /\ Behind(w, m) /\ Final(w, old)
  BY DEF Tally, InWork
<1>2. PICK mm : mm = m + 1
  OBVIOUS
<1>3. AtPlace(w, mm)
  BY <1>1, <1>2, AtTest
<1>4. held[w] \in Seq(Test) /\ Len(held[w]) \in Nat /\ DOMAIN held[w] = 1 .. Len(held[w])
  BY DEF Types, OwnerTypes, Batch
<1>5. Follow(gs, held[w], m, 1)
  BY <1>2, <1>3 DEF AtPlace, Follow, Torn, OfScope
<1>6. Behind(w, mm)'
  <2>1. \A j \in DOMAIN proc'[w].last, k \in DOMAIN held[w] : held[w][k] = proc'[w].last[j] => k <= mm
    <3>1. CASE proc'[w].last = proc[w].last
      <4> TAKE j \in DOMAIN proc'[w].last, k \in DOMAIN held[w]
      <4>1. held[w][k] = proc'[w].last[j] => k <= m
        BY <1>1, <3>1 DEF Behind
      <4> QED
        BY <1>2, <1>4, <4>1
    <3>2. CASE proc'[w].last = <<Head(proc[w].batch)>>
      BY <1>3, <1>4, <3>2 DEF AtPlace
    <3> QED
      BY <3>1, <3>2
  <2>2. held'[w] = held[w]
    BY DEF ownerVars
  <2>3. proc'[w].st = "item" => proc'[w].batch = Tail(proc[w].batch)
    OBVIOUS
  <2>4. proc'[w].st = "batchEnd" => mm = Len(held[w]) \/ LimitReached(proc'[w].failed)
    BY <1>3 DEF AtPlace
  <2>5. PICK b : b = Tail(proc[w].batch)
    OBVIOUS
  <2>6. Len(b) = Len(held[w]) - mm /\ \A k \in DOMAIN b : b[k] = held[w][mm + k]
    BY <1>3, <2>5 DEF AtPlace
  <2>7. proc'[w].st = "item" => proc'[w].batch = b
    BY <2>3, <2>5
  <2> QED
    BY <2>1, <2>2, <2>4, <2>6, <2>7 DEF Behind, AtItem
<1>7. LastGone(w)'
  <2>1. \A j \in DOMAIN proc'[w].last : proc'[w].last[j] \notin Tests(queues[w])
    <3>1. CASE proc'[w].last = proc[w].last
      BY <3>1 DEF Tally, LastGone
    <3>2. CASE proc'[w].last = <<Head(proc[w].batch)>>
      BY <1>3, <3>2 DEF AtPlace
    <3> QED
      BY <3>1, <3>2
  <2> QED
    BY <2>1 DEF LastGone, queueVars, ownerVars, Working
<1>8. DoneLast(w)'
  BY DoneStays DEF Types, Tally, InWork, AtItem
<1>9. NoInput(w) /\ AtEndOnly(w, gs, mm = Len(held[w]))
  BY DEF NoInput, AtEndOnly
<1>10. 1 \in 0 .. 1 /\ mm <= Len(held[w])
  BY <1>3, <1>4 DEF AtPlace
<1> QED
  BY <1>1, <1>2, <1>5, <1>6, <1>7, <1>8, <1>9, <1>10, WrittenOn

LEMMA WorkingWorker ==
    ASSUME Types, NEW w \in Worker, Known(w), Tally(w), pc[w] \in Working, WorkerStep(w)
    PROVE  Tally(w)'
<1> DEFINE p == proc[w]
<1>a. /\ p \in Processes /\ proc \in [Worker -> Processes] /\ out \in [Worker -> Seq(Frames)]
      /\ out[w] \in Seq(Frames) /\ out[w] \o << >> = out[w] /\ inp[w] \in Seq(Messages)
      /\ p.batch \in Seq(Test)
  BY DEF Types, ProcessTypes, PipeTypes, Processes, Batch
<1>b. InBatch(w)
  BY DEF Known, AtRead, Working
<1>c. UNCHANGED <<queueVars, ownerVars>> /\ Alive(w)
  BY DEF Alive, WorkerStep, ReadInput, Collect, ReadRun, Uncollected, Scopes, Body, Teardown, BatchEnd,
         Leave, ReadShutdown, FinalTeardown, SayBye, Exit, ProcessOnly
<1>d. p.st \in AtItem => Head(p.batch) \in Test
  BY <1>a DEF Types, ProcessTypes, AtItem
<1>1. CASE ReadInput(w) \/ Collect(w)
  BY <1>b, <1>1 DEF ReadInput, Collect, InBatch
<1>2. CASE ReadRun(w)
  BY <1>c, <1>2, ReadRunTally
<1>3. CASE Uncollected(w)
  <2>1. PICK gs : gs = <<Report(Head(p.batch), "setup", TRUE), Report(Head(p.batch), "teardown", FALSE)>>
    OBVIOUS
  <2>2. p.st = "item" /\ out'[w] = out[w] \o gs /\ inp'[w] = inp[w]
    BY <1>3, <1>a, <2>1 DEF Uncollected, Send
  <2>3. Head(p.batch) \in Test
    BY <1>d, <2>2 DEF AtItem
  <2>4. /\ Report(Head(p.batch), "setup", TRUE) \in Frames
        /\ Report(Head(p.batch), "teardown", FALSE) \in Frames
    BY <2>3 DEF Frames, Reports, Report
  <2>5. gs \in Seq(Frames) /\ gs # << >> /\ Len(gs) = 2 /\ DOMAIN gs = {1, 2}
    <3>1. PICK f \in Frames, g \in Frames :
            f = Report(Head(p.batch), "setup", TRUE) /\ g = Report(Head(p.batch), "teardown", FALSE)
      BY <2>4
    <3>2. gs = <<f, g>>
      BY <2>1, <3>1
    <3> QED
      BY <3>2
  <2>6. /\ gs[1].kind = "report" /\ gs[1].phase = "setup"
        /\ gs[2].kind = "report" /\ gs[2].phase = "teardown" /\ gs[2].test = Head(p.batch)
    BY <2>1 DEF Report
  <2>7. /\ proc'[w].st \in {"item", "batchEnd"} /\ proc'[w].last = p.last
        /\ proc'[w].batch = Tail(p.batch) /\ (proc'[w].st = "batchEnd" => proc'[w].batch = << >>)
    <3>1. PICK rest : rest = Tail(p.batch)
      OBVIOUS
    <3>2. proc' = [proc EXCEPT ![w] = [p EXCEPT !.batch = rest, !.st = IF rest = << >> THEN "batchEnd" ELSE "item"]]
      BY <1>3, <3>1 DEF Uncollected, Become
    <3>3. /\ proc'[w].st = (IF rest = << >> THEN "batchEnd" ELSE "item")
          /\ proc'[w].last = p.last /\ proc'[w].batch = rest
      BY <1>a, <3>2 DEF Processes
    <3> QED
      BY <3>1, <3>3
  <2>8. p.st \in AtItem
    BY <2>2 DEF AtItem
  <2>9. /\ Torn(gs[Len(gs)]) /\ gs[Len(gs)].test = Head(p.batch)
        /\ \A i \in DOMAIN gs : gs[i].kind = "report" /\ gs[i].phase \notin {"scope", "crash"}
                                /\ (gs[i].phase = "teardown" => i = Len(gs))
    BY <2>5, <2>6 DEF Torn
  <2> QED
    BY <1>c, <2>2, <2>5, <2>7, <2>8, <2>9, ItemOverTally
<1>4. CASE Scopes(w)
  <2>1. PICK n \in ScopeFails : Send(w, ScopeFailures(w, n))
    BY <1>4 DEF Scopes
  <2>2. PICK gs : gs = ScopeFailures(w, n)
    OBVIOUS
  <2>3. /\ out'[w] = out[w] \o gs /\ inp'[w] = inp[w] /\ p.st = "item" /\ proc'[w].st = "body"
        /\ proc'[w].batch = p.batch /\ proc'[w].last = p.last
    BY <1>4, <1>a, <2>1, <2>2 DEF Scopes, Send, Become, Processes
  <2>4. gs # <<Done>>
    <3>1. n \in Nat
      BY DistAssumption
    <3>2. \A i \in DOMAIN gs : gs[i].kind = "report"
      BY <2>2, <3>1, ScopeNames DEF Types
    <3>3. 1 \in DOMAIN <<Done>> /\ <<Done>>[1].kind # "report"
      BY DEF Done
    <3> QED
      BY <3>2, <3>3
  <2> QED
    BY <1>c, <2>2, <2>3, <2>4, WorkerGoesOn DEF AtItem
<1>5. CASE Body(w)
  <2>1. PICK o \in Outcomes :
          /\ Send(w, IF o = "exit" THEN << >> ELSE <<Report(Head(p.batch), "call", o = "fail")>>)
          /\ Become(w, [p EXCEPT !.st = "teardown",
                                 !.failed = IF o = "fail" THEN @ + 1 ELSE @,
                                 !.code = IF o = "exit" THEN ReturnCode ELSE @])
    BY <1>5 DEF Body
  <2>2. /\ inp'[w] = inp[w] /\ p.st = "body" /\ proc'[w].st = "teardown"
        /\ proc'[w].batch = p.batch /\ proc'[w].last = p.last
    BY <1>5, <1>a, <2>1 DEF Body, Become, Processes
  <2>3. CASE o = "exit"
    <3>1. out'[w] = out[w] \o << >>
      BY <1>a, <2>1, <2>3 DEF Send
    <3> QED
      BY <1>c, <2>2, <3>1, WorkerGoesOn DEF AtItem
  <2>4. CASE o # "exit"
    <3>1. PICK f : f = Report(Head(p.batch), "call", o = "fail")
      OBVIOUS
    <3>2. PICK gs : gs = <<f>>
      OBVIOUS
    <3>3. out'[w] = out[w] \o gs
      BY <1>a, <2>1, <2>4, <3>1, <3>2 DEF Send
    <3>4. f.kind = "report" /\ f.phase = "call" /\ f \in Frames
      <4>1. PICK b \in BOOLEAN : b = (o = "fail")
        OBVIOUS
      <4>2. f = Report(Head(p.batch), "call", b)
        BY <3>1, <4>1
      <4> QED
        BY <1>d, <2>2, <4>2 DEF AtItem, Report, Frames, Reports
    <3>5. gs # <<Done>>
      BY <3>2, <3>4 DEF Done
    <3> QED
      BY <1>c, <2>2, <3>2, <3>3, <3>4, <3>5, WorkerGoesOn DEF AtItem
  <2> QED
    BY <2>3, <2>4
<1>6. CASE Teardown(w)
  <2> DEFINE failed(f) == IF f THEN p.failed + 1 ELSE p.failed
             rest(f) == IF LimitReached(failed(f)) THEN << >> ELSE Tail(p.batch)
  <2>1. PICK f \in TeardownFails :
          /\ Send(w, <<Report(Head(p.batch), "teardown", f)>>)
          /\ Become(w, [p EXCEPT !.st = IF rest(f) = << >> THEN "batchEnd" ELSE "item",
                                 !.batch = rest(f), !.failed = failed(f), !.last = <<Head(p.batch)>>])
    BY <1>6 DEF Teardown
  <2>2. inp'[w] = inp[w] /\ p.st = "teardown" /\ f \in BOOLEAN
    BY <1>6, DistAssumption DEF Teardown
  <2>3. PICK g : g = Report(Head(p.batch), "teardown", f)
    OBVIOUS
  <2>4. PICK gs : gs = <<g>>
    OBVIOUS
  <2>5. g \in Frames /\ g.kind = "report" /\ g.phase = "teardown" /\ g.test = Head(p.batch)
    BY <1>d, <2>2, <2>3 DEF AtItem, Report, Frames, Reports
  <2>6. gs \in Seq(Frames) /\ gs # << >> /\ Len(gs) = 1 /\ DOMAIN gs = {1} /\ gs[1] = g
    BY <2>4, <2>5
  <2>7. out'[w] = out[w] \o gs
    BY <1>a, <2>1, <2>3, <2>4 DEF Send
  <2>8. PICK r, n, l : r = rest(f) /\ n = failed(f) /\ l = <<Head(p.batch)>>
    OBVIOUS
  <2>9. proc' = [proc EXCEPT ![w] = [p EXCEPT !.st = IF r = << >> THEN "batchEnd" ELSE "item",
                                              !.batch = r, !.failed = n, !.last = l]]
    BY <2>1, <2>8 DEF Become
  <2>10. /\ proc'[w].st = (IF r = << >> THEN "batchEnd" ELSE "item")
         /\ proc'[w].batch = r /\ proc'[w].failed = n /\ proc'[w].last = l
    BY <1>a, <2>9 DEF Processes
  <2>11. \/ r = Tail(p.batch)
         \/ LimitReached(n) /\ r = << >>
    BY <2>8
  <2>12. /\ Torn(gs[Len(gs)]) /\ gs[Len(gs)].test = Head(p.batch)
         /\ \A i \in DOMAIN gs : gs[i].kind = "report" /\ gs[i].phase \notin {"scope", "crash"}
                                 /\ (gs[i].phase = "teardown" => i = Len(gs))
    BY <2>5, <2>6 DEF Torn
  <2>13. p.st \in AtItem
    BY <2>2 DEF AtItem
  <2>14. /\ proc'[w].st \in {"item", "batchEnd"} /\ proc'[w].last = <<Head(p.batch)>>
         /\ \/ proc'[w].batch = Tail(p.batch) /\ (proc'[w].st = "batchEnd" => proc'[w].batch = << >>)
            \/ LimitReached(proc'[w].failed) /\ proc'[w].st = "batchEnd"
    BY <2>8, <2>10, <2>11
  <2> HIDE DEF failed, rest
  <2> QED
    BY <1>c, <2>2, <2>6, <2>7, <2>12, <2>13, <2>14, ItemOverTally
<1>7. CASE BatchEnd(w)
  <2>0. p.st = "batchEnd" /\ inp'[w] = inp[w]
    BY <1>7 DEF BatchEnd
  <2>1. CASE \E c \in Int : Send(w, <<Interrupted(c)>>) /\ Become(w, [p EXCEPT !.st = "leaving"])
    <3>1. PICK c \in Int : Send(w, <<Interrupted(c)>>) /\ Become(w, [p EXCEPT !.st = "leaving"])
      BY <2>1
    <3>2. out'[w] = out[w] \o <<Interrupted(c)>> /\ proc'[w].st = "leaving" /\ proc'[w].last = p.last
      BY <1>a, <3>1 DEF Send, Become, Processes
    <3>3. <<Interrupted(c)>> # <<Done>>
      BY DEF Interrupted, Done
    <3> QED
      BY <1>c, <2>0, <3>2, <3>3, WorkerGoesOn DEF AtItem
  <2>2. CASE ~LimitReached(p.failed) /\ Send(w, <<Done>>) /\ Become(w, [p EXCEPT !.st = "idle"])
    <3>1. out'[w] = out[w] \o <<Done>> /\ proc'[w].st = "idle" /\ proc'[w].last = p.last
      BY <1>a, <2>2 DEF Send, Become, Processes
    <3> QED
      BY <1>c, <2>0, <2>2, <3>1, WorkerGoesOn DEF AtItem
  <2>3. TESTS_FAILED \in Int /\ (p.code # None => p.code \in Int)
    BY <1>a DEF TESTS_FAILED, Processes
  <2> QED
    BY <1>7, <2>1, <2>2, <2>3 DEF BatchEnd
<1>8. CASE Leave(w)
  <2>1. /\ p.st = "leaving" /\ inp'[w] = inp[w] /\ out'[w] = out[w] \o <<Done>>
        /\ proc'[w].st = "final" /\ proc'[w].last = p.last
    BY <1>8, <1>a DEF Leave, Send, Become, Processes
  <2>2. pc[w] = "read" /\ ~StopSeen => Said(w, "interrupted") # {}
    BY <2>1 DEF Known, AtRead, Stopping
  <2> QED
    BY <1>c, <2>1, <2>2, WorkerGoesOn DEF AtItem
<1>9. CASE ReadShutdown(w)
  <2>1. inp[w] # << >> /\ Head(inp[w]) = Shutdown /\ Alive(w)
    BY <1>9 DEF ReadShutdown, Alive
  <2>2. Len(inp[w]) = 1 /\ HasRun(w)
    BY <1>b, <2>1 DEF InBatch
  <2>3. inp[w][1].kind = "run"
    BY <1>a, <2>2 DEF HasRun
  <2> QED
    BY <1>a, <2>1, <2>3 DEF Shutdown
<1>10. CASE FinalTeardown(w)
  <2>1. PICK n \in ScopeFails : Send(w, ScopeFailures(w, n))
    BY <1>10 DEF FinalTeardown
  <2>2. PICK gs : gs = ScopeFailures(w, n)
    OBVIOUS
  <2>3. /\ out'[w] = out[w] \o gs /\ inp'[w] = inp[w] /\ p.st = "final" /\ proc'[w].st = "bye"
        /\ proc'[w].batch = p.batch /\ proc'[w].last = p.last
    BY <1>10, <1>a, <2>1, <2>2 DEF FinalTeardown, Send, Become, Processes
  <2>4. gs # <<Done>>
    <3>1. n \in Nat
      BY DistAssumption
    <3>2. \A i \in DOMAIN gs : gs[i].kind = "report"
      BY <2>2, <3>1, ScopeNames DEF Types
    <3>3. 1 \in DOMAIN <<Done>> /\ <<Done>>[1].kind # "report"
      BY DEF Done
    <3> QED
      BY <3>2, <3>3
  <2> QED
    BY <1>c, <2>2, <2>3, <2>4, WorkerGoesOn DEF AtItem
<1>11. CASE SayBye(w)
  <2>1. /\ p.st = "bye" /\ inp'[w] = inp[w] /\ out'[w] = out[w] \o <<Bye>>
        /\ proc'[w].st = "exiting" /\ proc'[w].last = p.last
    BY <1>11, <1>a DEF SayBye, Send, Become, Processes
  <2>2. <<Bye>> # <<Done>>
    BY DEF Bye, Done
  <2> QED
    BY <1>c, <2>1, <2>2, WorkerGoesOn DEF AtItem
<1>12. CASE Exit(w)
  <2>1. /\ p.st = "exiting" /\ inp'[w] = inp[w] /\ out'[w] = out[w] \o << >>
        /\ proc'[w].st = "gone" /\ proc'[w].last = << >>
    BY <1>12, <1>a DEF Exit, Become, Process
  <2> QED
    BY <1>c, <2>1, WorkerGoesOn DEF AtItem
<1> QED
  BY <1>1, <1>2, <1>3, <1>4, <1>5, <1>6, <1>7, <1>8, <1>9, <1>10, <1>11, <1>12 DEF WorkerStep

LEMMA WorkerTally ==
    ASSUME Types, NEW w \in Worker, Known(w), Tally(w), WorkerStep(w)
    PROVE  Tally(w)'
BY QuietWorker, WorkingWorker

LEMMA DieTally ==
    ASSUME Types, NEW w \in Worker, Tally(w), Die(w)
    PROVE  Tally(w)'
<1>1. /\ UNCHANGED <<queueVars, ownerVars>> /\ Alive(w) /\ inp'[w] = inp[w] /\ out'[w] = out[w] \o << >>
      /\ proc'[w].st = "gone" /\ proc'[w].last = << >>
  BY DEF Die, Become, Process, Types, ProcessTypes, PipeTypes
<1>2. CASE pc[w] \in Working
  BY <1>1, <1>2, WorkerGoesOn DEF AtItem
<1>3. CASE pc[w] \notin Working
  <2>1. PICK gs : gs = << >>
    OBVIOUS
  <2>2. gs \in Seq(Frames) /\ DOMAIN gs = {} /\ out'[w] = out[w] \o gs
    BY <1>1, <2>1
  <2> QED
    BY <1>1, <1>3, <2>2, QuietOn DEF AtItem
<1> QED
  BY <1>2, <1>3

-----------------------------------------------------------------------------
(* The owner's steps.                                                      *)

\* Nothing is said but what was said before.
NoOutput(w) == \A i \in DOMAIN out'[w] : \E j \in DOMAIN out[w] : out'[w][i] = out[w][j]

LEMMA PopNothing ==
    ASSUME PipeTypes, NEW w \in Worker, out'[w] \in {out[w], Tail(out[w]), << >>}, out'[w] # out[w] => out[w] # << >>
    PROVE  NoOutput(w)
<1>1. out[w] \in Seq(Frames)
  BY DEF PipeTypes
<1>2. out[w] # << >> => \A i \in DOMAIN Tail(out[w]) : i + 1 \in DOMAIN out[w] /\ Tail(out[w])[i] = out[w][i + 1]
  BY <1>1
<1>3. CASE out'[w] = out[w] \/ out'[w] = << >>
  BY <1>3 DEF NoOutput
<1>4. CASE out'[w] = Tail(out[w]) /\ out[w] # << >>
  BY <1>2, <1>4 DEF NoOutput
<1> QED
  BY <1>3, <1>4

\* An owner without a batch goes on to a state without one.
LEMMA IdleOwner ==
    ASSUME Types, NEW w \in Worker, Tally(w), pc[w] \notin Holding, pc'[w] \notin Holding \cup {"tell"},
           queues'[w] = queues[w], held'[w] = held[w], verdict'[w] = NoVerdict,
           proc'[w] = proc[w] \/ proc'[w] = Process("collecting"), NoOutput(w)
    PROVE  Tally(w)'
<1>1. OwnerSays(w)' /\ Distinct(PendingOf(held[w], queues[w]))'
  BY DEF Tally, OwnerSays
<1>2. NoBlame(w)'
  BY DEF Tally, NoBlame, NoOutput
<1>3. Quiet(w)'
  BY DEF Tally, Quiet, NoOutput, Working, Holding, Process, AtItem
<1>4. LastGone(w)'
  BY DEF Tally, LastGone, Process, Holding
<1> QED
  BY <1>1, <1>2, <1>3, <1>4 DEF Tally, Working, Holding

LEMMA NextBatchTally ==
    ASSUME Types, NEW w \in Worker, Tally(w), NextBatch(w)
    PROVE  Tally(w)'
<1>1. /\ pc[w] = "next" /\ pc'[w] = "send" /\ queues[w] # << >> /\ queues[w] \in Seq(Batch)
      /\ queues'[w] = Tail(queues[w]) /\ held'[w] = Head(queues[w]) /\ verdict'[w] = verdict[w]
      /\ proc'[w] = proc[w] /\ out'[w] = out[w]
  BY DEF NextBatch, TakeBatch, Goto, procVars, Types, QueueTypes, QueueTypeOK, OwnerTypes
<1>2. held[w] = << >>
  BY <1>1 DEF Tally, OwnerSays, Holding
<1>3. Distinct(PendingOf(held[w], queues[w]))'
  BY <1>1, <1>2, TakeMoves DEF Tally
<1>4. OwnerSays(w)' /\ NoBlame(w)' /\ Quiet(w)'
  BY <1>1 DEF Tally, OwnerSays, NoBlame, Quiet, Working, Holding
<1>5. LastGone(w)'
  <2>1. \A t \in Tests(Tail(queues[w])) : t \in Tests(queues[w])
    <3>1. \A i \in DOMAIN Tail(queues[w]) : i + 1 \in DOMAIN queues[w] /\ Tail(queues[w])[i] = queues[w][i + 1]
      BY <1>1
    <3> QED
      BY <3>1 DEF Tests
  <2>2. \A k \in DOMAIN Head(queues[w]) : Head(queues[w])[k] \in Tests(queues[w])
    <3>1. 1 \in DOMAIN queues[w] /\ Head(queues[w]) = queues[w][1] /\ queues[w][1] \in Seq(Test)
      BY <1>1 DEF Batch
    <3> QED
      BY <3>1 DEF Tests
  <2>3. /\ proc[w].st \in {"input", "collecting", "gone"} => proc[w].last = << >>
        /\ \A j \in DOMAIN proc[w].last : proc[w].last[j] \notin Tests(queues[w])
    BY DEF Tally, LastGone
  <2> QED
    BY <1>1, <2>1, <2>2, <2>3 DEF LastGone
<1> QED
  BY <1>1, <1>3, <1>4, <1>5 DEF Tally, Working

LEMMA SendRunTally ==
    ASSUME Types, NEW w \in Worker, Known(w), Tally(w), SendRun(w)
    PROVE  Tally(w)'
<1>1. /\ pc[w] = "send" /\ pc'[w] = (IF Alive(w) THEN "read" ELSE "crashed")
      /\ queues'[w] = queues[w] /\ held'[w] = held[w] /\ verdict'[w] = verdict[w]
      /\ proc'[w] = proc[w] /\ out'[w] = out[w] /\ Write(w, Run(held[w]))
      /\ held[w] \in Batch /\ held[w] # << >>
  BY DEF SendRun, Goto, queueVars, procVars, Types, OwnerTypes
<1>2. out[w] = << >> /\ proc[w].st \in {"idle", "gone"} /\ (Alive(w) => inp[w] = << >>)
  BY <1>1 DEF Known, AtSend
<1>3. OwnerSays(w)' /\ NoBlame(w)' /\ Distinct(PendingOf(held[w], queues[w]))' /\ LastGone(w)'
  BY <1>1 DEF Tally, OwnerSays, NoBlame, LastGone, Holding
<1>4. CASE ~Alive(w)
  BY <1>1, <1>2, <1>3, <1>4 DEF Tally, Quiet, Working
<1>5. CASE Alive(w)
  <2>1. inp'[w] = <<Run(held[w])>>
    <3>1. Run(held[w]) \in Messages
      BY <1>1, Built
    <3> QED
      BY <1>1, <1>2, <1>5, <3>1, WriteLast DEF Types
  <2>2. \A j \in DOMAIN inp'[w] : inp'[w][j].kind = "run" => inp'[w][j].ids = held'[w]
    BY <1>1, <2>1 DEF Run
  <2>3. PICK n : Counts(n, out'[w], held'[w]) /\ n[0] = 0
    BY <1>1, <1>2, CountNothing DEF Batch
  <2>4. n \in [0 .. Len(out'[w]) -> 0 .. Len(held'[w])] /\ Len(out'[w]) = 0 /\ 0 \in 0 .. Len(held'[w])
    BY <1>1, <1>2, <2>3 DEF Counts, Batch
  <2>5. PICK m : m = 0
    OBVIOUS
  <2>6. Behind(w, m)'
    <3>1. \A j \in DOMAIN proc[w].last, k \in DOMAIN held[w] : held[w][k] # proc[w].last[j]
      BY <1>1 DEF Tally, LastGone
    <3> QED
      BY <1>1, <1>2, <3>1 DEF Behind, AtItem
  <2>7. Final(w, n)' /\ DoneLast(w)'
    BY <1>1, <1>2 DEF Final, DoneLast, Said
  <2>8. InWork(w)'
    BY <2>2, <2>3, <2>4, <2>5, <2>6, <2>7 DEF InWork
  <2> QED
    BY <1>1, <1>3, <1>5, <2>8 DEF Tally, Working
<1> QED
  BY <1>4, <1>5

\* A frame is read in the work loop.
LEMMA PoppedOn ==
    ASSUME Types, NEW w \in Worker, Known(w), Tally(w), pc[w] \in Working, pc'[w] \in Working,
           out[w] # << >>, out'[w] = Tail(out[w]),
           held'[w] = IF Torn(Head(out[w])) THEN Tail(held[w]) ELSE held[w],
           queues'[w] = queues[w], verdict'[w] = verdict[w], proc'[w] = proc[w], inp'[w] = inp[w],
           pc'[w] = "read" => pc[w] = "read" /\ Head(out[w]).kind = "report", StopSeen' = StopSeen
    PROVE  Tally(w)'
<1> DEFINE L == Len(out[w]) - 1
           one == IF Torn(Head(out[w])) THEN 1 ELSE 0
<1>1. /\ out[w] \in Seq(Frames) /\ held[w] \in Seq(Test) /\ queues[w] \in Seq(Batch)
      /\ L \in Nat /\ Len(out[w]) = L + 1 /\ Len(out'[w]) = L /\ Head(out[w]) = out[w][1]
      /\ DOMAIN out'[w] = 1 .. L /\ \A i \in 1 .. L : out'[w][i] = out[w][i + 1] /\ i + 1 \in DOMAIN out[w]
  BY DEF Types, PipeTypes, OwnerTypes, QueueTypes, QueueTypeOK, Batch
<1>2. PICK n \in [0 .. Len(out[w]) -> 0 .. Len(held[w])], m \in 0 .. Len(held[w]) :
        Counts(n, out[w], held[w]) /\ m = n[Len(out[w])] /\ Behind(w, m) /\ Final(w, n)
  BY DEF Tally, InWork
<1>3. ReadOff(n, out[w], held[w])
  <2>1. PICK s, h : s = out[w] /\ h = held[w]
    OBVIOUS
  <2>2. s \in Seq(Frames) /\ s # << >> /\ h \in Seq(Test) /\ Counts(n, s, h)
    BY <1>1, <1>2, <2>1
  <2>3. ReadOff(n, s, h)
    BY <2>2, CountLess
  <2> QED
    BY <2>1, <2>3, Zenon
<1>4. PICK c : Counts(c, out'[w], held'[w]) /\ \A i \in 0 .. L : c[i] = n[i + 1] - one
  BY <1>1, <1>3 DEF ReadOff
<1>5. /\ one \in 0 .. 1 /\ Len(held'[w]) = Len(held[w]) - one /\ Len(held[w]) \in Nat /\ one <= Len(held[w])
      /\ DOMAIN held'[w] = 1 .. Len(held[w]) - one /\ DOMAIN held[w] = 1 .. Len(held[w])
      /\ \A k \in 1 .. Len(held[w]) - one : held'[w][k] = held[w][k + one] /\ k + one \in 1 .. Len(held[w])
  <2>1. CASE Torn(Head(out[w]))
    <3>1. held[w] # << >> /\ held'[w] = Tail(held[w]) /\ one = 1
      BY <1>1, <1>3, <2>1 DEF ReadOff
    <3>2. PICK h, g : h = held[w] /\ g = held'[w]
      OBVIOUS
    <3>3. h \in Seq(Test) /\ h # << >> /\ g = Tail(h)
      BY <1>1, <3>1, <3>2
    <3>4. /\ Len(g) = Len(h) - 1 /\ Len(h) \in Nat /\ 1 <= Len(h)
          /\ DOMAIN g = 1 .. Len(h) - 1 /\ DOMAIN h = 1 .. Len(h)
          /\ \A k \in 1 .. Len(h) - 1 : g[k] = h[k + 1] /\ k + 1 \in 1 .. Len(h)
      BY <3>3
    <3> HIDE DEF one
    <3>5. /\ one \in 0 .. 1 /\ Len(g) = Len(h) - one /\ Len(h) \in Nat /\ one <= Len(h)
          /\ DOMAIN g = 1 .. Len(h) - one /\ DOMAIN h = 1 .. Len(h)
          /\ \A k \in 1 .. Len(h) - one : g[k] = h[k + one] /\ k + one \in 1 .. Len(h)
      BY <3>1, <3>4
    <3> QED
      BY <3>2, <3>5, Zenon
  <2>2. CASE ~Torn(Head(out[w]))
    BY <1>1, <2>2
  <2> QED
    BY <2>1, <2>2
<1> HIDE DEF L, one
<1>6. PICK mm : mm = m - one
  OBVIOUS
<1>7. c \in [0 .. Len(out'[w]) -> 0 .. Len(held'[w])] /\ mm = c[Len(out'[w])] /\ mm \in 0 .. Len(held'[w])
  <2>1. c \in [0 .. Len(out'[w]) -> 0 .. Len(held'[w])]
    BY <1>4 DEF Counts
  <2>2. c[L] = n[L + 1] - one /\ L \in 0 .. L
    BY <1>1, <1>4
  <2> QED
    BY <1>1, <1>2, <1>6, <2>1, <2>2
<1>8. Behind(w, mm)'
  <2>1. ASSUME proc[w].st \in AtItem
        PROVE  /\ Len(proc[w].batch) = Len(held'[w]) - mm
               /\ \A k \in DOMAIN proc[w].batch : proc[w].batch[k] = held'[w][mm + k]
    <3>1. /\ Len(proc[w].batch) = Len(held[w]) - m
          /\ \A k \in DOMAIN proc[w].batch : proc[w].batch[k] = held[w][m + k]
      BY <1>2, <2>1 DEF Behind
    <3>2. proc[w].batch \in Seq(Test) /\ DOMAIN proc[w].batch = 1 .. Len(proc[w].batch)
      BY DEF Types, ProcessTypes, Processes, Batch
    <3>3. ASSUME NEW k \in DOMAIN proc[w].batch PROVE held'[w][mm + k] = held[w][m + k]
      <4>1. mm + k \in 1 .. Len(held[w]) - one /\ (mm + k) + one = m + k
        <5>1. k \in 1 .. Len(held[w]) - m
          BY <3>1, <3>2
        <5>2. mm \in Nat /\ m \in Nat /\ one \in 0 .. 1 /\ Len(held[w]) \in Nat
          BY <1>2, <1>5, <1>7
        <5> QED
          BY <1>6, <5>1, <5>2
      <4> QED
        BY <1>5, <4>1
    <3>4. Len(held'[w]) - mm = Len(held[w]) - m
      BY <1>2, <1>5, <1>6
    <3> QED
      BY <3>1, <3>3, <3>4
  <2>2. proc[w].st = "batchEnd" => mm = Len(held'[w]) \/ LimitReached(proc[w].failed)
    BY <1>2, <1>5, <1>6 DEF Behind
  <2>3. ASSUME NEW j \in DOMAIN proc[w].last, NEW k \in DOMAIN held'[w], held'[w][k] = proc[w].last[j]
        PROVE  k <= mm
    <3>1. k + one \in DOMAIN held[w] /\ held[w][k + one] = proc[w].last[j]
      BY <1>5, <2>3
    <3>2. k + one <= m
      BY <1>2, <3>1 DEF Behind
    <3> QED
      BY <1>2, <1>5, <1>6, <3>2
  <2> QED
    BY <2>1, <2>2, <2>3 DEF Behind
<1>9. \A kind : /\ \A i \in Said(w, kind)' : i \in Nat /\ i >= 1 /\ i + 1 \in Said(w, kind)
                /\ \A i \in Said(w, kind) : i \in Nat /\ i >= 1 /\ (i # 1 => i - 1 \in Said(w, kind)')
  BY <1>1, SaidTail
<1>10. DoneLast(w)'
  <2> SUFFICES ASSUME NEW i \in Said(w, "done")'
               PROVE  /\ proc[w].st \in {"idle", "final", "bye", "exiting", "gone"}
                      /\ \A j \in DOMAIN out'[w] : j > i => ~Torn(out'[w][j])
    BY DEF DoneLast
  <2>1. i + 1 \in Said(w, "done") /\ i \in Nat
    BY <1>9
  <2>2. /\ proc[w].st \in {"idle", "final", "bye", "exiting", "gone"}
        /\ \A j \in DOMAIN out[w] : j > i + 1 => ~Torn(out[w][j])
    BY <2>1 DEF Tally, InWork, DoneLast
  <2>3. ASSUME NEW j \in DOMAIN out'[w], j > i PROVE ~Torn(out'[w][j])
    <3>1. j + 1 \in DOMAIN out[w] /\ out'[w][j] = out[w][j + 1] /\ j + 1 > i + 1
      <4>1. j \in 1 .. L /\ i \in Nat /\ L \in Nat
        BY <1>1, <2>1, Zenon
      <4>2. out'[w][j] = out[w][j + 1] /\ j + 1 \in DOMAIN out[w]
        BY <1>1, <4>1, Zenon
      <4>3. j + 1 > i + 1
        BY <2>3, <4>1
      <4> QED
        BY <4>2, <4>3
    <3> QED
      BY <2>2, <3>1
  <2> QED
    BY <2>2, <2>3
<1>11. Final(w, c)'
  <2> SUFFICES ASSUME pc'[w] = "read", ~StopSeen', NEW i \in Said(w, "done")'
               PROVE  c[i] = Len(held'[w]) \/ \E j \in Said(w, "interrupted")' : j < i
    BY DEF Final
  <2>1. i + 1 \in Said(w, "done") /\ i \in 0 .. L
    BY <1>1, <1>9, SMTT(60) DEF Said
  <2>2. CASE n[i + 1] = Len(held[w])
    BY <1>4, <1>5, <2>1, <2>2
  <2>3. CASE \E j \in Said(w, "interrupted") : j < i + 1
    <3>1. PICK j \in Said(w, "interrupted") : j < i + 1
      BY <2>3
    <3>2. j # 1
      BY <1>1, <3>1 DEF Said
    <3>3. j - 1 \in Said(w, "interrupted")' /\ j - 1 < i
      BY <1>1, <1>9, <2>1, <3>1, <3>2
    <3> QED
      BY <3>3
  <2> QED
    BY <1>2, <2>1, <2>2, <2>3 DEF Final
<1>12. Distinct(PendingOf(held[w], queues[w]))'
  <2>1. CASE Torn(Head(out[w]))
    <3>1. held[w] # << >> /\ held'[w] = Tail(held[w])
      BY <1>1, <1>3, <2>1 DEF ReadOff
    <3>2. held[w] \in Batch /\ Distinct(PendingOf(held[w], queues[w]))
      BY <1>1 DEF Batch, Tally
    <3>3. Distinct(PendingOf(Tail(held[w]), queues[w]))
      BY <1>1, <3>1, <3>2, CompleteMoves
    <3> QED
      BY <3>1, <3>3, Zenon
  <2>2. CASE ~Torn(Head(out[w]))
    BY <2>2 DEF Tally
  <2> QED
    BY <2>1, <2>2
<1>13. NoBlame(w)'
  BY <1>1 DEF Tally, NoBlame
<1>14. OwnerSays(w)' /\ LastGone(w)'
  BY DEF Tally, OwnerSays, LastGone, Working, Holding
<1>15. Alive(w)' => \A i \in DOMAIN inp'[w] : inp'[w][i].kind = "run" => inp'[w][i].ids = held'[w]
  <2>1. Alive(w) => inp[w] = << >>
    BY DEF Known, AtRead, InBatch, Working
  <2> QED
    BY <2>1 DEF Alive
<1>16. InWork(w)'
  BY <1>4, <1>7, <1>8, <1>10, <1>11, <1>15 DEF InWork
<1> QED
  BY <1>12, <1>13, <1>14, <1>16 DEF Tally

\* A teardown's report is that of the first test left, and a scope's names a
\* test that is not left.
LEMMA ReportStrikes ==
    ASSUME Types, NEW w \in Worker, Tally(w), ReadReport(w)
    PROVE  /\ held'[w] = IF Torn(Head(out[w])) THEN Tail(held[w]) ELSE held[w]
           /\ Torn(Head(out[w])) => held[w] # << >> /\ Head(out[w]).test = Head(held[w])
<1>1. /\ pc[w] = "read" /\ out[w] # << >> /\ Head(out[w]).kind = "report" /\ Head(out[w]) = out[w][1]
      /\ out[w] \in Seq(Frames) /\ held[w] \in Seq(Test) /\ queues[w] \in Seq(Batch) /\ held[w] \in Batch
      /\ held'[w] = IF Head(out[w]).phase \in {"teardown", "scope"}
                    THEN Without(held[w], Head(out[w]).test) ELSE held[w]
  BY DEF ReadReport, Frame, Types, OwnerTypes, PipeTypes, QueueTypes, QueueTypeOK, Batch
<1>2. PICK n \in [0 .. Len(out[w]) -> 0 .. Len(held[w])] : Counts(n, out[w], held[w])
  BY <1>1 DEF Tally, InWork, Working
<1>3. ReadOff(n, out[w], held[w])
  <2>1. PICK s, h : s = out[w] /\ h = held[w]
    OBVIOUS
  <2>2. s \in Seq(Frames) /\ s # << >> /\ h \in Seq(Test) /\ Counts(n, s, h)
    BY <1>1, <1>2, <2>1
  <2>3. ReadOff(n, s, h)
    BY <2>2, CountLess
  <2> QED
    BY <2>1, <2>3, Zenon
<1>4. CASE Torn(Head(out[w]))
  <2>1. held[w] # << >> /\ Head(out[w]).test = held[w][1] /\ Head(held[w]) = held[w][1]
    BY <1>1, <1>3, <1>4 DEF ReadOff
  <2>2. Injective(held[w])
    <3> DEFINE P == PendingOf(held[w], queues[w])
    <3>1. Distinct(P) /\ 0 \in DOMAIN P /\ P[0] = held[w]
      BY <1>1 DEF Tally, PendingOf
    <3> HIDE DEF P
    <3> QED
      BY <3>1 DEF Distinct, Injective
  <2>3. Without(held[w], held[w][1]) = Tail(held[w])
    BY <1>1, <2>1, <2>2, WithoutFirst
  <2>4. held'[w] = Without(held[w], Head(out[w]).test)
    BY <1>1, <1>4 DEF Torn
  <2>5. held'[w] = Tail(held[w])
    BY <2>1, <2>3, <2>4, Zenon
  <2> QED
    BY <1>4, <2>1, <2>5, Zenon
<1>5. CASE ~Torn(Head(out[w])) /\ OfScope(Head(out[w]))
  <2>1. \A k \in DOMAIN held[w] : held[w][k] # Head(out[w]).test
    BY <1>1, <1>3, <1>5 DEF ReadOff
  <2>2. Without(held[w], Head(out[w]).test) = held[w]
    BY <1>1, <2>1, WithoutAbsent
  <2> QED
    BY <1>1, <1>5, <2>2, Zenon
<1>6. CASE ~Torn(Head(out[w])) /\ ~OfScope(Head(out[w]))
  BY <1>1, <1>6 DEF Torn, OfScope
<1> QED
  BY <1>4, <1>5, <1>6

LEMMA ReadTally ==
    ASSUME Types, NEW w \in Worker, Known(w), Tally(w), ReadReport(w) \/ ReadInterrupted(w)
    PROVE  Tally(w)'
<1>1. /\ out[w] # << >> /\ out'[w] = Tail(out[w]) /\ pc[w] = "read"
      /\ queues'[w] = queues[w] /\ verdict'[w] = verdict[w] /\ proc'[w] = proc[w] /\ inp'[w] = inp[w]
      /\ StopSeen' = StopSeen
  BY PopTail DEF ReadReport, ReadInterrupted, Frame, queueVars, procVars, Types, StopSeen
<1>2. CASE ReadReport(w)
  <2>1. pc'[w] = "read" /\ Head(out[w]).kind = "report"
    BY <1>1, <1>2 DEF ReadReport, Frame
  <2>2. held'[w] = IF Torn(Head(out[w])) THEN Tail(held[w]) ELSE held[w]
    BY <1>2, ReportStrikes
  <2> QED
    BY <1>1, <2>1, <2>2, PoppedOn DEF Working
<1>3. CASE ReadInterrupted(w)
  <2>1. /\ pc'[w] = "waitStop" /\ held'[w] = held[w]
        /\ Head(out[w]).kind = "interrupted"
    BY <1>3, GotoLabel DEF ReadInterrupted, Frame, Types
  <2>2. held'[w] = IF Torn(Head(out[w])) THEN Tail(held[w]) ELSE held[w]
    BY <2>1 DEF Torn
  <2> QED
    BY <1>1, <2>1, <2>2, PoppedOn DEF Working
<1> QED
  BY <1>2, <1>3

LEMMA ReadDoneTally ==
    ASSUME Types, NEW w \in Worker, Tally(w), ReadDone(w)
    PROVE  Tally(w)'
<1>1. /\ out[w] # << >> /\ out'[w] = Tail(out[w]) /\ pc[w] = "read" /\ pc'[w] = "next" /\ held'[w] = << >>
      /\ queues'[w] = queues[w] /\ verdict'[w] = verdict[w] /\ proc'[w] = proc[w]
      /\ out[w] \in Seq(Frames) /\ 1 \in Said(w, "done")
      /\ held[w] \in Batch /\ queues[w] \in Seq(Batch)
  BY PopTail, GotoLabel
  DEF ReadDone, Frame, queueVars, procVars, Types, OwnerTypes, QueueTypes, QueueTypeOK, Said
<1>2. \A i \in DOMAIN out'[w] : i + 1 \in DOMAIN out[w] /\ i + 1 > 1 /\ out'[w][i] = out[w][i + 1]
  BY <1>1
<1>3. /\ proc[w].st \in {"idle", "final", "bye", "exiting", "gone"}
      /\ \A j \in DOMAIN out[w] : j > 1 => ~Torn(out[w][j])
  BY <1>1 DEF Tally, Working, InWork, DoneLast
<1>4. Quiet(w)'
  BY <1>1, <1>2, <1>3 DEF Quiet, AtItem
<1>5. OwnerSays(w)' /\ NoBlame(w)' /\ LastGone(w)'
  BY <1>1, <1>2 DEF Tally, OwnerSays, NoBlame, LastGone
<1>6. Distinct(PendingOf(held[w], queues[w]))'
  BY <1>1, DropMoves DEF Tally
<1> QED
  BY <1>1, <1>4, <1>5, <1>6 DEF Tally, Working

LEMMA WaitStopTally ==
    ASSUME Types, NEW w \in Worker, Tally(w), WaitStop(w)
    PROVE  Tally(w)'
<1>1. /\ pc[w] = "waitStop" /\ pc'[w] = "read" /\ StopSeen /\ StopSeen'
      /\ UNCHANGED <<queues, held, verdict, proc, inp, out>>
  BY GotoLabel DEF WaitStop, StopSeen, queueVars, procVars, Types
<1>2. OwnerSays(w)' /\ NoBlame(w)' /\ LastGone(w)' /\ Distinct(PendingOf(held[w], queues[w]))'
  BY <1>1 DEF Tally, OwnerSays, NoBlame, LastGone, Holding
<1>3. PICK n \in [0 .. Len(out[w]) -> 0 .. Len(held[w])], m \in 0 .. Len(held[w]) :
        Counts(n, out[w], held[w]) /\ m = n[Len(out[w])] /\ Behind(w, m)
  BY <1>1 DEF Tally, InWork, Working
<1>4. Behind(w, m)' /\ Final(w, n)'
  BY <1>1, <1>3 DEF Behind, Final
<1>5. /\ DoneLast(w)'
      /\ Alive(w)' => \A i \in DOMAIN inp'[w] : inp'[w][i].kind = "run" => inp'[w][i].ids = held'[w]
  BY <1>1 DEF Tally, InWork, Working, DoneLast, Said, Alive
<1>6. InWork(w)'
  BY <1>1, <1>3, <1>4, <1>5 DEF InWork
<1> QED
  BY <1>1, <1>2, <1>6 DEF Tally, Working

LEMMA ReadEofTally ==
    ASSUME Types, NEW w \in Worker, Tally(w), ReadEof(w)
    PROVE  Tally(w)'
<1>1. /\ pc[w] = "read" /\ pc'[w] = "crashed" /\ out[w] = << >> /\ proc[w].st = "gone"
      /\ UNCHANGED <<queues, held, verdict, proc, inp, out>>
  BY GotoLabel DEF ReadEof, Eof, Alive, queueVars, procVars, Types
<1>2. OwnerSays(w)' /\ NoBlame(w)' /\ LastGone(w)' /\ Distinct(PendingOf(held[w], queues[w]))'
  BY <1>1 DEF Tally, OwnerSays, NoBlame, LastGone, Holding
<1>3. Quiet(w)'
  BY <1>1 DEF Quiet, AtItem
<1> QED
  BY <1>1, <1>2, <1>3 DEF Tally, Working

LEMMA BookTally ==
    ASSUME Types, NEW w \in Worker, Known(w), Tally(w), Book(w)
    PROVE  Tally(w)'
<1>1. /\ pc[w] \in {"doomed", "crashed", "dying"} /\ pc'[w] = "tell" /\ held'[w] = << >>
      /\ UNCHANGED <<proc, inp, out>>
      /\ held[w] \in Batch /\ queues[w] \in Seq(Batch) /\ queues \in [Worker -> Seq(Batch)]
  BY GotoLabel DEF Book, procVars, Types, OwnerTypes, QueueTypes, QueueTypeOK
<1>2. /\ verdict'[w].action # "none" /\ Len(verdict'[w].running) <= 1
      /\ \/ queues' = queues \/ queues'[w] = << >>
         \/ CrashReplace(w, Remainder(w))
  <2>1. PICK running : running = IF held[w] = << >> THEN << >> ELSE <<Head(held[w])>>
    OBVIOUS
  <2>2. Len(running) <= 1
    BY <2>1
  <2>3. \E a \in {"silent", "replace", "abort"} :
          verdict' = [verdict EXCEPT ![w] = [action |-> a, running |-> running, replace |-> pc[w] = "crashed"]]
    BY <2>1 DEF Book
  <2>4. verdict'[w].action # "none" /\ verdict'[w].running = running
    BY <2>3 DEF Types, OwnerTypes
  <2>5. queues' = queues \/ queues'[w] = << >> \/ CrashReplace(w, Remainder(w))
    BY DEF Book, CrashSilent, CrashAbort, queueVars
  <2> QED
    BY <2>2, <2>4, <2>5
<1>3. proc[w].st = "gone" /\ out[w] = << >> /\ proc[w].last = << >>
  BY <1>1 DEF Known, Eof, Alive, Tally, LastGone
<1>4. OwnerSays(w)' /\ NoBlame(w)' /\ LastGone(w)' /\ Quiet(w)'
  BY <1>1, <1>2, <1>3 DEF OwnerSays, NoBlame, LastGone, Quiet, AtItem
<1>5. Distinct(PendingOf(held[w], queues[w])) /\ Distinct(PendingOf(<< >>, queues[w]))
  BY <1>1, DropMoves DEF Tally
<1>6. Distinct(PendingOf(<< >>, queues'[w]))
  <2>1. CASE queues' = queues
    BY <1>5, <2>1
  <2>2. CASE queues'[w] = << >>
    <3>1. << >> \in Batch
      BY DEF Batch
    <3> QED
      BY <1>1, <1>5, <2>2, <3>1, ClearMoves
  <2>3. CASE CrashReplace(w, Remainder(w))
    <3>1. CASE Remainder(w) = << >>
      BY <1>5, <2>3, <3>1 DEF CrashReplace
    <3>2. CASE Remainder(w) # << >>
      <4>1. held[w] # << >> /\ Remainder(w) = Tail(held[w])
        BY <3>2 DEF Remainder
      <4>2. queues'[w] = <<Remainder(w)>> \o queues[w]
        BY <1>1, <2>3, <3>2 DEF CrashReplace
      <4>3. PICK b : b = Tail(held[w])
        OBVIOUS
      <4>4. b \in Batch
        BY <1>1, <4>1, <4>3 DEF Batch
      <4>5. Distinct(PendingOf(Tail(held[w]), queues[w]))
        BY <1>1, <1>5, <4>1, CompleteMoves
      <4>6. Distinct(PendingOf(b, queues[w]))
        BY <4>3, <4>5, Zenon
      <4>7. Distinct(PendingOf(<< >>, <<b>> \o queues[w]))
        BY <1>1, <4>4, <4>6, RequeueMoves
      <4>8. queues'[w] = <<b>> \o queues[w]
        BY <4>1, <4>2, <4>3, Zenon
      <4> QED
        BY <4>7, <4>8, Zenon
    <3> QED
      BY <3>1, <3>2
  <2> QED
    BY <1>2, <2>1, <2>2, <2>3
<1> QED
  BY <1>1, <1>4, <1>6 DEF Tally, Working

LEMMA OwnerTally ==
    ASSUME Types, NEW w \in Worker, Known(w), Tally(w), OwnerStep(w)
    PROVE  Tally(w)'
<1>a. ASSUME pc[w] \notin Holding, pc'[w] \notin Holding \cup {"tell"},
             queues'[w] = queues[w], held'[w] = held[w], verdict'[w] = NoVerdict,
             proc'[w] = proc[w] \/ proc'[w] = Process("collecting"),
             out'[w] \in {out[w], Tail(out[w]), << >>}, out'[w] # out[w] => out[w] # << >>
      PROVE  Tally(w)'
  <2>1. NoOutput(w)
    BY <1>a, PopNothing DEF Types
  <2> QED
    BY <1>a, <2>1, IdleOwner
<1>b. pc[w] # "tell" => verdict[w] = NoVerdict
  BY DEF Tally, OwnerSays
<1>c. /\ pc \in [Worker -> PcState] /\ proc \in [Worker -> Processes] /\ out \in [Worker -> Seq(Frames)]
      /\ verdict \in [Worker -> Verdicts]
  BY DEF Types, OwnerTypes, ProcessTypes, PipeTypes
<1>1. CASE StartForked(w)
  BY <1>1, <1>a, <1>b, <1>c DEF StartForked, Goto, Holding, queueVars, procVars
<1>2. CASE StartSpawned(w)
  BY <1>2, <1>a, <1>b, <1>c DEF StartSpawned, Goto, Become, Holding, queueVars
<1>3. CASE CollectFrame(w)
  BY <1>3, <1>a, <1>b, <1>c DEF CollectFrame, Goto, Pop, Frame, Holding, queueVars, procVars
<1>4. CASE CollectEof(w)
  BY <1>4, <1>a, <1>b, <1>c DEF CollectEof, Goto, Holding, queueVars, procVars
<1>5. CASE NextBatch(w)
  BY <1>5, NextBatchTally
<1>6. CASE NoMoreBatches(w)
  BY <1>6, <1>a, <1>b, <1>c DEF NoMoreBatches, NoBatch, Goto, Holding, queueVars, procVars
<1>7. CASE SendRun(w)
  BY <1>7, SendRunTally
<1>8. CASE ReadReport(w) \/ ReadInterrupted(w)
  BY <1>8, ReadTally
<1>9. CASE ReadDone(w)
  BY <1>9, ReadDoneTally
<1>10. CASE WaitStop(w)
  BY <1>10, WaitStopTally
<1>11. CASE ReadEof(w)
  BY <1>11, ReadEofTally
<1>12. CASE Book(w)
  BY <1>12, BookTally
<1>13. CASE Tell(w)
  <2>1. /\ pc[w] = "tell" /\ verdict'[w] = NoVerdict /\ queues'[w] = queues[w] /\ held'[w] = held[w]
        /\ pc'[w] \in {"absorb", "lost", "end"}
        /\ proc'[w] = proc[w] \/ proc'[w] = Process("collecting")
        /\ out'[w] \in {out[w], << >>}
    BY <1>13, <1>c DEF Tell, Goto, Become, queueVars
  <2>2. out[w] = << >>
    BY <2>1 DEF Known, Eof
  <2> QED
    BY <1>a, <2>1, <2>2 DEF Holding
<1>14. CASE Absorb(w)
  BY <1>14, <1>a, <1>b, <1>c DEF Absorb, Goto, Pop, Frame, Holding, queueVars, procVars
<1>15. CASE DrainReport(w)
  BY <1>15, <1>a, <1>b, <1>c DEF DrainReport, Pop, Frame, Holding, queueVars, ownerVars, procVars
<1>16. CASE DrainBye(w)
  BY <1>16, <1>a, <1>b, <1>c DEF DrainBye, Goto, Pop, Frame, Holding, queueVars, procVars
<1>17. CASE DrainEof(w)
  BY <1>17, <1>a, <1>b, <1>c DEF DrainEof, Goto, Holding, queueVars, procVars
<1>18. CASE Reap(w)
  BY <1>18, <1>a, <1>b, <1>c DEF Reap, Goto, Holding, queueVars, procVars
<1> QED
  BY <1>1, <1>2, <1>3, <1>4, <1>5, <1>6, <1>7, <1>8, <1>9, <1>10, <1>11, <1>12, <1>13, <1>14,
     <1>15, <1>16, <1>17, <1>18 DEF OwnerStep

-----------------------------------------------------------------------------
(* The other slots, and the merge loop's steps.                            *)

\* What happens to the queues and the owners' variables of other slots.
LEMMA OtherQueue ==
    ASSUME Types, NEW v \in Worker, NEW w \in Worker, v # w,
           WorkerStep(v) \/ OwnerStep(v) \/ Die(v)
    PROVE  /\ held'[w] = held[w] /\ verdict'[w] = verdict[w]
           /\ queues'[w] = queues[w] \/ queues'[w] = << >>
<1> USE DEF Types, OwnerTypes, QueueTypes, QueueTypeOK, queueVars, ownerVars
<1>1. CASE WorkerStep(v) \/ Die(v)
  BY <1>1 DEF WorkerStep, ReadInput, Collect, ReadRun, Uncollected, Scopes, Body, Teardown,
         BatchEnd, Leave, ReadShutdown, FinalTeardown, SayBye, Exit, ProcessOnly, Die
<1>2. CASE Book(v)
  <2>1. held'[w] = held[w] /\ verdict'[w] = verdict[w]
    BY <1>2 DEF Book
  <2>2. queues'[w] = queues[w] \/ queues'[w] = << >>
    BY <1>2 DEF Book, CrashSilent, CrashReplace, CrashAbort
  <2> QED
    BY <2>1, <2>2
<1>3. CASE OwnerStep(v) /\ ~Book(v)
  BY <1>3 DEF OwnerStep, StartForked, StartSpawned, CollectFrame, CollectEof, NextBatch, TakeBatch,
         NoMoreBatches, NoBatch, SendRun, ReadReport, ReadDone, ReadInterrupted, WaitStop, ReadEof,
         Tell, Absorb, DrainReport, DrainBye, DrainEof, Reap
<1> QED
  BY <1>1, <1>2, <1>3

\* Under any mode but each, a plan has a test once.
LEMMA PlanApart ==
    ASSUME NEW ids \in CollectChoices \cup {<< >>}
    PROVE  Distinct(Plan[ids])
<1>1. ids \in Seq(Test) /\ Injective(ids)
  <2>1. CollectChoices \subseteq Seq(Test) /\ \A c \in CollectChoices : Injective(c)
    BY DistAssumption, PlanAssumption DEF Injective
  <2>2. << >> \in Seq(Test) /\ Injective(<< >>)
    BY DEF Injective
  <2> QED
    BY <2>1, <2>2
<1>2. NumWorkers \in Nat \ {0} /\ Mode # "each"
  BY NumWorkersAssumption, PlanAssumption
<1>3. Plan[ids] = BuildBatches(Mode, ids, File, Group, NumWorkers, Reorder)
  BY DEF Plan
<1>4. Apart(BuildBatches(Mode, ids, File, Group, NumWorkers, Reorder))
  BY <1>1, <1>2, BuildBatchesCut, CutApart
<1>5. Apart(Plan[ids])
  BY <1>3, <1>4
<1> QED
  BY <1>5 DEF Apart, Distinct

LEMMA PlanEmpty == Plan[<< >>] = << >>
<1>1. Plan[<< >>] = BuildBatches(Mode, << >>, File, Group, NumWorkers, Reorder)
  BY DEF Plan
<1> QED
  BY <1>1, BuildBatchesEmpty, NumWorkersAssumption

\* The batches are pushed to slots that have nothing.
LEMMA PushTally ==
    ASSUME Types, NEW w \in Worker, Tally(w), Virgin, ~Pushed, PushBatches(Plan[merge.first]),
           UNCHANGED <<ownerVars, procVars, inp, out>>
    PROVE  Tally(w)'
<1>1. Plan[merge.first] \in Seq(Batch) /\ Distinct(Plan[merge.first])
  BY PlanType, PlanApart DEF Types, MergeTypes
<1>2. StopSeen' = StopSeen /\ UNCHANGED <<pc, held, verdict, proc, inp, out>>
  BY DEF PushBatches, StopSeen, ownerVars, procVars
<1>3. queues[w] = << >> /\ pc[w] \notin Holding /\ proc[w].last = << >> /\ held[w] = << >>
  BY DEF Virgin, Tally, OwnerSays
<1>4. CASE queues' = queues
  BY <1>2, <1>4, TallyStays
<1>5. CASE queues' = [v \in Worker |-> queues[v] \o Share(Plan[merge.first], v)]
  <2>1. PICK q : q = Share(Plan[merge.first], w)
    OBVIOUS
  <2>2. q \in Seq(Batch) /\ Distinct(PendingOf(<< >>, q))
    BY <1>1, <2>1, ShareType, PushMoves
  <2>3. queues'[w] = q
    <3>1. << >> \o q = q
      BY <2>2
    <3>2. queues'[w] = queues[w] \o Share(Plan[merge.first], w)
      BY <1>5
    <3> QED
      BY <1>3, <2>1, <3>1, <3>2, Zenon
  <2>4. Distinct(PendingOf(held[w], queues[w]))'
    BY <1>2, <1>3, <2>2, <2>3
  <2>5. OwnerSays(w)' /\ NoBlame(w)' /\ LastGone(w)' /\ Quiet(w)'
    BY <1>2, <1>3 DEF Tally, OwnerSays, NoBlame, LastGone, Quiet, Working, Holding
  <2> QED
    BY <1>2, <1>3, <2>4, <2>5 DEF Tally, Working, Holding
<1> QED
  BY <1>4, <1>5 DEF PushBatches

\* Before the last collection is counted no batch has been pushed.
LEMMA CountedBefore ==
    ASSUME Types, Awaited, merge.at = "count"
    PROVE  /\ merge.pending \in Nat \ {0} /\ ~Pushed
           /\ merge.pending = Cardinality(Waiting) + Cardinality(Coming) + 1
           /\ Cardinality(Waiting) \in Nat /\ Cardinality(Coming) \in Nat
           /\ IsFiniteSet(Waiting) /\ IsFiniteSet(Coming)
<1>1. IsFiniteSet(Waiting) /\ IsFiniteSet(Coming)
  <2>1. IsFiniteSet(Worker)
    BY NumWorkersAssumption, FS_Interval DEF Worker
  <2>2. Waiting \in SUBSET Worker
    BY DEF Waiting
  <2>3. IsFiniteSet(1 .. Len(events)) /\ Coming \in SUBSET (1 .. Len(events))
    <3>1. events \in Seq(Events)
      BY DEF Types
    <3> QED
      BY <3>1, FS_Interval DEF Coming
  <2> QED
    BY <2>1, <2>2, <2>3, FS_Subset
<1>2. Cardinality(Waiting) \in Nat /\ Cardinality(Coming) \in Nat
  BY <1>1, FS_CardinalityType
<1> QED
  BY <1>1, <1>2 DEF Awaited, Taken, Pushed

LEMMA MergeTally ==
    ASSUME Types, Awaited, Virgin, NEW w \in Worker, Tally(w), MergeStep
    PROVE  Tally(w)'
<1>1. StopSeen => StopSeen'
  BY StopStays DEF Next
<1>2. UNCHANGED <<ownerVars, procVars, inp, out>>
  BY DEF MergeStep, MergeFirst, MergeSame, MergeDifferent, MergeCount, MergeReport,
         MergeInterrupted, MergeBanner, MergeEnd, MergeOnly
<1>3. CASE UNCHANGED queueVars \/ Stop
  BY <1>1, <1>2, <1>3, TallyStays DEF queueVars, ownerVars, procVars, Stop
<1>4. CASE MergeCount /\ PushBatches(Plan[merge.first])
  BY <1>2, <1>4, CountedBefore, PushTally DEF MergeCount
<1> QED
  BY <1>3, <1>4 DEF MergeStep, MergeFirst, MergeSame, MergeDifferent, MergeCount, MergeReport,
         MergeInterrupted, MergeBanner, MergeEnd

LEMMA NextTally ==
    ASSUME Types, Protocol, Ledger, [Next]_vars
    PROVE  \A w \in Worker : Tally(w)'
<1> SUFFICES ASSUME NEW w \in Worker PROVE Tally(w)'
  OBVIOUS
<1>1. Tally(w) /\ Known(w) /\ Awaited /\ Virgin
  BY DEF Ledger, Protocol
<1>2. StopSeen => StopSeen'
  BY StopStays
<1>3. CASE UNCHANGED vars
  BY <1>1, <1>2, <1>3, TallyStays DEF vars, queueVars, ownerVars, procVars
<1>4. CASE WorkerStep(w) \/ OwnerStep(w) \/ Die(w)
  BY <1>1, <1>4, WorkerTally, OwnerTally, DieTally
<1>5. ASSUME NEW v \in Worker, v # w, WorkerStep(v) \/ OwnerStep(v) \/ Die(v)
      PROVE  Tally(w)'
  <2>1. /\ held'[w] = held[w] /\ verdict'[w] = verdict[w]
        /\ queues'[w] = queues[w] \/ queues'[w] = << >>
    BY <1>5, OtherQueue
  <2>2. pc'[w] = pc[w] /\ proc'[w] = proc[w] /\ inp'[w] = inp[w] /\ out'[w] = out[w]
    BY <1>5, OwnSlot
  <2> QED
    BY <1>1, <1>2, <2>1, <2>2, TallyStays
<1>6. CASE MergeStep
  BY <1>1, <1>6, MergeTally
<1> QED
  BY <1>3, <1>4, <1>5, <1>6 DEF Next, Terminated

-----------------------------------------------------------------------------
(* The collections on their way.                                           *)

LEMMA FiniteComing ==
    ASSUME events \in Seq(Events)
    PROVE  IsFiniteSet(Coming) /\ Cardinality(Coming) \in Nat
<1>1. IsFiniteSet(1 .. Len(events)) /\ Coming \in SUBSET (1 .. Len(events))
  BY FS_Interval DEF Coming
<1> QED
  BY <1>1, FS_Subset, FS_CardinalityType

LEMMA PostedOther ==
    ASSUME events \in Seq(Events), NEW es, es \in Seq(Events), Post(es),
           \A i \in DOMAIN es : es[i].kind # "collection"
    PROVE  Coming' = Coming /\ \A i \in Coming : events'[i] = events[i]
<1>1. events' = events \o es
  BY DEF Post
<1>2. \A i \in DOMAIN events' :
        \/ i \in DOMAIN events /\ events'[i] = events[i]
        \/ i - Len(events) \in DOMAIN es /\ events'[i] = es[i - Len(events)]
  BY <1>1, InConcat
<1>3. \A i \in DOMAIN events : i \in DOMAIN events' /\ events'[i] = events[i]
  BY <1>1
<1> QED
  BY <1>2, <1>3 DEF Coming

LEMMA PostedCollection ==
    ASSUME events \in Seq(Events), NEW e, e \in Events, Post(<<e>>), e.kind = "collection"
    PROVE  /\ Cardinality(Coming') = Cardinality(Coming) + 1
           /\ Coming \subseteq Coming' /\ \A i \in Coming : events'[i] = events[i]
           /\ \E i \in Coming' : events'[i] = e
<1>1. events' = events \o <<e>>
  BY DEF Post
<1>2. /\ DOMAIN events' = 1 .. Len(events) + 1 /\ DOMAIN events = 1 .. Len(events) /\ Len(events) \in Nat
      /\ \A i \in 1 .. Len(events) : events'[i] = events[i]
      /\ events'[Len(events) + 1] = e
  BY <1>1
<1>3. Coming' = Coming \cup {Len(events) + 1} /\ Len(events) + 1 \notin Coming
  BY <1>2 DEF Coming
<1>4. IsFiniteSet(Coming)
  BY FiniteComing
<1>5. Cardinality(Coming \cup {Len(events) + 1}) = Cardinality(Coming) + 1
  BY <1>3, <1>4, FS_AddElement
<1> QED
  BY <1>2, <1>3, <1>5 DEF Coming

LEMMA ReceivedComing ==
    ASSUME events \in Seq(Events), events # << >>, Received
    PROVE  /\ Cardinality(Coming) =
                  Cardinality(Coming') + (IF Head(events).kind = "collection" THEN 1 ELSE 0)
           /\ Cardinality(Coming') \in Nat
           /\ \A i \in Coming : \/ i = 1 /\ events[i] = Head(events) /\ Head(events).kind = "collection"
                                \/ i - 1 \in Coming' /\ events'[i - 1] = events[i]
<1>1. /\ events' = Tail(events) /\ Len(events) \in Nat \ {0} /\ DOMAIN events = 1 .. Len(events)
      /\ DOMAIN events' = 1 .. Len(events) - 1 /\ Head(events) = events[1]
      /\ \A i \in 1 .. Len(events) - 1 : events'[i] = events[i + 1]
      /\ events' \in Seq(Events)
  BY DEF Received
<1> DEFINE K == Coming
           later == K \ {1}
           f == [i \in Coming' |-> i + 1]
<1>2. IsFiniteSet(K) /\ Cardinality(K) \in Nat
  BY FiniteComing
<1>3. \A i \in Coming' : i \in 1 .. Len(events) - 1 /\ i + 1 \in later
  BY <1>1 DEF Coming
<1>4. \A i \in later : i - 1 \in Coming' /\ i \in Nat /\ events'[i - 1] = events[i]
  <2> TAKE i \in later
  <2>1. i \in 2 .. Len(events) /\ events[i].kind = "collection"
    BY <1>1 DEF Coming
  <2>2. i - 1 \in 1 .. Len(events) - 1 /\ (i - 1) + 1 = i
    BY <1>1, <2>1
  <2> QED
    BY <1>1, <2>1, <2>2 DEF Coming
<1>5. ExistsBijection(Coming', later)
  <2>1. f \in [Coming' -> later]
    BY <1>3
  <2>2. \A i, j \in Coming' : f[i] = f[j] => i = j
    BY <1>3
  <2>3. \A i \in later : \E j \in Coming' : f[j] = i
    <3> TAKE i \in later
    <3>1. i - 1 \in Coming' /\ f[i - 1] = i
      BY <1>4
    <3> QED
      BY <3>1
  <2> HIDE DEF f, later
  <2>4. PICK C, D, g : C = Coming' /\ D = later /\ g = f
    OBVIOUS
  <2>5. /\ g \in [C -> D] /\ \A i, j \in C : g[i] = g[j] => i = j
        /\ \A i \in D : \E j \in C : g[j] = i
    BY <2>1, <2>2, <2>3, <2>4, Zenon
  <2>6. g \in Injection(C, D) /\ g \in Surjection(C, D)
    BY <2>5 DEF Injection, Surjection, IsInjective
  <2>7. ExistsBijection(C, D)
    BY <2>6 DEF ExistsBijection, Bijection
  <2> QED
    BY <2>4, <2>7, Zenon
<1>6. IsFiniteSet(Coming')
  <2>1. IsFiniteSet(1 .. Len(events) - 1) /\ Coming' \in SUBSET (1 .. Len(events) - 1)
    BY <1>1, <1>3, FS_Interval
  <2> QED
    BY <2>1, FS_Subset
<1>7. Cardinality(later) = Cardinality(Coming') /\ Cardinality(Coming') \in Nat
  <2>1. PICK C, D : C = Coming' /\ D = later
    OBVIOUS
  <2>2. IsFiniteSet(C) /\ ExistsBijection(C, D)
    BY <1>5, <1>6, <2>1, Zenon
  <2>3. Cardinality(D) = Cardinality(C) /\ Cardinality(C) \in Nat
    BY <2>2, FS_Bijection, FS_CardinalityType
  <2> QED
    BY <2>1, <2>3, Zenon
<1>8. Cardinality(later) = IF 1 \in K THEN Cardinality(K) - 1 ELSE Cardinality(K)
  <2> HIDE DEF K
  <2> QED
    BY <1>2, FS_RemoveElement
<1>9. 1 \in K <=> Head(events).kind = "collection"
  BY <1>1 DEF Coming
<1>10. Cardinality(K) = Cardinality(Coming') + (IF Head(events).kind = "collection" THEN 1 ELSE 0)
  <2>1. PICK a, b : a = Cardinality(K) /\ b = Cardinality(Coming')
    OBVIOUS
  <2>2. a \in Nat /\ b \in Nat /\ b = IF 1 \in K THEN a - 1 ELSE a
    BY <1>2, <1>7, <1>8, <2>1, Zenon
  <2>3. a = b + (IF Head(events).kind = "collection" THEN 1 ELSE 0)
    <3> HIDE DEF K
    <3> QED
      BY <1>9, <2>2
  <2> QED
    BY <2>1, <2>3, Zenon
<1>11. \A i \in Coming : \/ i = 1 /\ events[i] = Head(events) /\ Head(events).kind = "collection"
                         \/ i - 1 \in Coming' /\ events'[i - 1] = events[i]
  BY <1>1, <1>4, <1>9
<1> QED
  BY <1>7, <1>10, <1>11

\* What an owner's step does to the collections: it waits for one, sends its
\* worker's or an empty one, or has nothing to do with them.
Keeps == Coming' = Coming /\ \A i \in Coming : events'[i] = events[i]
Before(w) == pc[w] \in {"start", "collect"}

Begins(w) == Before(w) /\ pc'[w] = "collect" /\ Keeps
Collects(w) == Before(w) /\ pc'[w] = "next" /\ \E e \in Collections : Post(<<e>>)
Empties(w) == Before(w) /\ pc'[w] \in {"doomed", "end"} /\ Post(<<Collection(<< >>)>>)
Passes(w) == ~Before(w) /\ pc'[w] \notin {"start", "collect"} /\ Keeps

LEMMA SameKeeps == UNCHANGED events => Keeps
BY DEF Keeps, Coming

LEMMA OtherKeeps ==
    ASSUME events \in Seq(Events), NEW e, e \in Events, e.kind # "collection", Post(<<e>>)
    PROVE  Keeps
<1>1. <<e>> \in Seq(Events) /\ \A i \in DOMAIN <<e>> : <<e>>[i].kind # "collection"
  OBVIOUS
<1> QED
  BY <1>1, PostedOther DEF Keeps

LEMMA OwnerPosts ==
    ASSUME Types, NEW w \in Worker, OwnerStep(w)
    PROVE  Begins(w) \/ Collects(w) \/ Empties(w) \/ Passes(w)
<1>a. /\ pc \in [Worker -> PcState] /\ events \in Seq(Events)
      /\ out \in [Worker -> Seq(Frames)]
      /\ verdict \in [Worker -> Verdicts]
  BY DEF Types, OwnerTypes, PipeTypes
<1>b. /\ pc[w] \in {"next", "send", "read", "waitStop", "doomed", "crashed", "dying", "tell", "absorb",
                    "drain", "reap"} => ~Before(w)
      /\ pc[w] \in {"start", "collect"} => Before(w)
  BY DEF Before
<1>c. \A l : Goto(w, l) => pc'[w] = l
  BY <1>a DEF Goto
<1>d. ASSUME out[w] # << >>, Head(out[w]).kind \in {"report", "interrupted"}
      PROVE  Head(out[w]) \in Events /\ Head(out[w]).kind # "collection"
  <2>1. Head(out[w]) \in Frames
    BY <1>a, <1>d
  <2> QED
    BY <1>d, <2>1, Kinds DEF Events
<1>1. CASE StartForked(w) \/ StartSpawned(w)
  BY <1>1, <1>b, <1>c, SameKeeps DEF StartForked, StartSpawned, Begins, Empties
<1>2. CASE CollectFrame(w)
  <2>1. Head(out[w]) \in Collections
    <3>1. Head(out[w]) \in Frames /\ Head(out[w]).kind = "collection"
      BY <1>2, <1>a DEF CollectFrame, Frame
    <3> QED
      BY <3>1, Kinds
  <2> QED
    BY <1>2, <1>b, <1>c, <2>1 DEF CollectFrame, Collects
<1>3. CASE CollectEof(w)
  BY <1>3, <1>b, <1>c DEF CollectEof, Empties
<1>4. CASE NextBatch(w) \/ NoMoreBatches(w) \/ SendRun(w) \/ ReadDone(w) \/ WaitStop(w) \/ ReadEof(w)
           \/ Book(w) \/ Absorb(w) \/ DrainBye(w) \/ DrainEof(w) \/ Reap(w)
  BY <1>4, <1>b, <1>c, SameKeeps DEF NextBatch, NoMoreBatches, SendRun, ReadDone, WaitStop, ReadEof,
     Book, Absorb, DrainBye, DrainEof, Reap, Passes
<1>5. CASE ReadReport(w) \/ DrainReport(w)
  <2>1. Post(<<Head(out[w])>>) /\ out[w] # << >> /\ Head(out[w]).kind = "report"
        /\ pc[w] \in {"read", "drain"} /\ pc' = pc
    BY <1>5 DEF ReadReport, DrainReport, Frame, ownerVars
  <2>2. Keeps
    BY <1>a, <1>d, <2>1, OtherKeeps
  <2> QED
    BY <1>b, <2>1, <2>2 DEF Passes
<1>6. CASE ReadInterrupted(w)
  <2>1. Post(<<Head(out[w])>>) /\ out[w] # << >> /\ Head(out[w]).kind = "interrupted"
        /\ pc[w] = "read" /\ pc'[w] = "waitStop"
    BY <1>6, <1>c DEF ReadInterrupted, Frame
  <2>2. Keeps
    BY <1>a, <1>d, <2>1, OtherKeeps
  <2> QED
    BY <1>b, <2>1, <2>2 DEF Passes
<1>7. CASE Tell(w)
  <2> DEFINE v == verdict[w]
             failure == IF v.action # "silent" /\ v.running # << >>
                        THEN <<Report(v.running[1], "crash", TRUE)>> ELSE << >>
             banner == IF v.action = "abort" THEN <<Banner>> ELSE << >>
  <2>1. Post(failure \o banner) /\ pc[w] = "tell" /\ pc'[w] \in {"absorb", "lost", "end"}
    BY <1>7, <1>c DEF Tell
  <2>2. v.running # << >> => v.running[1] \in Test
    BY <1>a DEF Verdicts, Batch
  <2>3. /\ v.running # << >> => Report(v.running[1], "crash", TRUE) \in Events
        /\ Banner \in Events /\ Banner.kind # "collection"
        /\ Report(v.running[1], "crash", TRUE).kind # "collection"
    BY <2>2, Built DEF Events, Banner, Report
  <2>4. failure \in Seq(Events) /\ \A i \in DOMAIN failure : failure[i].kind # "collection"
    <3>1. PICK x : x = Report(v.running[1], "crash", TRUE)
      OBVIOUS
    <3>2. v.running # << >> => x \in Events /\ x.kind # "collection"
      BY <2>3, <3>1, Zenon
    <3>3. failure = << >> \/ (failure = <<x>> /\ v.running # << >>)
      BY <3>1
    <3> HIDE DEF failure, v
    <3>4. failure = <<x>> /\ v.running # << >> =>
            failure \in Seq(Events) /\ \A i \in DOMAIN failure : failure[i].kind # "collection"
      BY <3>2
    <3>5. failure = << >> => failure \in Seq(Events) /\ \A i \in DOMAIN failure : failure[i].kind # "collection"
      OBVIOUS
    <3> QED
      BY <3>3, <3>4, <3>5, Zenon
  <2>5. banner \in Seq(Events) /\ \A i \in DOMAIN banner : banner[i].kind # "collection"
    BY <2>3
  <2> HIDE DEF failure, banner, v
  <2>6. failure \o banner \in Seq(Events)
        /\ \A i \in DOMAIN (failure \o banner) : (failure \o banner)[i].kind # "collection"
    BY <2>4, <2>5
  <2>7. Keeps
    BY <1>a, <2>1, <2>6, PostedOther DEF Keeps
  <2> QED
    BY <1>b, <2>1, <2>7 DEF Passes
<1> QED
  BY <1>1, <1>2, <1>3, <1>4, <1>5, <1>6, <1>7 DEF OwnerStep


\* A worker's step or its death has nothing to do with the collections.
LEMMA WorkerApart ==
    ASSUME NEW w \in Worker, WorkerStep(w) \/ Die(w)
    PROVE  UNCHANGED <<queueVars, ownerVars, events, mergeVars>>
BY DEF WorkerStep, ReadInput, Collect, ReadRun, Uncollected, Scopes, Body, Teardown,
   BatchEnd, Leave, ReadShutdown, FinalTeardown, SayBye, Exit, ProcessOnly, Die

LEMMA OwnerMerge == ASSUME NEW w \in Worker, OwnerStep(w) PROVE UNCHANGED mergeVars
BY DEF OwnerStep, StartForked, StartSpawned, CollectFrame, CollectEof, NextBatch, NoMoreBatches,
   SendRun, ReadReport, ReadDone, ReadInterrupted, WaitStop, ReadEof, Book, Tell, Absorb,
   DrainReport, DrainBye, DrainEof, Reap, mergeVars

LEMMA AwaitedOwner ==
    ASSUME Types, Awaited, NEW w \in Worker, OwnerStep(w)
    PROVE  Awaited'
<1>1. \A v \in Worker : v # w => pc'[v] = pc[v]
  BY OwnSlot
<1>2. merge' = merge
  BY OwnerMerge DEF mergeVars
<1>3. events \in Seq(Events)
  BY DEF Types
<1>4. IsFiniteSet(Coming) /\ Cardinality(Coming) \in Nat
  BY <1>3, FiniteComing
<1>5. IsFiniteSet(Waiting) /\ Cardinality(Waiting) \in Nat
  <2>1. IsFiniteSet(Worker) /\ Waiting \in SUBSET Worker
    BY NumWorkersAssumption, FS_Interval DEF Worker, Waiting
  <2> QED
    BY <2>1, FS_Subset, FS_CardinalityType
<1>6. CASE Begins(w) \/ Passes(w)
  <2>1. Waiting' = Waiting
    BY <1>1, <1>6 DEF Begins, Passes, Before, Waiting
  <2>2. Coming' = Coming
    BY <1>6 DEF Begins, Passes, Keeps
  <2> QED
    BY <1>2, <2>1, <2>2 DEF Awaited, Taken
<1>7. CASE Collects(w) \/ Empties(w)
  <2>1. Waiting' = Waiting \ {w} /\ w \in Waiting
    BY <1>1, <1>7 DEF Collects, Empties, Before, Waiting
  <2>2. Cardinality(Coming') = Cardinality(Coming) + 1
    <3>1. PICK e : e \in Collections /\ Post(<<e>>)
      <4>1. Collection(<< >>) \in Collections
        BY Built
      <4> QED
        BY <1>7, <4>1 DEF Collects, Empties
    <3>2. e \in Events /\ e.kind = "collection"
      BY <3>1 DEF Events, Collections
    <3> QED
      BY <1>3, <3>1, <3>2, PostedCollection
  <2>3. Cardinality(Waiting \ {w}) = Cardinality(Waiting) - 1
    BY <1>5, <2>1, FS_RemoveElement
  <2>4. PICK a, b, c, d : /\ a = Cardinality(Waiting) /\ b = Cardinality(Coming)
                          /\ c = Cardinality(Waiting') /\ d = Cardinality(Coming')
    OBVIOUS
  <2>5. a \in Nat /\ b \in Nat /\ c = a - 1 /\ d = b + 1
    BY <1>4, <1>5, <2>1, <2>2, <2>3, <2>4, Zenon
  <2>6. merge.pending = a + b + Taken /\ Taken' = Taken /\ Taken \in Nat
    BY <1>2, <2>4 DEF Awaited, Taken
  <2>7. merge.pending = c + d + Taken
    BY <2>5, <2>6
  <2>8. merge'.pending = Cardinality(Waiting') + Cardinality(Coming') + Taken'
    BY <1>2, <2>4, <2>6, <2>7, Zenon
  <2> QED
    BY <1>2, <2>8 DEF Awaited
<1> QED
  BY <1>6, <1>7, OwnerPosts

LEMMA AwaitedMerge ==
    ASSUME Types, Awaited, MergeStep
    PROVE  Awaited'
<1>1. Waiting' = Waiting
  BY DEF MergeStep, MergeFirst, MergeSame, MergeDifferent, MergeCount, MergeReport,
         MergeInterrupted, MergeBanner, MergeEnd, MergeOnly, Waiting, ownerVars
<1>2. events \in Seq(Events) /\ merge.pending \in 0 .. NumWorkers
      /\ merge \in [at : {"recv", "count"}, pending : 0 .. NumWorkers, got : BOOLEAN,
                    first : CollectChoices \cup {<< >>}, failed : Nat, hit : BOOLEAN,
                    override : Int \cup {None}, banner : BOOLEAN]
  BY DEF Types, MergeTypes
<1>3. Cardinality(Coming) \in Nat /\ Cardinality(Waiting) \in Nat
  <2>1. IsFiniteSet(Worker) /\ Waiting \in SUBSET Worker
    BY NumWorkersAssumption, FS_Interval DEF Worker, Waiting
  <2> QED
    BY <1>2, <2>1, FS_Subset, FS_CardinalityType, FiniteComing
<1>4. CASE MergeFirst \/ MergeSame \/ MergeDifferent
  <2>1. /\ merge.at = "recv" /\ events # << >> /\ Head(events).kind = "collection" /\ Received
        /\ merge'.at = "count" /\ merge'.pending = merge.pending /\ merge'.got = TRUE
    BY <1>2, <1>4 DEF MergeFirst, MergeSame, MergeDifferent, Event, Counting
  <2>2. Cardinality(Coming) = Cardinality(Coming') + 1 /\ Cardinality(Coming') \in Nat
    BY <1>2, <2>1, ReceivedComing
  <2>3. PICK a, b, d : a = Cardinality(Waiting) /\ b = Cardinality(Coming) /\ d = Cardinality(Coming')
    OBVIOUS
  <2>4. a \in Nat /\ b = d + 1 /\ d \in Nat
    BY <1>3, <2>2, <2>3, Zenon
  <2>5. merge.pending = a + b + 0
    <3>1. Taken = 0
      BY <2>1 DEF Taken
    <3> QED
      BY <2>3, <3>1, Zenon DEF Awaited
  <2>6. merge'.pending = a + d + 1
    BY <2>1, <2>4, <2>5
  <2>7. Taken' = 1
    BY <2>1 DEF Taken
  <2>8. merge'.pending = Cardinality(Waiting') + Cardinality(Coming') + Taken'
    BY <1>1, <2>3, <2>6, <2>7, Zenon
  <2> QED
    BY <2>1, <2>8 DEF Awaited
<1>5. CASE MergeCount
  <2>1. /\ merge.at = "count" /\ merge'.at = "recv" /\ merge'.got = merge.got
        /\ merge'.pending = Larger(merge.pending - 1, 0) /\ Coming' = Coming
    BY <1>2, <1>5 DEF MergeCount, Coming
  <2>2. merge.pending \in Nat \ {0} /\ merge.pending = Cardinality(Waiting) + Cardinality(Coming) + 1
    BY <2>1, CountedBefore
  <2>3. PICK a, b : a = Cardinality(Waiting) /\ b = Cardinality(Coming)
    OBVIOUS
  <2>4. a \in Nat /\ b \in Nat /\ merge.pending = a + b + 1
    BY <1>3, <2>2, <2>3, Zenon
  <2>5. merge'.pending = a + b + 0
    BY <2>1, <2>2, <2>4 DEF Larger
  <2>6. Taken' = 0
    BY <2>1 DEF Taken
  <2>7. merge'.pending = Cardinality(Waiting') + Cardinality(Coming') + Taken'
    BY <1>1, <2>1, <2>3, <2>5, <2>6, Zenon
  <2>8. merge'.got
    BY <2>1 DEF Awaited
  <2> QED
    BY <2>7, <2>8 DEF Awaited
<1>6. CASE MergeReport \/ MergeInterrupted \/ MergeBanner
  <2>1. /\ merge.at = "recv" /\ events # << >> /\ Head(events).kind # "collection" /\ Received
        /\ merge'.at = merge.at /\ merge'.pending = merge.pending /\ merge'.got = merge.got
    BY <1>2, <1>6 DEF MergeReport, MergeInterrupted, MergeBanner, Event
  <2>2. Cardinality(Coming) = Cardinality(Coming') + 0 /\ Cardinality(Coming') \in Nat
    BY <1>2, <2>1, ReceivedComing
  <2>3. PICK b, d : b = Cardinality(Coming) /\ d = Cardinality(Coming')
    OBVIOUS
  <2>4. b = d
    <3>1. b = d + 0 /\ d \in Nat
      BY <2>2, <2>3, Zenon
    <3> QED
      BY <3>1
  <2>5. Cardinality(Coming') = Cardinality(Coming)
    BY <2>3, <2>4, Zenon
  <2> QED
    BY <1>1, <2>1, <2>5 DEF Awaited, Taken
<1>7. CASE MergeEnd
  BY <1>1, <1>7 DEF MergeEnd, Awaited, Taken, Coming
<1> QED
  BY <1>4, <1>5, <1>6, <1>7 DEF MergeStep

LEMMA NextAwaited ==
    ASSUME Types, Awaited, [Next]_vars
    PROVE  Awaited'
<1>1. CASE UNCHANGED <<queueVars, ownerVars, events, mergeVars>>
  BY <1>1 DEF Awaited, Waiting, Coming, Taken, ownerVars, mergeVars
<1>2. UNCHANGED vars => UNCHANGED <<queueVars, ownerVars, events, mergeVars>>
  BY DEF vars
<1> QED
  BY <1>1, <1>2, WorkerApart, AwaitedOwner, AwaitedMerge DEF Next, Terminated


-----------------------------------------------------------------------------
(* Before the push.                                                        *)

\* The batches are pushed with the last collection, and stay pushed.
LEMMA PushedStays ==
    ASSUME Types, Awaited, Pushed, [Next]_vars
    PROVE  Pushed'
<1>1. ASSUME merge'.pending = merge.pending PROVE Pushed'
  BY <1>1 DEF Pushed
<1>2. CASE UNCHANGED <<queueVars, ownerVars, events, mergeVars>>
  BY <1>1, <1>2 DEF mergeVars
<1>3. UNCHANGED vars => UNCHANGED <<queueVars, ownerVars, events, mergeVars>>
  BY DEF vars
<1>4. CASE MergeStep /\ ~MergeCount
  <2>1. merge'.pending = merge.pending
    BY <1>4 DEF Types, MergeTypes, MergeStep, MergeFirst, MergeSame, MergeDifferent, Counting,
       MergeReport, MergeInterrupted, MergeBanner, MergeEnd
  <2> QED
    BY <1>1, <2>1
<1>5. CASE MergeCount
  BY <1>5, CountedBefore DEF MergeCount
<1>6. ASSUME NEW w \in Worker, OwnerStep(w) PROVE Pushed'
  BY <1>1, <1>6, OwnerMerge DEF mergeVars
<1> QED
  BY <1>2, <1>3, <1>4, <1>5, <1>6, WorkerApart DEF Next, Terminated

\* Nothing is given out before the push.
LEMMA VirginOwner ==
    ASSUME Types, Virgin, ~Pushed, NEW w \in Worker, Tally(w), Known(w), OwnerStep(w)
    PROVE  \A v \in Worker : queues'[v] = << >> /\ pc'[v] \notin Holding /\ proc'[v].last = << >>
<1>1. \A v \in Worker : queues[v] = << >> /\ pc[v] \notin Holding /\ proc[v].last = << >>
  BY DEF Virgin
<1>2. \A v \in Worker : v # w => pc'[v] = pc[v] /\ proc'[v] = proc[v]
  BY OwnSlot
<1>3. /\ pc \in [Worker -> PcState] /\ proc \in [Worker -> Processes] /\ queues \in [Worker -> Seq(Batch)]
  BY DEF Types, OwnerTypes, ProcessTypes, QueueTypes, QueueTypeOK
<1>4. \A l : Goto(w, l) => pc'[w] = l
  BY <1>3 DEF Goto
<1>5. pc'[w] \notin Holding /\ proc'[w].last = << >>
  <2>1. ~NextBatch(w) /\ ~SendRun(w) /\ ~ReadReport(w) /\ ~ReadDone(w) /\ ~ReadInterrupted(w)
        /\ ~WaitStop(w) /\ ~ReadEof(w)
    BY <1>1 DEF NextBatch, TakeBatch, SendRun, ReadReport, ReadDone, ReadInterrupted, WaitStop, ReadEof, Holding
  <2>2. \A st : Process(st).last = << >>
    BY DEF Process
  <2>3. CASE StartForked(w) \/ StartSpawned(w) \/ Tell(w)
    BY <1>1, <1>3, <1>4, <2>2, <2>3 DEF StartForked, StartSpawned, Tell, Become, procVars, Holding
  <2>4. CASE CollectFrame(w) \/ CollectEof(w) \/ NoMoreBatches(w) \/ Book(w) \/ Absorb(w) \/ DrainReport(w)
             \/ DrainBye(w) \/ DrainEof(w) \/ Reap(w)
    BY <1>1, <1>4, <2>4 DEF CollectFrame, CollectEof, NoMoreBatches, Book, Absorb, DrainReport,
       DrainBye, DrainEof, Reap, procVars, ownerVars, Holding
  <2> QED
    BY <2>1, <2>3, <2>4 DEF OwnerStep
<1>6. queues' = queues \/ \A v \in Worker : queues'[v] = << >>
  <2>1. CASE Book(w)
    <3>1. pc[w] \notin Holding
      BY <1>1
    <3>2. held[w] = << >>
      BY <3>1 DEF Tally, OwnerSays
    <3>3. Remainder(w) = << >>
      BY <3>2 DEF Remainder
    <3> QED
      BY <2>1, <3>3 DEF Book, CrashSilent, CrashReplace, CrashAbort, queueVars
  <2>2. CASE ~Book(w)
    <3>1. ~NextBatch(w)
      BY <1>1 DEF NextBatch, TakeBatch
    <3> QED
      BY <2>2, <3>1 DEF OwnerStep, StartForked, StartSpawned, CollectFrame, CollectEof, NoMoreBatches,
         NoBatch, SendRun, ReadReport, ReadDone, ReadInterrupted, WaitStop, ReadEof, Tell, Absorb,
         DrainReport, DrainBye, DrainEof, Reap, queueVars
  <2> QED
    BY <2>1, <2>2
<1> QED
  BY <1>1, <1>2, <1>5, <1>6

LEMMA VirginWorker ==
    ASSUME Types, Virgin, ~Pushed, NEW w \in Worker, Tally(w), WorkerStep(w) \/ Die(w)
    PROVE  \A v \in Worker : queues'[v] = << >> /\ pc'[v] \notin Holding /\ proc'[v].last = << >>
<1>1. \A v \in Worker : queues[v] = << >> /\ pc[v] \notin Holding /\ proc[v].last = << >>
  BY DEF Virgin
<1>2. \A v \in Worker : v # w => proc'[v] = proc[v]
  BY OwnSlot
<1>3. proc \in [Worker -> Processes]
  BY DEF Types, ProcessTypes
<1>4. proc[w].st \notin AtItem
  BY <1>1 DEF Tally, Working, Holding, Quiet
<1>5. \A st : Process(st).last = << >>
  BY DEF Process
<1>6. proc'[w].last = << >>
  <2>1. CASE Collect(w)
    <3>1. PICK x : Become(w, [Process("idle") EXCEPT !.items = x])
      BY <2>1 DEF Collect
    <3>2. proc'[w] = [Process("idle") EXCEPT !.items = x]
      BY <1>3, <3>1 DEF Become
    <3> QED
      BY <3>2 DEF Process
  <2>2. CASE ReadInput(w) \/ Exit(w) \/ Die(w)
    <3>1. \E st : Become(w, Process(st))
      BY <2>2 DEF ReadInput, Exit, Die
    <3>2. \E st : proc'[w] = Process(st)
      BY <1>3, <3>1 DEF Become
    <3> QED
      BY <1>5, <3>2
  <2>3. CASE ReadRun(w) \/ BatchEnd(w) \/ Leave(w) \/ ReadShutdown(w) \/ FinalTeardown(w) \/ SayBye(w)
    <3>1. proc[w] \in Processes /\ proc[w].last = << >>
      BY <1>1, <1>3
    <3>2. proc'[w].last = proc[w].last
      BY <1>3, <2>3, <3>1, ZenonT(60) DEF ReadRun, BatchEnd, Leave, ReadShutdown, FinalTeardown, SayBye, Processes, Become
    <3> QED
      BY <3>1, <3>2
  <2>4. ~Uncollected(w) /\ ~Scopes(w) /\ ~Body(w) /\ ~Teardown(w)
    BY <1>4 DEF AtItem, Uncollected, Scopes, Body, Teardown
  <2> QED
    BY <2>1, <2>2, <2>3, <2>4 DEF WorkerStep
<1>7. queues' = queues /\ pc' = pc
  BY WorkerApart DEF queueVars, ownerVars
<1> QED
  BY <1>1, <1>2, <1>6, <1>7

LEMMA NextVirgin ==
    ASSUME Types, Protocol, Ledger, [Next]_vars
    PROVE  Virgin'
<1> SUFFICES ASSUME ~Pushed'
             PROVE  \A v \in Worker : queues'[v] = << >> /\ pc'[v] \notin Holding /\ proc'[v].last = << >>
  BY DEF Virgin
<1>1. ~Pushed /\ Virgin /\ Awaited
  BY PushedStays DEF Ledger
<1>2. \A v \in Worker : queues[v] = << >> /\ pc[v] \notin Holding /\ proc[v].last = << >>
  BY <1>1 DEF Virgin
<1>3. CASE UNCHANGED vars \/ Terminated
  BY <1>2, <1>3 DEF Terminated, vars, queueVars, ownerVars, procVars
<1>4. ASSUME NEW w \in Worker, WorkerStep(w) \/ Die(w)
      PROVE  \A v \in Worker : queues'[v] = << >> /\ pc'[v] \notin Holding /\ proc'[v].last = << >>
  BY <1>1, <1>4, VirginWorker DEF Ledger
<1>5. ASSUME NEW w \in Worker, OwnerStep(w)
      PROVE  \A v \in Worker : queues'[v] = << >> /\ pc'[v] \notin Holding /\ proc'[v].last = << >>
  BY <1>1, <1>5, VirginOwner DEF Ledger, Protocol
<1>6. CASE MergeStep
  <2>1. pc' = pc /\ proc' = proc
    BY <1>6 DEF MergeStep, MergeFirst, MergeSame, MergeDifferent, MergeCount, MergeReport,
       MergeInterrupted, MergeBanner, MergeEnd, MergeOnly, ownerVars, procVars
  <2>2. UNCHANGED queueVars \/ Stop
    <3>1. CASE MergeCount
      <4>1. merge'.pending = Larger(merge.pending - 1, 0)
        BY <3>1 DEF MergeCount, Types, MergeTypes
      <4>2. Larger(merge.pending - 1, 0) # 0
        BY <4>1 DEF Pushed
      <4> QED
        BY <3>1, <4>2 DEF MergeCount
    <3>2. CASE ~MergeCount
      BY <1>6, <3>2 DEF MergeStep, MergeFirst, MergeSame, MergeDifferent, MergeReport,
         MergeInterrupted, MergeBanner, MergeEnd
    <3> QED
      BY <3>1, <3>2
  <2>3. \A v \in Worker : queues'[v] = << >>
    BY <1>2, <2>2 DEF Stop, queueVars
  <2> QED
    BY <1>2, <2>1, <2>3
<1> QED
  BY <1>3, <1>4, <1>5, <1>6 DEF Next


\* How a slot without a worker shows: it has not been told, or its empty
\* collection is on its way, or is the one the merge loop has kept.
NoneEmpty == \A w \in Worker : pc[w] \in {"start", "collect", "next"}
EmptyComing == \E i \in Coming : events[i].ids = << >>
EmptyFirst == merge.got /\ merge.first = << >>

LEMMA EmptyToldOwner ==
    ASSUME Types, Virgin, EmptyTold, ~Pushed, ~Refused, ~Refused', NEW w \in Worker, OwnerStep(w)
    PROVE  ~batchesReady' /\ (NoneEmpty' \/ EmptyComing' \/ EmptyFirst')
<1>1. ~batchesReady /\ (NoneEmpty \/ EmptyComing \/ EmptyFirst)
  BY DEF EmptyTold, NoneEmpty, EmptyComing, EmptyFirst
<1>2. ~batchesReady'
  <2>1. UNCHANGED batchesReady \/ CrashAbort
    BY DEF OwnerStep, StartForked, StartSpawned, CollectFrame, CollectEof, NextBatch, TakeBatch,
       NoMoreBatches, NoBatch, SendRun, ReadReport, ReadDone, ReadInterrupted, WaitStop, ReadEof, Book,
       CrashSilent, CrashReplace, Tell, Absorb, DrainReport, DrainBye, DrainEof, Reap, queueVars
  <2> QED
    BY <1>1, <2>1 DEF CrashAbort, Refused
<1>3. merge' = merge /\ events \in Seq(Events)
  BY OwnerMerge DEF mergeVars, Types
<1>4. EmptyFirst => EmptyFirst'
  BY <1>3 DEF EmptyFirst
<1>5. Coming \subseteq Coming' /\ \A i \in Coming : events'[i] = events[i]
  <2>1. CASE Begins(w) \/ Passes(w)
    BY <2>1 DEF Begins, Passes, Keeps
  <2>2. ASSUME NEW e \in Collections, Post(<<e>>)
        PROVE  Coming \subseteq Coming' /\ \A i \in Coming : events'[i] = events[i]
    <3>1. e \in Events /\ e.kind = "collection"
      BY DEF Events, Collections
    <3> QED
      BY <1>3, <2>2, <3>1, PostedCollection
  <2>3. Collection(<< >>) \in Collections
    BY Built
  <2> QED
    BY <2>1, <2>2, <2>3, OwnerPosts DEF Collects, Empties
<1>6. EmptyComing => EmptyComing'
  BY <1>5 DEF EmptyComing
<1>7. NoneEmpty => NoneEmpty' \/ EmptyComing'
  <2> SUFFICES ASSUME NoneEmpty PROVE NoneEmpty' \/ EmptyComing'
    OBVIOUS
  <2>1. \A v \in Worker : v # w => pc'[v] = pc[v]
    BY OwnSlot
  <2>2. CASE Begins(w) \/ Collects(w)
    BY <2>1, <2>2 DEF Begins, Collects, NoneEmpty
  <2>3. CASE Empties(w)
    <3>1. PICK e : e = Collection(<< >>)
      OBVIOUS
    <3>2. Post(<<e>>) /\ e \in Events /\ e.kind = "collection" /\ e.ids = << >>
      <4>1. e \in Collections /\ e.ids = << >>
        BY <3>1, Built DEF Collection
      <4> QED
        BY <2>3, <3>1, <4>1 DEF Empties, Events, Collections
    <3>3. \E i \in Coming' : events'[i] = e
      BY <1>3, <3>2, PostedCollection
    <3> QED
      BY <3>2, <3>3 DEF EmptyComing
  <2>4. ~Passes(w)
    <3>1. pc[w] \in {"start", "collect", "next"}
      BY DEF NoneEmpty
    <3>2. ASSUME pc[w] = "next" PROVE FALSE
      <4>1. queues[w] = << >> /\ ~Awake
        BY <1>1 DEF Virgin, Awake, Refused
      <4>2. ~NextBatch(w) /\ ~NoMoreBatches(w)
        BY <4>1 DEF NextBatch, TakeBatch, NoMoreBatches, NoBatch
      <4> QED
        BY <3>2, <4>2 DEF OwnerStep, StartForked, StartSpawned, CollectFrame, CollectEof, SendRun,
           ReadReport, ReadDone, ReadInterrupted, WaitStop, ReadEof, Book, Tell, Absorb, DrainReport,
           DrainBye, DrainEof, Reap
    <3> QED
      BY <3>1, <3>2 DEF Passes, Before
  <2> QED
    BY <2>2, <2>3, <2>4, OwnerPosts
<1> QED
  BY <1>1, <1>2, <1>4, <1>6, <1>7

LEMMA EmptyToldMerge ==
    ASSUME Types, Awaited, EmptyTold, ~Pushed, ~Pushed', ~Refused, ~Refused', MergeStep
    PROVE  ~batchesReady' /\ (NoneEmpty' \/ EmptyComing' \/ EmptyFirst')
<1>1. ~batchesReady /\ (NoneEmpty \/ EmptyComing \/ EmptyFirst)
  BY DEF EmptyTold, NoneEmpty, EmptyComing, EmptyFirst
<1>2. /\ merge \in [at : {"recv", "count"}, pending : 0 .. NumWorkers, got : BOOLEAN,
                    first : CollectChoices \cup {<< >>}, failed : Nat, hit : BOOLEAN,
                    override : Int \cup {None}, banner : BOOLEAN]
      /\ events \in Seq(Events)
  BY DEF Types, MergeTypes
<1>3. ~Stop
  BY DEF Stop, Refused
<1>4. UNCHANGED queueVars
  <2>1. CASE MergeCount
    <3>1. merge'.pending = Larger(merge.pending - 1, 0)
      BY <1>2, <2>1 DEF MergeCount
    <3>2. Larger(merge.pending - 1, 0) # 0
      BY <3>1 DEF Pushed
    <3> QED
      BY <2>1, <3>2 DEF MergeCount
  <2>2. CASE ~MergeCount
    BY <1>3, <2>2 DEF MergeStep, MergeFirst, MergeSame, MergeDifferent, MergeReport,
       MergeInterrupted, MergeBanner, MergeEnd
  <2> QED
    BY <2>1, <2>2
<1>5. ~batchesReady'
  BY <1>1, <1>4 DEF queueVars
<1>6. pc' = pc
  BY DEF MergeStep, MergeFirst, MergeSame, MergeDifferent, MergeCount, MergeReport,
     MergeInterrupted, MergeBanner, MergeEnd, MergeOnly, ownerVars
<1>7. NoneEmpty => NoneEmpty'
  BY <1>6 DEF NoneEmpty
<1>8. EmptyFirst => EmptyFirst'
  BY <1>2 DEF EmptyFirst, MergeStep, MergeFirst, MergeSame, MergeDifferent, Counting, MergeCount,
     MergeReport, MergeInterrupted, MergeBanner, MergeEnd
<1>9. EmptyComing => EmptyComing' \/ EmptyFirst'
  <2>1. CASE MergeCount \/ MergeEnd
    BY <2>1 DEF MergeCount, MergeEnd, EmptyComing, Coming
  <2>2. CASE MergeFirst \/ MergeSame \/ MergeReport \/ MergeInterrupted \/ MergeBanner
    <3>1. events # << >> /\ Received
      BY <2>2 DEF MergeFirst, MergeSame, MergeReport, MergeInterrupted, MergeBanner, Event
    <3>2. \A i \in Coming : \/ events[i] = Head(events) /\ Head(events).kind = "collection"
                            \/ i - 1 \in Coming' /\ events'[i - 1] = events[i]
      BY <1>2, <3>1, ReceivedComing
    <3>3. ASSUME Head(events).kind = "collection", Head(events).ids = << >> PROVE EmptyFirst'
      <4>1. MergeFirst \/ MergeSame
        BY <2>2, <3>3 DEF MergeReport, MergeInterrupted, MergeBanner, Event
      <4> QED
        BY <1>2, <3>3, <4>1 DEF MergeFirst, MergeSame, Counting, EmptyFirst
    <3> QED
      BY <3>2, <3>3 DEF EmptyComing
  <2>3. ~MergeDifferent
    BY <1>3 DEF MergeDifferent
  <2> QED
    BY <2>1, <2>2, <2>3 DEF MergeStep
<1> QED
  BY <1>1, <1>5, <1>7, <1>8, <1>9

LEMMA NextEmptyTold ==
    ASSUME Types, Ledger, [Next]_vars
    PROVE  EmptyTold'
<1> SUFFICES ASSUME ~Pushed', ~Refused'
             PROVE  ~batchesReady' /\ (NoneEmpty' \/ EmptyComing' \/ EmptyFirst')
  BY DEF EmptyTold, NoneEmpty, EmptyComing, EmptyFirst
<1>1. ~Pushed /\ ~Refused
  BY PushedStays, StopStays DEF Ledger, Refused, StopSeen
<1>2. CASE UNCHANGED <<queueVars, ownerVars, events, mergeVars>>
  BY <1>1, <1>2 DEF Ledger, EmptyTold, NoneEmpty, EmptyComing, EmptyFirst, Coming, queueVars, ownerVars, mergeVars
<1>3. UNCHANGED vars => UNCHANGED <<queueVars, ownerVars, events, mergeVars>>
  BY DEF vars
<1> QED
  BY <1>1, <1>2, <1>3, WorkerApart, EmptyToldOwner, EmptyToldMerge DEF Ledger, Next, Terminated

-----------------------------------------------------------------------------

LEMMA InitLedger == Init => Ledger
<1> SUFFICES ASSUME Init PROVE Ledger
  OBVIOUS
<1>1. /\ \A w \in Worker : /\ queues[w] = << >> /\ held[w] = << >> /\ out[w] = << >> /\ pc[w] = "start"
                           /\ verdict[w] = NoVerdict /\ proc[w].last = << >> /\ proc[w].st \in {"input", "gone"}
      /\ ~batchesReady /\ events = << >> /\ merge.pending = NumWorkers /\ merge.at = "recv"
  BY DEF Init, QueueInit, Process
<1>2. \A w \in Worker : Tally(w)
  <2> TAKE w \in Worker
  <2>1. Distinct(PendingOf(held[w], queues[w]))
    <3>1. Distinct(PendingOf(<< >>, << >>))
      BY DEF Distinct, PendingOf
    <3> QED
      BY <1>1, <3>1
  <2>2. OwnerSays(w) /\ NoBlame(w) /\ LastGone(w) /\ Quiet(w) /\ pc[w] \notin Working
    BY <1>1 DEF OwnerSays, NoBlame, LastGone, Quiet, Working, AtItem
  <2> QED
    BY <2>1, <2>2 DEF Tally
<1>3. Awaited
  <2>1. Coming = {} /\ Waiting = Worker /\ Taken = 0
    BY <1>1 DEF Coming, Waiting, Taken
  <2>2. Cardinality(Worker) = NumWorkers /\ Cardinality({}) = 0
    <3>1. Cardinality(0 .. NumWorkers - 1) = NumWorkers
      <4>1. NumWorkers - 1 \in Int /\ 0 \in Int /\ (NumWorkers - 1) - 0 + 1 = NumWorkers /\ 0 <= NumWorkers - 1
        BY NumWorkersAssumption
      <4> QED
        BY <4>1, FS_Interval
    <3> QED
      BY <3>1, FS_EmptySet DEF Worker
  <2>3. PICK a, b : a = Cardinality(Waiting) /\ b = Cardinality(Coming)
    OBVIOUS
  <2>4. a = NumWorkers /\ b = 0
    BY <2>1, <2>2, <2>3, Zenon
  <2>5. merge.pending = a + b + Taken
    BY <1>1, <2>1, <2>4, NumWorkersAssumption
  <2>6. merge.pending = Cardinality(Waiting) + Cardinality(Coming) + Taken
    BY <2>3, <2>5, Zenon
  <2> QED
    BY <1>1, <2>6, NumWorkersAssumption DEF Awaited
<1>4. Virgin /\ EmptyTold
  BY <1>1 DEF Virgin, EmptyTold, Holding
<1> QED
  BY <1>2, <1>3, <1>4 DEF Ledger

LEMMA NextLedger == Types /\ Protocol /\ Ledger /\ [Next]_vars => Ledger'
<1> SUFFICES ASSUME Types, Protocol, Ledger, [Next]_vars PROVE Ledger'
  OBVIOUS
<1>1. \A w \in Worker : Tally(w)'
  BY NextTally
<1>2. Awaited' /\ Virgin' /\ EmptyTold'
  BY NextAwaited, NextVirgin, NextEmptyTold DEF Ledger
<1> QED
  BY <1>1, <1>2 DEF Ledger


LEMMA Accounts == Spec => []Ledger
<1>1. Init => Ledger
  BY InitLedger
<1>2. Types /\ Protocol /\ Ledger /\ [Next]_vars => Ledger'
  BY NextLedger
<1> QED
  BY <1>1, <1>2, Typed, Followed, PTL DEF Spec

-----------------------------------------------------------------------------
(* The state of the run as Scheduler sees it.                              *)

SlotMap == [w \in Worker |-> SlotOf(w)]
PlanMap == IF Pushed THEN Plan[merge.first] ELSE << >>
Seen == <<queueVars, SlotMap, held, Pushed, PlanMap, Settled("teardown"), CrashFailed>>

\* What Scheduler assumes of the plans.
LEMMA PlansApart == \A plan \in AllPlans : plan \in Seq(Batch) /\ Distinct(plan)
<1> SUFFICES ASSUME NEW ids, ids \in CollectChoices \cup {<< >>}
             PROVE  Plan[ids] \in Seq(Batch) /\ Distinct(Plan[ids])
  BY DEF AllPlans, Plan
<1> QED
  BY PlanType, PlanApart

LEMMA SameSeen == UNCHANGED Seen <=> UNCHANGED S!vars
BY DEF Seen, S!vars, S!queueVars, S!clientVars, queueVars, SlotMap, PlanMap

LEMMA SameQueueSteps ==
    /\ S!Worker = Worker
    /\ S!Stop <=> Stop
    /\ \A w \in Worker : (S!TakeBatch(w) <=> TakeBatch(w)) /\ (S!NoBatch(w) <=> NoBatch(w))
    /\ S!CrashSilent <=> CrashSilent
    /\ S!CrashAbort <=> CrashAbort
    /\ \A w \in Worker : \A r : S!CrashReplace(w, r) <=> CrashReplace(w, r)
    /\ \A p : S!PushBatches(p) <=> PushBatches(p)
<1>1. S!Worker = Worker
  BY DEF S!Worker, Worker
<1> QED
  BY <1>1 DEF S!Stop, Stop, S!TakeBatch, TakeBatch, S!NoBatch, NoBatch, S!Awake, Awake, S!Refused, Refused,
     S!CrashSilent, CrashSilent, S!CrashAbort, CrashAbort, S!CrashReplace, CrashReplace,
     S!PushBatches, PushBatches, S!Share, Share, S!queueVars, queueVars

LEMMA InitImplements == Init => S!Init
<1> SUFFICES ASSUME Init PROVE S!Init
  OBVIOUS
<1>1. S!Worker = Worker /\ S!QueueInit
  BY DEF S!Worker, Worker, S!QueueInit, QueueInit, Init
<1>2. \A w \in Worker : SlotOf(w) = "collect" /\ Blamed(w) = {}
  BY DEF Init, SlotOf, Blamed, NoVerdict
<1>3. ~Pushed
  BY NumWorkersAssumption DEF Init, Pushed
<1>4. \A p : Settled(p) = {}
  BY DEF Init, Settled, EmptyBag, SetToBag, BagToSet
<1>5. CrashFailed = {}
  BY <1>2, <1>4 DEF CrashFailed
<1> QED
  BY <1>1, <1>2, <1>3, <1>4, <1>5 DEF S!Init, Init

\* What is sent on is settled from then on.
LEMMA SettledKept ==
    ASSUME UNCHANGED <<events, reports>>, NEW p
    PROVE  Settled(p)' = Settled(p)
BY DEF Settled, IsReport

LEMMA SettledPosted ==
    ASSUME events \in Seq(Events), UNCHANGED reports, NEW es, es \in Seq(Events), Post(es), NEW p
    PROVE  Settled(p)' = Settled(p) \cup {t \in Test : \E i \in DOMAIN es : IsReport(es[i], t, p)}
<1>1. events' = events \o es
  BY DEF Post
<1>2. \A i \in DOMAIN events' :
        \/ i \in DOMAIN events /\ events'[i] = events[i]
        \/ i - Len(events) \in DOMAIN es /\ events'[i] = es[i - Len(events)]
  BY <1>1, InConcat
<1>3. /\ \A i \in DOMAIN events : i \in DOMAIN events' /\ events'[i] = events[i]
      /\ \A i \in DOMAIN es : i + Len(events) \in DOMAIN events' /\ events'[i + Len(events)] = es[i]
  BY <1>1
<1>4. \A t : (\E i \in DOMAIN events' : IsReport(events'[i], t, p))
               <=> (\E i \in DOMAIN events : IsReport(events[i], t, p)) \/ (\E i \in DOMAIN es : IsReport(es[i], t, p))
  BY <1>2, <1>3
<1> QED
  BY <1>4 DEF Settled, IsReport

LEMMA SettledReceived ==
    ASSUME events \in Seq(Events), events # << >>, Received, IsABag(reports), NEW p,
           \/ Head(events).kind = "report" /\ reports' = reports (+) SetToBag({Head(events)})
           \/ Head(events).kind # "report" /\ UNCHANGED reports
    PROVE  Settled(p)' = Settled(p)
<1> DEFINE e == Head(events)
<1>1. /\ events' = Tail(events) /\ Len(events) \in Nat \ {0} /\ DOMAIN events = 1 .. Len(events)
      /\ DOMAIN events' = 1 .. Len(events) - 1 /\ e = events[1]
      /\ \A i \in 1 .. Len(events) - 1 : events'[i] = events[i + 1]
  BY DEF Received
<1>2. \A i \in DOMAIN events : events[i] = e \/ (i - 1 \in DOMAIN events' /\ events'[i - 1] = events[i])
  <2> TAKE i \in DOMAIN events
  <2>1. i = 1 \/ (i - 1 \in 1 .. Len(events) - 1 /\ (i - 1) + 1 = i)
    BY <1>1
  <2> QED
    BY <1>1, <2>1
<1>3. 1 \in DOMAIN events /\ \A i \in DOMAIN events' : i + 1 \in DOMAIN events /\ events[i + 1] = events'[i]
  BY <1>1
<1>4. BagToSet(reports') = BagToSet(reports) \cup (IF e.kind = "report" THEN {e} ELSE {})
  BY DEF BagToSet, (+), SetToBag
<1> HIDE DEF e
<1>5. ASSUME NEW t
      PROVE  (\E r \in BagToSet(reports') : IsReport(r, t, p)) \/ (\E i \in DOMAIN events' : IsReport(events'[i], t, p))
             <=> (\E r \in BagToSet(reports) : IsReport(r, t, p)) \/ (\E i \in DOMAIN events : IsReport(events[i], t, p))
  <2>1. IsReport(e, t, p) => e.kind = "report"
    BY DEF IsReport
  <2>2. e = events[1]
    BY <1>1
  <2> QED
    BY <1>2, <1>3, <1>4, <2>1, <2>2
<1> QED
  BY <1>5 DEF Settled, IsReport

\* A slot whose owner does nothing looks the same.
LEMMA OtherSlots ==
    ASSUME Types, NEW w \in Worker, \A v \in Worker : v # w => pc'[v] = pc[v] /\ verdict'[v] = verdict[v]
    PROVE  /\ SlotMap' = [SlotMap EXCEPT ![w] = SlotOf(w)']
           /\ \A v \in Worker : v # w => Blamed(v)' = Blamed(v)
           /\ SlotMap[w] = SlotOf(w)
<1>1. \A v \in Worker : v # w => SlotOf(v)' = SlotOf(v) /\ Blamed(v)' = Blamed(v)
  BY ZenonT(60) DEF SlotOf, Blamed
<1> QED
  BY <1>1 DEF SlotMap

\* And an owner's step as Scheduler sees it.
LEMMA OwnerSeen ==
    ASSUME Types, NEW w \in Worker, OwnerStep(w)
    PROVE  /\ SlotMap' = [SlotMap EXCEPT ![w] = SlotOf(w)'] /\ SlotMap[w] = SlotOf(w)
           /\ \A v \in Worker : v # w => Blamed(v)' = Blamed(v)
           /\ Pushed' = Pushed /\ PlanMap' = PlanMap /\ UNCHANGED reports
<1>1. \A v \in Worker : v # w => pc'[v] = pc[v] /\ verdict'[v] = verdict[v]
  BY OwnSlot, OtherQueue
<1>2. UNCHANGED <<merge, reports>>
  BY OwnerMerge DEF mergeVars
<1> QED
  BY <1>1, <1>2, OtherSlots DEF Pushed, PlanMap

\* A step that posts no verdict on a test.
Neutral == /\ Settled("teardown")' = Settled("teardown")
           /\ Settled("crash")' = Settled("crash")

LEMMA NeutralKept == UNCHANGED <<events, reports>> => Neutral
BY SettledKept DEF Neutral

LEMMA NeutralPosted ==
    ASSUME events \in Seq(Events), UNCHANGED reports, NEW e, e \in Events, Post(<<e>>),
           e.kind = "report" => e.phase \notin {"teardown", "crash"}
    PROVE  Neutral
<1>1. <<e>> \in Seq(Events) /\ \A i \in DOMAIN <<e>> : <<e>>[i] = e
  OBVIOUS
<1>2. \A p : Settled(p)' = Settled(p) \cup {t \in Test : \E i \in DOMAIN <<e>> : IsReport(<<e>>[i], t, p)}
  BY <1>1, SettledPosted
<1>3. \A t : ~IsReport(e, t, "teardown") /\ ~IsReport(e, t, "crash")
  BY DEF IsReport
<1> QED
  BY <1>1, <1>2, <1>3 DEF Neutral

\* If the owner has blamed nobody new, nobody is crashed anew.
LEMMA BlameKept ==
    ASSUME NEW w \in Worker, \A v \in Worker : v # w => Blamed(v)' = Blamed(v), Blamed(w)' = Blamed(w), Neutral
    PROVE  CrashFailed' = CrashFailed
<1>1. UNION {Blamed(v)' : v \in Worker} = UNION {Blamed(v) : v \in Worker}
  OBVIOUS
<1> QED
  BY <1>1 DEF CrashFailed, Neutral

Sees(w) == S!Slot(w) \/ UNCHANGED Seen

LEMMA Moved ==
    ASSUME Types, NEW w \in Worker, OwnerStep(w), NEW a, NEW b, SlotOf(w) = a, SlotOf(w)' = b
    PROVE  S!Move(w, a, b) /\ (a = b => SlotMap' = SlotMap)
<1>1. SlotMap' = [SlotMap EXCEPT ![w] = b] /\ SlotMap[w] = a
  BY OwnerSeen
<1>2. a = b => SlotMap' = SlotMap
  BY <1>1 DEF SlotMap
<1> QED
  BY <1>1, <1>2 DEF S!Move, SlotMap

\* The owner goes on, and nothing else changes that Scheduler sees.
Rests(w) == UNCHANGED <<queueVars, held>> /\ Neutral /\ Blamed(w)' = Blamed(w)

LEMMA GoesOnAlone ==
    ASSUME Types, NEW w \in Worker, OwnerStep(w), Rests(w)
    PROVE  /\ UNCHANGED <<queueVars, held, Pushed, PlanMap, Settled("teardown"), CrashFailed>>
           /\ SlotOf(w)' = SlotOf(w) => Sees(w)
           /\ SlotOf(w) = "collect" /\ SlotOf(w)' \in {"ready", "ended", "doomed"} => Sees(w)
           /\ SlotOf(w) = "replace" /\ SlotOf(w)' \in {"ready", "lost"} => Sees(w)
           /\ SlotOf(w) = "drain" /\ SlotOf(w)' = "ended" => Sees(w)
<1>1. UNCHANGED <<Pushed, PlanMap>> /\ \A v \in Worker : v # w => Blamed(v)' = Blamed(v)
  BY OwnerSeen
<1>2. UNCHANGED <<queueVars, held, Pushed, PlanMap, Settled("teardown"), CrashFailed>>
  BY <1>1, BlameKept DEF Rests, Neutral
<1>3. SlotOf(w)' = SlotOf(w) => Sees(w)
  BY <1>2, Moved DEF Sees, Seen
<1>4. ASSUME NEW a, NEW b, S!Move(w, a, b),
             \/ a = "collect" /\ b \in {"ready", "ended", "doomed"}
             \/ a = "replace" /\ b \in {"ready", "lost"}
             \/ a = "drain" /\ b = "ended"
      PROVE  Sees(w)
  BY <1>2, <1>4 DEF Sees, S!Slot, S!Collected, S!Unavailable, S!CrashedCollecting, S!Arrive, S!LoseReplacement,
     S!Drained, S!queueVars, queueVars, PlanMap
<1> QED
  BY <1>2, <1>3, <1>4, Moved

LEMMA SlotOfPc ==
    ASSUME NEW w \in Worker
    PROVE  /\ pc[w] \in {"start", "collect"} => SlotOf(w) = "collect"
           /\ pc[w] = "doomed" => SlotOf(w) = "doomed"
           /\ pc[w] = "next" => SlotOf(w) = "ready"
           /\ pc[w] \in {"send", "read", "waitStop", "crashed"} => SlotOf(w) = "work"
           /\ pc[w] = "tell" => SlotOf(w) = IF verdict[w].action = "replace" /\ verdict[w].replace
                                            THEN "replace" ELSE "ended"
           /\ pc[w] = "absorb" => SlotOf(w) = "replace"
           /\ pc[w] \in {"drain", "dying", "reap"} => SlotOf(w) = "drain"
           /\ pc[w] = "lost" => SlotOf(w) = "lost"
           /\ pc[w] = "end" => SlotOf(w) = "ended"
BY DEF SlotOf

LEMMA SlotOfPcNext ==
    ASSUME NEW w \in Worker
    PROVE  /\ pc'[w] \in {"start", "collect"} => SlotOf(w)' = "collect"
           /\ pc'[w] = "doomed" => SlotOf(w)' = "doomed"
           /\ pc'[w] = "next" => SlotOf(w)' = "ready"
           /\ pc'[w] \in {"send", "read", "waitStop", "crashed"} => SlotOf(w)' = "work"
           /\ pc'[w] = "tell" => SlotOf(w)' = IF verdict'[w].action = "replace" /\ verdict'[w].replace
                                              THEN "replace" ELSE "ended"
           /\ pc'[w] = "absorb" => SlotOf(w)' = "replace"
           /\ pc'[w] \in {"drain", "dying", "reap"} => SlotOf(w)' = "drain"
           /\ pc'[w] = "lost" => SlotOf(w)' = "lost"
           /\ pc'[w] = "end" => SlotOf(w)' = "ended"
BY DEF SlotOf

\* The steps that only go on: those of the collection, and those that wait,
\* read what is no verdict or drain.
LEMMA OtherSteps ==
    ASSUME Types, NEW w \in Worker, Tally(w), OwnerStep(w),
           ~NextBatch(w), ~NoMoreBatches(w), ~ReadReport(w), ~ReadDone(w), ~Book(w), ~Tell(w)
    PROVE  Sees(w)
<1>a. /\ pc \in [Worker -> PcState] /\ events \in Seq(Events) /\ out \in [Worker -> Seq(Frames)]
  BY DEF Types, OwnerTypes, PipeTypes
<1>b. UNCHANGED reports
  BY OwnerMerge DEF mergeVars
<1>c. \A l : Goto(w, l) => pc'[w] = l
  BY <1>a DEF Goto
<1>d. UNCHANGED verdict => Blamed(w)' = Blamed(w)
  BY DEF Blamed
<1>e. ASSUME NEW f, f \in Events, Post(<<f>>), f.kind = "report" => f.phase \notin {"teardown", "crash"}
      PROVE  Neutral
  BY <1>a, <1>b, <1>e, NeutralPosted
<1>1. CASE StartForked(w) \/ StartSpawned(w) \/ CollectEof(w)
  <2>1. /\ UNCHANGED <<queueVars, held, verdict>> /\ pc[w] \in {"start", "collect"}
        /\ \/ UNCHANGED events /\ pc'[w] = "collect"
           \/ Post(<<Collection(<< >>)>>) /\ pc'[w] \in {"doomed", "end"}
    BY <1>1, <1>c DEF StartForked, StartSpawned, CollectEof
  <2>2. Collection(<< >>) \in Events /\ Collection(<< >>).kind = "collection"
    BY Built DEF Events, Collection
  <2>3. Rests(w)
    BY <1>b, <1>d, <1>e, <2>1, <2>2, NeutralKept DEF Rests
  <2> QED
    BY <2>1, <2>3, GoesOnAlone, SlotOfPc, SlotOfPcNext
<1>2. CASE CollectFrame(w) \/ ReadInterrupted(w) \/ DrainReport(w)
  <2>1. /\ UNCHANGED <<queueVars, held, verdict>> /\ Post(<<Head(out[w])>>) /\ out[w] # << >>
        /\ \/ pc[w] = "collect" /\ pc'[w] = "next" /\ Head(out[w]).kind = "collection"
           \/ pc[w] = "read" /\ pc'[w] = "waitStop" /\ Head(out[w]).kind = "interrupted"
           \/ pc[w] = "drain" /\ pc'[w] = "drain" /\ Head(out[w]).kind = "report"
    BY <1>2, <1>c DEF CollectFrame, ReadInterrupted, DrainReport, Frame, ownerVars
  <2>2. Head(out[w]) \in Events
    <3>1. Head(out[w]) \in Frames
      BY <1>a, <2>1
    <3> QED
      BY <2>1, <3>1, Kinds DEF Events
  <2>3. Head(out[w]).kind = "report" => Head(out[w]).phase \notin {"teardown", "crash"}
    <3>1. 1 \in DOMAIN out[w] /\ Head(out[w]) = out[w][1]
      BY <1>a, <2>1
    <3>2. pc[w] = "drain" => Quiet(w)
      BY DEF Tally, Working
    <3> QED
      BY <2>1, <3>1, <3>2 DEF Tally, NoBlame, Quiet, Torn
  <2>4. Rests(w)
    BY <1>d, <1>e, <2>1, <2>2, <2>3 DEF Rests
  <2> QED
    BY <2>1, <2>4, GoesOnAlone, SlotOfPc, SlotOfPcNext
<1>3. CASE SendRun(w) \/ WaitStop(w) \/ ReadEof(w) \/ Absorb(w) \/ DrainBye(w) \/ DrainEof(w) \/ Reap(w)
  <2>1. /\ UNCHANGED <<queueVars, held, verdict, events>>
        /\ \/ pc[w] \in {"send", "read", "waitStop"} /\ pc'[w] \in {"read", "crashed"}
           \/ pc[w] = "absorb" /\ pc'[w] \in {"next", "lost"}
           \/ pc[w] \in {"drain", "reap"} /\ pc'[w] \in {"dying", "reap", "end"}
    BY <1>3, <1>c DEF SendRun, WaitStop, ReadEof, Absorb, DrainBye, DrainEof, Reap
  <2>2. Rests(w)
    BY <1>b, <1>d, <2>1, NeutralKept DEF Rests
  <2> QED
    BY <2>1, <2>2, GoesOnAlone, SlotOfPc, SlotOfPcNext
<1> QED
  BY <1>1, <1>2, <1>3 DEF OwnerStep

LEMMA QueueAsked ==
    ASSUME Types, NEW w \in Worker, NextBatch(w) \/ NoMoreBatches(w), OwnerStep(w)
    PROVE  Sees(w)
<1>1. /\ UNCHANGED <<verdict, events>> /\ pc[w] = "next"
      /\ pc'[w] = IF NextBatch(w) THEN "send" ELSE "drain"
  BY GotoLabel DEF NextBatch, NoMoreBatches, Types
<1>2. Neutral /\ CrashFailed' = CrashFailed
  <2>1. UNCHANGED reports /\ Blamed(w)' = Blamed(w)
    BY <1>1, OwnerMerge DEF mergeVars, Blamed
  <2> QED
    BY <1>1, <2>1, NeutralKept, OwnerSeen, BlameKept
<1>3. UNCHANGED <<Pushed, PlanMap, Settled("teardown"), CrashFailed>>
  BY <1>2, OwnerSeen DEF Neutral
<1>4. CASE NextBatch(w)
  <2>1. S!Move(w, "ready", "work")
    BY <1>1, <1>4, Moved, SlotOfPc, SlotOfPcNext
  <2>2. S!TakeBatch(w) /\ held' = [held EXCEPT ![w] = Head(queues[w])]
    BY <1>4, SameQueueSteps DEF NextBatch
  <2>3. S!Take(w)
    BY <1>3, <2>1, <2>2 DEF S!Take, PlanMap
  <2> QED
    BY <2>3 DEF Sees, S!Slot
<1>5. CASE ~NextBatch(w)
  <2>1. S!Move(w, "ready", "drain")
    BY <1>1, <1>5, Moved, SlotOfPc, SlotOfPcNext
  <2>2. S!NoBatch(w) /\ held' = held
    BY <1>5, SameQueueSteps DEF NoMoreBatches
  <2>3. S!Refuse(w)
    BY <1>3, <2>1, <2>2 DEF S!Refuse, PlanMap
  <2> QED
    BY <2>3 DEF Sees, S!Slot
<1> QED
  BY <1>4, <1>5

\* A teardown report completes a test, another one nothing.
LEMMA ReportSeen ==
    ASSUME Types, NEW w \in Worker, Tally(w), ReadReport(w), OwnerStep(w)
    PROVE  Sees(w)
<1> DEFINE r == Head(out[w])
<1>1. /\ UNCHANGED <<queueVars, pc, verdict, reports>> /\ pc[w] = "read" /\ Post(<<r>>)
      /\ events \in Seq(Events) /\ held \in [Worker -> Batch]
      /\ r = out[w][1] /\ 1 \in DOMAIN out[w] /\ r.kind = "report"
  BY DEF ReadReport, Frame, mergeVars, Types, OwnerTypes, PipeTypes
<1>2. r \in Reports /\ r \in Events /\ r.phase # "crash"
  <2>1. r \in Frames
    BY <1>1 DEF Types, PipeTypes
  <2>2. r.phase # "crash"
    BY <1>1 DEF Tally, NoBlame
  <2> HIDE DEF r
  <2> QED
    BY <1>1, <2>1, <2>2, Kinds DEF Events
<1>3. /\ held'[w] = IF Torn(r) THEN Tail(held[w]) ELSE held[w]
      /\ Torn(r) => held[w] # << >> /\ r.test = Head(held[w])
  BY ReportStrikes
<1>4. \E x : held' = [held EXCEPT ![w] = x]
  <2>1. held = [held EXCEPT ![w] = held[w]]
    BY <1>1
  <2> QED
    BY <2>1 DEF ReadReport
<1>5. held' = [held EXCEPT ![w] = held'[w]]
  BY <1>1, <1>4
<1>6. Blamed(w)' = Blamed(w)
  BY <1>1 DEF Blamed
<1> HIDE DEF r
<1>7. CASE ~Torn(r)
  <2>1. held' = held
    BY <1>1, <1>3, <1>5, <1>7
  <2>2. Neutral
    BY <1>1, <1>2, <1>7, NeutralPosted DEF Torn
  <2>3. SlotOf(w)' = SlotOf(w)
    BY <1>1 DEF SlotOf
  <2>4. Rests(w)
    BY <1>1, <1>6, <2>1, <2>2 DEF Rests
  <2> QED
    BY <2>3, <2>4, GoesOnAlone
<1>8. CASE Torn(r)
  <2>1. <<r>> \in Seq(Events) /\ \A i \in DOMAIN <<r>> : <<r>>[i] = r /\ 1 \in DOMAIN <<r>>
    BY <1>2
  <2>2. \A p : Settled(p)' = Settled(p) \cup {t \in Test : IsReport(r, t, p)}
    <3>1. \A p : Settled(p)' = Settled(p) \cup {t \in Test : \E i \in DOMAIN <<r>> : IsReport(<<r>>[i], t, p)}
      BY <1>1, <2>1, SettledPosted
    <3>2. \A t, p : (\E i \in DOMAIN <<r>> : IsReport(<<r>>[i], t, p)) <=> IsReport(r, t, p)
      BY <2>1
    <3> QED
      BY <3>1, <3>2
  <2>3. r.test \in Test /\ r.phase = "teardown" /\ r.kind = "report"
    BY <1>2, <1>8 DEF Reports, Torn
  <2>4. Settled("teardown")' = Settled("teardown") \cup {r.test} /\ Settled("crash")' = Settled("crash")
    BY <2>2, <2>3 DEF IsReport
  <2>5. CrashFailed' = CrashFailed
    <3>1. \A v \in Worker : Blamed(v)' = Blamed(v)
      BY <1>6, OwnerSeen
    <3> QED
      BY <2>4, <3>1 DEF CrashFailed
  <2>6. held' = [held EXCEPT ![w] = Tail(held[w])] /\ held[w] # << >> /\ r.test = Head(held[w])
    BY <1>3, <1>5, <1>8
  <2>7. SlotMap' = SlotMap /\ SlotMap[w] = "work"
    <3>1. SlotOf(w) = "work" /\ SlotOf(w)' = "work"
      BY <1>1, SlotOfPc, SlotOfPcNext
    <3> QED
      BY <3>1, Moved, OwnerSeen
  <2>8. UNCHANGED <<Pushed, PlanMap>>
    BY OwnerSeen
  <2>9. S!Complete(w)
    BY <1>1, <2>4, <2>5, <2>6, <2>7, <2>8 DEF S!Complete, S!queueVars, queueVars, SlotMap, PlanMap
  <2> QED
    BY <2>9 DEF Sees, S!Slot
<1> QED
  BY <1>7, <1>8

\* "done" comes when nothing is left, or after a stop.
LEMMA DoneSeen ==
    ASSUME Types, NEW w \in Worker, Tally(w), ReadDone(w), OwnerStep(w)
    PROVE  Sees(w)
<1>1. /\ UNCHANGED <<queueVars, verdict, events, reports>> /\ pc[w] = "read" /\ pc'[w] = "next"
      /\ held' = [held EXCEPT ![w] = << >>]
      /\ out[w] # << >> /\ Head(out[w]).kind = "done" /\ out[w] \in Seq(Frames) /\ held[w] \in Seq(Test)
  BY GotoLabel, OwnerMerge DEF ReadDone, Frame, mergeVars, Types, OwnerTypes, PipeTypes, Batch
<1>2. held[w] = << >> \/ StopSeen
  <2> SUFFICES ASSUME ~StopSeen PROVE held[w] = << >>
    OBVIOUS
  <2>1. PICK n : Counts(n, out[w], held[w]) /\ Final(w, n)
    BY <1>1 DEF Tally, InWork, Working
  <2>2. 1 \in Said(w, "done") /\ \A j \in Said(w, "interrupted") : ~(j < 1)
    BY <1>1 DEF Said
  <2>3. n[1] = Len(held[w])
    BY <1>1, <2>1, <2>2 DEF Final
  <2>4. n[1] = 0
    <3>1. ~Torn(out[w][1]) /\ 1 \in 1 .. Len(out[w])
      BY <1>1 DEF Torn
    <3>2. n[0] = 0 /\ n[1] = n[1 - 1]
      BY <2>1, <3>1 DEF Counts
    <3> QED
      BY <3>2
  <2>5. Len(held[w]) = 0
    BY <2>3, <2>4
  <2> QED
    BY <1>1, <2>5
<1>3. Neutral /\ CrashFailed' = CrashFailed
  <2>1. Blamed(w)' = Blamed(w)
    BY <1>1 DEF Blamed
  <2> QED
    BY <1>1, <2>1, NeutralKept, OwnerSeen, BlameKept
<1>4. S!Move(w, "work", "ready")
  BY <1>1, Moved, SlotOfPc, SlotOfPcNext
<1>5. UNCHANGED <<Pushed, PlanMap, Settled("teardown"), CrashFailed>>
  BY <1>3, OwnerSeen DEF Neutral
<1>6. S!Finish(w)
  BY <1>1, <1>2, <1>4, <1>5 DEF S!Finish, S!Refused, StopSeen, S!queueVars, queueVars, PlanMap
<1> QED
  BY <1>6 DEF Sees, S!Slot

\* The running test of a crash, as the verdict and as Scheduler have it.
LEMMA BookSeen ==
    ASSUME Types, NEW w \in Worker, Tally(w), Book(w), OwnerStep(w)
    PROVE  Sees(w)
<1> DEFINE running == IF held[w] = << >> THEN << >> ELSE <<Head(held[w])>>
<1>1. /\ UNCHANGED <<events, reports>> /\ pc[w] \in {"doomed", "crashed", "dying"} /\ pc'[w] = "tell"
      /\ held' = [held EXCEPT ![w] = << >>] /\ held \in [Worker -> Batch] /\ verdict \in [Worker -> Verdicts]
  BY GotoLabel, OwnerMerge DEF Book, mergeVars, Types, OwnerTypes
<1>2. /\ pc[w] \in {"doomed", "dying"} => held[w] = << >>
      /\ Blamed(w) = {}
  BY <1>1 DEF Tally, OwnerSays, Holding, Blamed, NoVerdict
<1>3. PICK action : /\ verdict' = [verdict EXCEPT ![w] = [action |-> action, running |-> running,
                                                            replace |-> pc[w] = "crashed"]]
                    /\ \/ action = "silent" /\ CrashSilent
                       \/ action = "replace" /\ CrashReplace(w, Remainder(w))
                       \/ action = "abort" /\ CrashAbort
  BY DEF Book
<1>4. verdict'[w] = [action |-> action, running |-> running, replace |-> pc[w] = "crashed"]
  BY <1>1, <1>3
<1>5. Blamed(w)' = IF action = "silent" THEN {} ELSE S!Running(w)
  <2>1. {running[i] : i \in DOMAIN running} = S!Running(w)
    BY DEF S!Running
  <2>2. verdict'[w].action = action /\ verdict'[w].running = running
    BY <1>4
  <2> HIDE DEF running
  <2> QED
    BY <1>3, <2>1, <2>2 DEF Blamed
<1>6. Neutral
  BY <1>1, NeutralKept
<1>7. CrashFailed' = IF action = "silent" THEN CrashFailed ELSE CrashFailed \cup S!Running(w)
  <2>1. UNION {Blamed(v)' : v \in Worker} = (UNION {Blamed(v) : v \in Worker}) \cup Blamed(w)'
    BY <1>2, OwnerSeen
  <2> QED
    BY <1>5, <1>6, <2>1 DEF CrashFailed, Neutral
<1>8. UNCHANGED <<Pushed, PlanMap, Settled("teardown")>>
  BY <1>6, OwnerSeen DEF Neutral
<1>9. SlotOf(w)' = IF action = "replace" /\ pc[w] = "crashed" THEN "replace" ELSE "ended"
  <2>1. verdict'[w].action = action /\ verdict'[w].replace = (pc[w] = "crashed")
    BY <1>4
  <2> QED
    BY <1>1, <2>1, SlotOfPcNext
<1>10. Remainder(w) = S!Remainder(w)
  BY DEF Remainder, S!Remainder
<1>11. CASE pc[w] = "crashed"
  <2>1. S!Move(w, "work", IF action = "replace" THEN "replace" ELSE "ended")
    BY <1>9, <1>11, Moved, SlotOfPc
  <2>2. action = "silent" => S!CrashSilently(w)
    BY <1>1, <1>3, <1>7, <1>8, <2>1, SameQueueSteps DEF S!CrashSilently, PlanMap
  <2>3. action = "replace" => S!CrashAndReplace(w)
    BY <1>1, <1>3, <1>7, <1>8, <1>10, <2>1, SameQueueSteps DEF S!CrashAndReplace, PlanMap
  <2>4. action = "abort" => S!CrashAndAbort(w)
    BY <1>1, <1>3, <1>7, <1>8, <2>1, SameQueueSteps DEF S!CrashAndAbort, PlanMap
  <2> QED
    BY <1>3, <2>2, <2>3, <2>4 DEF Sees, S!Slot
<1>12. CASE pc[w] # "crashed"
  <2>1. held' = held /\ held[w] = << >>
    BY <1>1, <1>2, <1>12
  <2>2. CrashFailed' = CrashFailed
    BY <1>7, <2>1 DEF S!Running
  <2>3. Remainder(w) = << >>
    BY <2>1 DEF Remainder
  <2>4. SlotMap' = [SlotMap EXCEPT ![w] = "ended"] /\ SlotMap[w] \in {"doomed", "drain"}
    BY <1>1, <1>9, <1>12, OwnerSeen, SlotOfPc
  <2>5. S!CrashSilent \/ S!CrashReplace(w, << >>) \/ S!CrashAbort
    BY <1>3, <2>3, SameQueueSteps
  <2>6. S!CrashIdle(w)
    BY <1>8, <2>1, <2>2, <2>4, <2>5 DEF S!CrashIdle, SlotMap, PlanMap
  <2> QED
    BY <2>6 DEF Sees, S!Slot
<1> QED
  BY <1>11, <1>12

\* The report of a crash settles whom the verdict blames.
LEMMA TellSeen ==
    ASSUME Types, NEW w \in Worker, Tally(w), Tell(w), OwnerStep(w)
    PROVE  Sees(w)
<1> DEFINE v == verdict[w]
           f == Report(v.running[1], "crash", TRUE)
           failure == IF v.action # "silent" /\ v.running # << >> THEN <<f>> ELSE << >>
           banner == IF v.action = "abort" THEN <<Banner>> ELSE << >>
<1>1. /\ Post(failure \o banner) /\ pc[w] = "tell" /\ UNCHANGED <<queueVars, held, reports>>
      /\ verdict' = [verdict EXCEPT ![w] = NoVerdict]
      /\ \/ v.action = "replace" /\ v.replace /\ pc'[w] \in {"absorb", "lost"}
         \/ ~(v.action = "replace" /\ v.replace) /\ pc'[w] = "end"
  BY GotoLabel DEF Tell, mergeVars, Types
<1>2. /\ events \in Seq(Events) /\ v \in Verdicts /\ v.action # "none" /\ Len(v.running) <= 1
      /\ verdict'[w] = NoVerdict
  BY <1>1 DEF Types, OwnerTypes, Tally, OwnerSays
<1>3. /\ v.running \in Seq(Test) /\ v.action \in {"silent", "replace", "abort"}
      /\ v.running # << >> => DOMAIN v.running = {1} /\ v.running[1] \in Test
      /\ v.running = << >> => DOMAIN v.running = {}
  BY <1>2 DEF Verdicts, Batch
<1>4. v.running # << >> => f \in Events /\ f.kind = "report" /\ f.phase = "crash" /\ f.test = v.running[1]
  <2>1. v.running # << >> => f \in Reports
    BY <1>3, Built
  <2> QED
    BY <2>1 DEF Events, Report
<1>5. Banner \in Events /\ Banner.kind = "banner"
  BY DEF Events, Banner
<1>6. Blamed(w) = IF v.action # "silent" /\ v.running # << >> THEN {v.running[1]} ELSE {}
  BY <1>3 DEF Blamed
<1>7. Blamed(w)' = {}
  BY <1>2 DEF Blamed, NoVerdict
<1>8. /\ failure \in Seq(Events) /\ banner \in Seq(Events)
      /\ \A i \in DOMAIN failure : failure[i] = f /\ Blamed(w) = {f.test} /\ f.kind = "report" /\ f.phase = "crash"
      /\ failure = << >> => Blamed(w) = {}
      /\ failure # << >> => failure[1] = f /\ 1 \in DOMAIN failure
      /\ \A i \in DOMAIN banner : banner[i].kind = "banner"
  <2>1. failure = << >> \/ (failure = <<f>> /\ v.action # "silent" /\ v.running # << >>)
    OBVIOUS
  <2>2. failure = << >> => Blamed(w) = {}
    BY <1>6
  <2>3. v.action # "silent" /\ v.running # << >> => Blamed(w) = {f.test}
    BY <1>4, <1>6
  <2>4. banner \in Seq(Events) /\ \A i \in DOMAIN banner : banner[i].kind = "banner"
    BY <1>5
  <2> HIDE DEF failure, banner, v, f
  <2>5. CASE failure = << >>
    BY <2>2, <2>4, <2>5
  <2>6. CASE failure = <<f>> /\ v.action # "silent" /\ v.running # << >>
    <3>1. f \in Events /\ f.kind = "report" /\ f.phase = "crash" /\ Blamed(w) = {f.test}
      BY <1>4, <2>3, <2>6
    <3> QED
      BY <2>4, <2>6, <3>1
  <2> QED
    BY <2>1, <2>5, <2>6
<1> HIDE DEF failure, banner, f, v
<1>9. PICK es : es = failure \o banner
  OBVIOUS
<1>10. /\ es \in Seq(Events) /\ Post(es)
       /\ \A i \in DOMAIN es : es[i].kind = "banner" \/ (es[i] = f /\ Blamed(w) = {f.test} /\ f.phase = "crash")
       /\ failure # << >> => 1 \in DOMAIN es /\ es[1] = f
  <2>1. es \in Seq(Events) /\ Post(es)
    BY <1>1, <1>8, <1>9
  <2>2. \A i \in DOMAIN es : es[i].kind = "banner" \/ (es[i] = f /\ Blamed(w) = {f.test} /\ f.phase = "crash")
    <3> TAKE i \in DOMAIN es
    <3>1. \/ i \in DOMAIN failure /\ es[i] = failure[i]
          \/ i - Len(failure) \in DOMAIN banner /\ es[i] = banner[i - Len(failure)]
      BY <1>8, <1>9, InConcat
    <3> QED
      BY <1>8, <3>1
  <2>3. failure # << >> => 1 \in DOMAIN es /\ es[1] = f
    BY <1>8, <1>9
  <2> QED
    BY <2>1, <2>2, <2>3
<1>11. Settled("teardown")' = Settled("teardown") /\ Settled("crash")' = Settled("crash") \cup (Blamed(w) \cap Test)
  <2>1. \A p : Settled(p)' = Settled(p) \cup {t \in Test : \E i \in DOMAIN es : IsReport(es[i], t, p)}
    BY <1>1, <1>2, <1>10, SettledPosted
  <2>2. \A t : (\E i \in DOMAIN es : IsReport(es[i], t, "crash")) => t \in Blamed(w)
    BY <1>10 DEF IsReport
  <2>3. ASSUME NEW t, t \in Blamed(w) PROVE \E i \in DOMAIN es : IsReport(es[i], t, "crash")
    <3>1. failure # << >>
      BY <1>8, <2>3
    <3>2. 1 \in DOMAIN es /\ es[1] = f /\ t = f.test /\ f.kind = "report" /\ f.phase = "crash"
      BY <1>8, <1>10, <2>3, <3>1
    <3> QED
      BY <3>2 DEF IsReport
  <2>4. \A t : \A i \in DOMAIN es : ~IsReport(es[i], t, "teardown")
    BY <1>10 DEF IsReport
  <2> QED
    BY <2>1, <2>2, <2>3, <2>4
<1>12. CrashFailed' = CrashFailed
  <2>1. Blamed(w) \subseteq Test
    BY <1>3, <1>6
  <2>2. UNION {Blamed(u) : u \in Worker} = (UNION {Blamed(u)' : u \in Worker}) \cup Blamed(w)
    BY <1>7, OwnerSeen
  <2> QED
    BY <1>11, <2>1, <2>2 DEF CrashFailed
<1>13. UNCHANGED <<Pushed, PlanMap>>
  BY OwnerSeen
<1>14. SlotOf(w) = IF v.action = "replace" /\ v.replace THEN "replace" ELSE "ended"
  BY <1>1, SlotOfPc DEF v
<1>15. SlotOf(w)' = SlotOf(w) => Sees(w)
  BY <1>1, <1>11, <1>12, <1>13, Moved DEF Sees, Seen
<1>16. CASE SlotOf(w)' # SlotOf(w)
  <2>1. SlotOf(w) = "replace" /\ SlotOf(w)' = "lost"
    BY <1>1, <1>14, <1>16, SlotOfPcNext
  <2>2. S!LoseReplacement(w)
    BY <1>1, <1>11, <1>12, <1>13, <2>1, Moved DEF S!LoseReplacement, S!queueVars, queueVars, PlanMap
  <2> QED
    BY <2>2 DEF Sees, S!Slot
<1> QED
  BY <1>15, <1>16

LEMMA OwnerSees ==
    ASSUME Types, NEW w \in Worker, Tally(w), OwnerStep(w)
    PROVE  Sees(w)
BY QueueAsked, ReportSeen, DoneSeen, BookSeen, TellSeen, OtherSteps

\* A collection that is still on its way has not been counted.
LEMMA CollectionEarly ==
    ASSUME Types, Awaited, events # << >>, Head(events).kind = "collection"
    PROVE  ~Pushed
<1>1. IsFiniteSet(Coming) /\ Cardinality(Coming) \in Nat /\ Coming # {}
  <2>1. events \in Seq(Events)
    BY DEF Types
  <2>2. 1 \in Coming
    BY <2>1 DEF Coming
  <2> QED
    BY <2>1, <2>2, FiniteComing
<1>2. Cardinality(Waiting) \in Nat
  <2>1. IsFiniteSet(Worker) /\ Waiting \in SUBSET Worker
    BY NumWorkersAssumption, FS_Interval DEF Worker, Waiting
  <2> QED
    BY <2>1, FS_Subset, FS_CardinalityType
<1>3. PICK a, b : a = Cardinality(Waiting) /\ b = Cardinality(Coming)
  OBVIOUS
<1>4. a \in Nat /\ b \in Nat /\ b # 0
  <2>1. Cardinality(Coming) # 0
    BY <1>1, FS_EmptySet
  <2> QED
    BY <1>1, <1>2, <1>3, <2>1, Zenon
<1>5. merge.pending = a + b + Taken /\ Taken \in Nat
  BY <1>3 DEF Awaited, Taken
<1> QED
  BY <1>4, <1>5 DEF Pushed

\* The merge loop's steps but the push leave the owners and the push alone.
LEMMA MergeSees ==
    ASSUME Types, Ledger, MergeStep
    PROVE  S!StopDispatch \/ (\E p \in AllPlans : S!Push(p)) \/ UNCHANGED Seen
<1>1. UNCHANGED <<pc, held, verdict>>
  BY DEF MergeStep, MergeFirst, MergeSame, MergeDifferent, MergeCount, MergeReport,
         MergeInterrupted, MergeBanner, MergeEnd, MergeOnly, ownerVars
<1>2. UNCHANGED SlotMap /\ \A w \in Worker : Blamed(w)' = Blamed(w)
  BY <1>1 DEF SlotMap, SlotOf, Blamed
<1>3. /\ merge \in [at : {"recv", "count"}, pending : 0 .. NumWorkers, got : BOOLEAN,
                    first : CollectChoices \cup {<< >>}, failed : Nat, hit : BOOLEAN,
                    override : Int \cup {None}, banner : BOOLEAN]
      /\ events \in Seq(Events) /\ IsABag(reports)
  BY DEF Types, MergeTypes
<1>4. Neutral
  <2>1. CASE MergeCount \/ MergeEnd
    BY <2>1, NeutralKept DEF MergeCount, MergeEnd
  <2>2. CASE MergeFirst \/ MergeSame \/ MergeDifferent \/ MergeReport \/ MergeInterrupted \/ MergeBanner
    <3>1. /\ events # << >> /\ Received
          /\ \/ Head(events).kind = "report" /\ reports' = reports (+) SetToBag({Head(events)})
             \/ Head(events).kind # "report" /\ UNCHANGED reports
      BY <2>2 DEF MergeFirst, MergeSame, MergeDifferent, MergeReport, MergeInterrupted, MergeBanner, Event
    <3> QED
      BY <1>3, <3>1, SettledReceived DEF Neutral
  <2> QED
    BY <2>1, <2>2 DEF MergeStep
<1>5. CrashFailed' = CrashFailed
  BY <1>2, <1>4 DEF CrashFailed, Neutral
<1>6. ASSUME UNCHANGED <<Pushed, PlanMap>>, UNCHANGED queueVars \/ Stop
      PROVE  S!StopDispatch \/ UNCHANGED Seen
  <2>1. CASE UNCHANGED queueVars
    BY <1>1, <1>2, <1>4, <1>5, <1>6, <2>1 DEF Seen, Neutral
  <2>2. CASE Stop
    BY <1>1, <1>2, <1>4, <1>5, <1>6, <2>2, SameQueueSteps DEF S!StopDispatch, S!clientVars, SlotMap, PlanMap, Neutral
  <2> QED
    BY <1>6, <2>1, <2>2
<1>7. CASE MergeFirst \/ MergeSame \/ MergeDifferent
  <2>1. /\ merge.at = "recv" /\ events # << >> /\ Head(events).kind = "collection" /\ Received
        /\ merge'.pending = merge.pending
        /\ UNCHANGED queueVars \/ Stop
    BY <1>3, <1>7 DEF MergeFirst, MergeSame, MergeDifferent, Event, Counting
  <2>2. ~Pushed
    BY <2>1, CollectionEarly DEF Ledger
  <2>3. UNCHANGED <<Pushed, PlanMap>>
    BY <2>1, <2>2 DEF Pushed, PlanMap
  <2> QED
    BY <1>6, <2>1, <2>3
<1>8. CASE MergeReport \/ MergeInterrupted \/ MergeBanner \/ MergeEnd
  <2>1. merge'.pending = merge.pending /\ merge'.first = merge.first /\ (UNCHANGED queueVars \/ Stop)
    BY <1>3, <1>8 DEF MergeReport, MergeInterrupted, MergeBanner, MergeEnd
  <2>2. UNCHANGED <<Pushed, PlanMap>>
    BY <2>1 DEF Pushed, PlanMap
  <2> QED
    BY <1>6, <2>1, <2>2
<1>9. CASE MergeCount
  <2>1. /\ merge.at = "count" /\ merge'.first = merge.first
        /\ merge'.pending = Larger(merge.pending - 1, 0)
        /\ IF merge'.pending = 0 THEN PushBatches(Plan[merge.first]) ELSE UNCHANGED queueVars
        /\ UNCHANGED events
    BY <1>3, <1>9 DEF MergeCount
  <2>2. /\ merge.pending \in Nat \ {0} /\ ~Pushed
        /\ merge.pending = Cardinality(Waiting) + Cardinality(Coming) + 1
        /\ Cardinality(Waiting) \in Nat /\ Cardinality(Coming) \in Nat
        /\ IsFiniteSet(Waiting) /\ IsFiniteSet(Coming)
    BY <2>1, CountedBefore DEF Ledger
  <2>3. CASE merge'.pending # 0
    <3>1. UNCHANGED queueVars /\ UNCHANGED <<Pushed, PlanMap>>
      BY <2>1, <2>2, <2>3 DEF Pushed, PlanMap
    <3> QED
      BY <1>6, <3>1
  <2>4. CASE merge'.pending = 0
    <3> DEFINE p == Plan[merge.first]
    <3>1. Waiting = {} /\ Coming = {}
      <4>1. PICK a, b : a = Cardinality(Waiting) /\ b = Cardinality(Coming)
        OBVIOUS
      <4>2. a \in Nat /\ b \in Nat /\ merge.pending = a + b + 1
        BY <2>2, <4>1, Zenon
      <4>3. merge.pending = 1
        BY <2>1, <2>2, <2>4 DEF Larger
      <4>4. a = 0 /\ b = 0
        BY <4>2, <4>3
      <4>5. Cardinality(Waiting) = 0 /\ Cardinality(Coming) = 0
        BY <4>1, <4>4, Zenon
      <4> QED
        BY <2>2, <4>5, FS_EmptySet
    <3>2. \A w \in Worker : SlotMap[w] # "collect"
      <4>1. \A w \in Worker : pc[w] \in PcState /\ pc[w] \notin {"start", "collect"}
        BY <3>1 DEF Waiting, Types, OwnerTypes
      <4>2. \A w \in Worker : SlotOf(w) # "collect"
        <5> TAKE w \in Worker
        <5> QED
          BY <4>1, SlotOfPc DEF PcState
      <4> QED
        BY <4>2 DEF SlotMap
    <3>3. Refused \/ p = << >> \/ \A w \in Worker : SlotMap[w] = "ready"
      <4> SUFFICES ASSUME ~Refused PROVE p = << >> \/ \A w \in Worker : SlotMap[w] = "ready"
        OBVIOUS
      <4>1. \/ \A w \in Worker : pc[w] \in {"start", "collect", "next"}
            \/ merge.got /\ merge.first = << >>
        BY <2>2, <3>1 DEF Ledger, EmptyTold
      <4>2. CASE merge.first = << >>
        BY <4>2, PlanEmpty
      <4>3. CASE \A w \in Worker : pc[w] \in {"start", "collect", "next"}
        <5>1. \A w \in Worker : pc[w] = "next"
          BY <3>1, <4>3 DEF Waiting
        <5>2. \A w \in Worker : SlotOf(w) = "ready"
          BY <5>1, SlotOfPc
        <5> QED
          BY <5>2 DEF SlotMap
      <4> QED
        BY <4>1, <4>2, <4>3
    <3>4. PushBatches(p) /\ Pushed' /\ PlanMap' = p
      <4>1. PushBatches(p)
        BY <2>1, <2>4
      <4>2. Plan' = Plan /\ merge'.first = merge.first
        BY <2>1 DEF Plan
      <4> QED
        BY <2>4, <4>1, <4>2 DEF Pushed, PlanMap
    <3>5. p \in AllPlans
      BY <1>3 DEF AllPlans, Plan
    <3> HIDE DEF p
    <3>6. S!PushBatches(p) /\ S!Worker = Worker /\ (S!Refused <=> Refused)
      BY <3>4, SameQueueSteps DEF S!Refused, Refused
    <3>7. S!Push(p)
      BY <1>1, <1>2, <1>4, <1>5, <2>2, <3>2, <3>3, <3>4, <3>6 DEF S!Push, SlotMap, PlanMap, Neutral
    <3> QED
      BY <3>5, <3>7
  <2> QED
    BY <2>3, <2>4
<1> QED
  BY <1>7, <1>8, <1>9 DEF MergeStep

LEMMA NextSees ==
    ASSUME Types, Ledger, [Next]_vars
    PROVE  S!Next \/ UNCHANGED S!vars
<1>1. CASE UNCHANGED <<queueVars, ownerVars, events, mergeVars>>
  <2>1. UNCHANGED Seen
    <3>1. Settled("teardown")' = Settled("teardown") /\ Settled("crash")' = Settled("crash")
      BY <1>1, NeutralKept DEF Neutral, mergeVars
    <3>2. UNCHANGED SlotMap /\ \A w \in Worker : Blamed(w)' = Blamed(w)
      BY <1>1 DEF SlotMap, SlotOf, Blamed, ownerVars
    <3>3. CrashFailed' = CrashFailed
      BY <3>1, <3>2 DEF CrashFailed
    <3>4. UNCHANGED <<Pushed, PlanMap>>
      BY <1>1 DEF Pushed, PlanMap, mergeVars
    <3> QED
      BY <1>1, <3>1, <3>2, <3>3, <3>4 DEF Seen, ownerVars
  <2> QED
    BY <2>1, SameSeen
<1>2. UNCHANGED vars => UNCHANGED <<queueVars, ownerVars, events, mergeVars>>
  BY DEF vars
<1>3. ASSUME NEW w \in Worker, OwnerStep(w) PROVE S!Next \/ UNCHANGED S!vars
  <2>1. Sees(w)
    BY <1>3, OwnerSees DEF Ledger
  <2>2. S!Worker = Worker
    BY SameQueueSteps
  <2> QED
    BY <2>1, <2>2, SameSeen DEF Sees, S!Next
<1>4. CASE MergeStep
  BY <1>4, MergeSees, SameSeen DEF S!Next
<1> QED
  BY <1>1, <1>2, <1>3, <1>4, WorkerApart DEF Next, Terminated

\* However many workers there are, whatever they collect and whoever dies, the
\* controller, its processes and its merge loop do nothing to the tests that
\* Scheduler does not allow.
THEOREM DistImplementsScheduler == Spec => ImplementsScheduler
<1>1. Init => S!Init
  BY InitImplements
<1>2. Types /\ Ledger /\ [Next]_vars => [S!Next]_(S!vars)
  BY NextSees
<1> QED
  BY <1>1, <1>2, Typed, Accounts, PTL DEF Spec, ImplementsScheduler, S!Spec

-----------------------------------------------------------------------------
(* Workers that do not collect the same run nothing.                       *)

Idles(w) ==
    /\ pc[w] \notin Holding /\ held[w] = << >>
    /\ proc[w].batch = << >> /\ proc[w].st \notin AtItem
    /\ \A i \in DOMAIN inp[w] : inp[w][i].kind # "run"

Untouched == Settled("teardown") = {} /\ \A w \in Worker : Idles(w)
Mismatch == merge.override # None /\ ~merge.hit

\* Nothing is touched before the push, nor after a mismatch, which comes before
\* it and stops the queue.
Idle ==
    /\ ~Pushed \/ Mismatch => Untouched
    /\ Mismatch => StopSeen

LEMMA IdlesWorker ==
    ASSUME Types, NEW w \in Worker, Idles(w), WorkerStep(w) \/ Die(w)
    PROVE  Idles(w)'
<1>1. /\ proc \in [Worker -> Processes] /\ inp \in [Worker -> Seq(Messages)] /\ UNCHANGED <<pc, held>>
  BY WorkerApart DEF Types, ProcessTypes, PipeTypes, ownerVars
<1>2. ~ReadRun(w) /\ ~Uncollected(w) /\ ~Scopes(w) /\ ~Body(w) /\ ~Teardown(w)
  <2>1. inp[w] # << >> => Head(inp[w]).kind # "run"
    <3>1. inp[w] # << >> => 1 \in DOMAIN inp[w] /\ Head(inp[w]) = inp[w][1]
      BY <1>1
    <3> QED
      BY <3>1 DEF Idles
  <2>2. proc[w].st \notin {"item", "body", "teardown"}
    BY DEF Idles, AtItem
  <2>3. ~ReadRun(w)
    BY <2>1 DEF ReadRun
  <2> QED
    BY <2>2, <2>3 DEF Uncollected, Scopes, Body, Teardown
<1>3. \A i \in DOMAIN inp'[w] : inp'[w][i].kind # "run"
  <2>1. inp' = inp \/ (inp[w] # << >> /\ inp' = [inp EXCEPT ![w] = Tail(@)])
    BY <1>2 DEF WorkerStep, ReadInput, Collect, BatchEnd, Leave, ReadShutdown, FinalTeardown, SayBye, Exit, Die
  <2>2. inp[w] # << >> /\ inp'[w] = Tail(inp[w]) =>
          \A i \in DOMAIN inp'[w] : i + 1 \in DOMAIN inp[w] /\ inp'[w][i] = inp[w][i + 1]
    BY <1>1
  <2> QED
    BY <1>1, <2>1, <2>2 DEF Idles
<1>4. \A st : Process(st).batch = << >> /\ Process(st).st = st
  BY DEF Process
<1>5. proc'[w].batch = << >> /\ proc'[w].st \notin AtItem
  <2>1. CASE ReadInput(w) \/ Exit(w) \/ Die(w)
    <3>1. \E st \in {"collecting", "gone"} : proc'[w] = Process(st)
      BY <1>1, <2>1 DEF ReadInput, Exit, Die, Become
    <3> QED
      BY <1>4, <3>1 DEF AtItem
  <2>2. CASE Collect(w)
    <3>1. PICK x : Become(w, [Process("idle") EXCEPT !.items = x])
      BY <2>2 DEF Collect
    <3>2. proc'[w] = [Process("idle") EXCEPT !.items = x]
      BY <1>1, <3>1 DEF Become
    <3> QED
      BY <3>2 DEF Process, AtItem
  <2>3. CASE BatchEnd(w) \/ Leave(w) \/ ReadShutdown(w) \/ FinalTeardown(w) \/ SayBye(w)
    <3>1. proc[w] \in Processes
      BY <1>1
    <3>2. proc'[w].batch = proc[w].batch /\ proc'[w].st \in {"idle", "leaving", "final", "bye", "exiting"}
      BY <1>1, <2>3, <3>1 DEF BatchEnd, Leave, ReadShutdown, FinalTeardown, SayBye, Become, Processes
    <3> QED
      BY <3>2 DEF Idles, AtItem
  <2> QED
    BY <1>2, <2>1, <2>2, <2>3 DEF WorkerStep
<1> QED
  BY <1>1, <1>3, <1>5 DEF Idles

LEMMA IdlesOwner ==
    ASSUME Types, NEW w \in Worker, Idles(w), OwnerStep(w), ~NextBatch(w)
    PROVE  Idles(w)'
<1>1. /\ proc \in [Worker -> Processes] /\ inp \in [Worker -> Seq(Messages)]
      /\ pc \in [Worker -> PcState] /\ held \in [Worker -> Batch]
  BY DEF Types, ProcessTypes, PipeTypes, OwnerTypes
<1>2. \A l : Goto(w, l) => pc'[w] = l
  BY <1>1 DEF Goto
<1>3. /\ ~SendRun(w) /\ ~ReadReport(w) /\ ~ReadDone(w) /\ ~ReadInterrupted(w)
      /\ ~WaitStop(w) /\ ~ReadEof(w)
  BY DEF Idles, Holding, SendRun, ReadReport, ReadDone, ReadInterrupted, WaitStop, ReadEof
<1>4. pc'[w] \notin Holding /\ held'[w] = << >>
  BY <1>1, <1>2, <1>3 DEF OwnerStep, StartForked, StartSpawned, CollectFrame, CollectEof, NoMoreBatches,
     Book, Tell, Absorb, DrainReport, DrainBye, DrainEof, Reap, Idles, Holding, ownerVars
<1>5. proc'[w] = proc[w] \/ proc'[w] = Process("collecting")
  BY <1>1, <1>3 DEF OwnerStep, StartForked, StartSpawned, CollectFrame, CollectEof, NoMoreBatches,
     Book, Tell, Absorb, DrainReport, DrainBye, DrainEof, Reap, Become, procVars
<1>6. inp'[w] = inp[w] \/ inp'[w] = << >> \/ inp'[w] = Append(inp[w], Workerinput) \/ inp'[w] = Append(inp[w], Shutdown)
  BY <1>1, <1>3 DEF OwnerStep, StartForked, StartSpawned, CollectFrame, CollectEof, NoMoreBatches, Write,
     Book, Tell, Absorb, DrainReport, DrainBye, DrainEof, Reap
<1>7. \A i \in DOMAIN inp'[w] : inp'[w][i].kind # "run"
  <2>1. ASSUME NEW m, m.kind # "run", inp'[w] = Append(inp[w], m)
        PROVE  \A i \in DOMAIN inp'[w] : inp'[w][i].kind # "run"
    <3>1. \A i \in DOMAIN inp'[w] : inp'[w][i] = m \/ (i \in DOMAIN inp[w] /\ inp'[w][i] = inp[w][i])
      BY <1>1, <2>1
    <3> QED
      BY <2>1, <3>1 DEF Idles
  <2>2. Workerinput.kind # "run" /\ Shutdown.kind # "run"
    BY Kinds
  <2> QED
    BY <1>6, <2>1, <2>2 DEF Idles
<1> QED
  BY <1>4, <1>5, <1>7 DEF Idles, Process, AtItem

\* While no batch is given out, nothing is touched.
LEMMA UntouchedStays ==
    ASSUME Types, Ledger, Untouched, [Next]_vars, \A w \in Worker : ~TakeBatch(w)
    PROVE  Untouched'
<1>1. Settled("teardown")' = Settled("teardown")
  <2>1. \A w \in Worker : held[w] = << >>
    BY DEF Untouched, Idles
  <2>2. CASE UNCHANGED S!vars
    BY <2>2 DEF S!vars, S!clientVars
  <2>3. CASE S!Next
    <3>1. \A w \in Worker : ~S!Complete(w)
      BY <2>1 DEF S!Complete
    <3> QED
      BY <2>3, <3>1, SameQueueSteps DEF S!Next, S!Slot, S!Push, S!StopDispatch, S!clientVars, S!Collected,
         S!Unavailable, S!CrashedCollecting, S!Take, S!Refuse, S!Finish, S!CrashAndReplace, S!CrashAndAbort,
         S!CrashSilently, S!Arrive, S!LoseReplacement, S!CrashIdle, S!Drained
  <2> QED
    BY <2>2, <2>3, NextSees
<1>2. ASSUME NEW w \in Worker PROVE Idles(w)'
  <2>1. ASSUME pc'[w] = pc[w], held'[w] = held[w], proc'[w] = proc[w], inp'[w] = inp[w]
        PROVE  Idles(w)'
    BY <2>1 DEF Untouched, Idles
  <2>2. CASE WorkerStep(w) \/ Die(w)
    BY <2>2, IdlesWorker DEF Untouched
  <2>3. CASE OwnerStep(w)
    BY <2>3, IdlesOwner DEF Untouched, NextBatch
  <2>4. ASSUME NEW v \in Worker, v # w, WorkerStep(v) \/ OwnerStep(v) \/ Die(v) PROVE Idles(w)'
    BY <2>1, <2>4, OwnSlot, OtherQueue
  <2>5. CASE MergeStep
    BY <2>1, <2>5 DEF MergeStep, MergeFirst, MergeSame, MergeDifferent, MergeCount, MergeReport,
       MergeInterrupted, MergeBanner, MergeEnd, MergeOnly, ownerVars, procVars
  <2>6. CASE UNCHANGED vars
    BY <2>1, <2>6 DEF vars, ownerVars, procVars
  <2> QED
    BY <2>2, <2>3, <2>4, <2>5, <2>6 DEF Next, Terminated
<1> QED
  BY <1>1, <1>2 DEF Untouched

\* A mismatch is found while collections are still awaited.
LEMMA MismatchEarly ==
    ASSUME Types, Ledger, [Next]_vars, Mismatch', ~Mismatch
    PROVE  ~Pushed /\ StopSeen'
<1>1. merge \in [at : {"recv", "count"}, pending : 0 .. NumWorkers, got : BOOLEAN,
                 first : CollectChoices \cup {<< >>}, failed : Nat, hit : BOOLEAN,
                 override : Int \cup {None}, banner : BOOLEAN]
      /\ events \in Seq(Events)
  BY DEF Types, MergeTypes
<1>2. MergeDifferent
  <2>1. merge' # merge
    BY DEF Mismatch
  <2>2. MergeStep
    BY <2>1, WorkerApart, OwnerMerge DEF Next, Terminated, vars, mergeVars
  <2>3. ~MergeFirst /\ ~MergeSame /\ ~MergeCount /\ ~MergeReport /\ ~MergeInterrupted /\ ~MergeBanner /\ ~MergeEnd
    BY <1>1 DEF Mismatch, MergeFirst, MergeSame, Counting, MergeCount, MergeReport, MergeInterrupted,
       MergeBanner, MergeEnd
  <2> QED
    BY <2>2, <2>3 DEF MergeStep
<1>3. StopSeen'
  BY <1>2 DEF MergeDifferent, Stop, StopSeen
<1>4. ~Pushed
  BY <1>2, CollectionEarly DEF MergeDifferent, Event, Ledger
<1> QED
  BY <1>3, <1>4

\* No batch is given out before the push or after a stop.
LEMMA NextIdle == Types /\ Ledger /\ Idle /\ [Next]_vars => Idle'
<1> SUFFICES ASSUME Types, Ledger, Idle, [Next]_vars PROVE Idle'
  OBVIOUS
<1>1. ~Pushed \/ Mismatch => Untouched'
  <2> SUFFICES ASSUME ~Pushed \/ Mismatch PROVE Untouched'
    OBVIOUS
  <2>1. \A w \in Worker : ~TakeBatch(w)
    BY DEF TakeBatch, Ledger, Virgin, Idle, StopSeen, Refused
  <2> QED
    BY <2>1, UntouchedStays DEF Idle
<1>2. ~Pushed' => ~Pushed
  BY PushedStays DEF Ledger
<1>3. Mismatch' => (~Pushed \/ Mismatch) /\ StopSeen'
  BY MismatchEarly, StopStays DEF Idle
<1> QED
  BY <1>1, <1>2, <1>3 DEF Idle

LEMMA InitIdle == Init => Idle
<1> SUFFICES ASSUME Init PROVE Idle
  OBVIOUS
<1>1. Settled("teardown") = {}
  BY DEF Init, Settled, EmptyBag, SetToBag, BagToSet
<1>2. \A w \in Worker : Idles(w)
  BY DEF Init, Idles, Holding, AtItem, Process
<1>3. ~Mismatch
  BY DEF Init, Mismatch
<1> QED
  BY <1>1, <1>2, <1>3 DEF Idle, Untouched

\* Workers that disagree on the collection run nothing: the mismatch is found
\* before the last collection pushes the batches, and stops the queue.
THEOREM DistMismatchRunsNothing == Spec => []MismatchRunsNothing
<1>1. Init => Idle
  BY InitIdle
<1>2. Types /\ Ledger /\ Idle /\ [Next]_vars => Idle'
  BY NextIdle
<1>3. Idle => MismatchRunsNothing
  BY DEF Idle, Mismatch, Untouched, Idles, MismatchRunsNothing
<1> QED
  BY <1>1, <1>2, <1>3, Typed, Accounts, PTL DEF Spec
-----------------------------------------------------------------------------
(* After an abort.                                                         *)

\* Scheduler blames a running test only with a crash it replaces or aborts
\* for, and neither happens once the budget is exhausted.
LEMMA NoBlameAborted ==
    ASSUME Types, Ledger, [Next]_vars, aborted
    PROVE  CrashFailed' = CrashFailed
<1>1. S!Next \/ UNCHANGED S!vars
  BY NextSees
<1>2. CASE UNCHANGED S!vars
  BY <1>2, SameSeen DEF Seen
<1>3. ASSUME NEW w \in S!Worker, S!Slot(w) PROVE CrashFailed' = CrashFailed
  <2>1. ~S!CrashAndReplace(w) /\ ~S!CrashAndAbort(w)
    BY DEF S!CrashAndReplace, S!CrashReplace, S!CrashAndAbort, S!CrashAbort
  <2> QED
    BY <1>3, <2>1 DEF S!Slot, S!Collected, S!Unavailable, S!CrashedCollecting, S!Take, S!Refuse,
       S!Complete, S!Finish, S!CrashSilently, S!Arrive, S!LoseReplacement, S!CrashIdle, S!Drained
<1>4. ASSUME NEW p \in AllPlans, S!Push(p) PROVE CrashFailed' = CrashFailed
  BY <1>4 DEF S!Push
<1>5. CASE S!StopDispatch
  BY <1>5 DEF S!StopDispatch, S!clientVars
<1> QED
  BY <1>1, <1>2, <1>3, <1>4, <1>5 DEF S!Next

\* The crash that exhausts the budget ends the blaming, whichever owner books
\* the next one, for every number of workers and every budget.
THEOREM DistSilentAfterAbort == Spec => SilentAfterAbort
<1>1. Types /\ Ledger /\ [Next]_vars => [aborted => CrashFailed' = CrashFailed]_vars
  BY NoBlameAborted
<1> QED
  BY <1>1, Typed, Accounts, PTL DEF Spec, SilentAfterAbort

-----------------------------------------------------------------------------
(***************************************************************************)
(* What the implementation of Scheduler buys: the theorems of              *)
(* SchedulerProofs are theorems of the distributed run, and with them its  *)
(* verdicts are right: a test is reported finished once, or blamed for a   *)
(* crash once, and never both; and a run that reports success has run what *)
(* it collected.                                                           *)
(***************************************************************************)

(* The instance of Scheduler whose theorems can be cited is that of        *)
(* SchedulerProofs, under the substitution of Dist's S.  The two are equal *)
(* one operator at a time.                                                 *)

SP == INSTANCE SchedulerProofs WITH
        Plans <- AllPlans,
        slot <- [w \in Worker |-> SlotOf(w)],
        pushed <- Pushed,
        plan <- IF Pushed THEN Plan[merge.first] ELSE << >>,
        ran <- Settled("teardown"),
        crashed <- CrashFailed

LEMMA SameInit == S!Init <=> SP!Init
BY DEF S!Init, SP!Init, S!QueueInit, SP!QueueInit, S!Worker, SP!Worker

LEMMA SameTakeBatch == \A w : S!TakeBatch(w) <=> SP!TakeBatch(w)
BY DEF S!TakeBatch, SP!TakeBatch, S!Awake, SP!Awake, S!Refused, SP!Refused

LEMMA SameNoBatch == \A w : S!NoBatch(w) <=> SP!NoBatch(w)
BY DEF S!NoBatch, SP!NoBatch, S!Awake, SP!Awake, S!Refused, SP!Refused, S!queueVars, SP!queueVars

LEMMA SameCrashReplace == \A w, r : S!CrashReplace(w, r) <=> SP!CrashReplace(w, r)
BY DEF S!CrashReplace, SP!CrashReplace

LEMMA SameCrashSilent == S!CrashSilent <=> SP!CrashSilent
BY DEF S!CrashSilent, SP!CrashSilent, S!queueVars, SP!queueVars

LEMMA SameCrashAbort == S!CrashAbort <=> SP!CrashAbort
BY DEF S!CrashAbort, SP!CrashAbort, S!Worker, SP!Worker

LEMMA SameStop == S!Stop <=> SP!Stop
BY DEF S!Stop, SP!Stop, S!Worker, SP!Worker

LEMMA SameShare == \A p, w : S!Share(p, w) = SP!Share(p, w)
BY DEF S!Share, SP!Share

LEMMA SamePushBatches == \A p : S!PushBatches(p) <=> SP!PushBatches(p)
BY SameShare DEF S!PushBatches, SP!PushBatches, S!Worker, SP!Worker

LEMMA SameRefused == S!Refused <=> SP!Refused
BY DEF S!Refused, SP!Refused

LEMMA SameMove == \A w, from, to : S!Move(w, from, to) <=> SP!Move(w, from, to)
BY DEF S!Move, SP!Move

LEMMA SameHeld ==
    \A w : S!Remainder(w) = SP!Remainder(w) /\ S!Running(w) = SP!Running(w)
BY DEF S!Remainder, SP!Remainder, S!Running, SP!Running

LEMMA SameSlot == \A w : S!Slot(w) <=> SP!Slot(w)
<1> TAKE w
<1> USE DEF S!queueVars, SP!queueVars
<1>1. /\ S!Collected(w) <=> SP!Collected(w)
      /\ S!Unavailable(w) <=> SP!Unavailable(w)
      /\ S!CrashedCollecting(w) <=> SP!CrashedCollecting(w)
  BY SameMove DEF S!Collected, SP!Collected, S!Unavailable, SP!Unavailable, S!CrashedCollecting, SP!CrashedCollecting
<1>2. /\ S!Arrive(w) <=> SP!Arrive(w)
      /\ S!LoseReplacement(w) <=> SP!LoseReplacement(w)
      /\ S!Drained(w) <=> SP!Drained(w)
  BY SameMove DEF S!Arrive, SP!Arrive, S!LoseReplacement, SP!LoseReplacement, S!Drained, SP!Drained
<1>3. S!Take(w) <=> SP!Take(w)
  BY SameTakeBatch, SameMove DEF S!Take, SP!Take
<1>4. S!Refuse(w) <=> SP!Refuse(w)
  BY SameNoBatch, SameMove DEF S!Refuse, SP!Refuse
<1>5. S!Finish(w) <=> SP!Finish(w)
  BY SameRefused, SameMove DEF S!Finish, SP!Finish
<1>6. S!Complete(w) <=> SP!Complete(w)
  BY DEF S!Complete, SP!Complete
<1>7. S!CrashAndReplace(w) <=> SP!CrashAndReplace(w)
  BY SameHeld, SameCrashReplace, SameMove DEF S!CrashAndReplace, SP!CrashAndReplace
<1>8. S!CrashAndAbort(w) <=> SP!CrashAndAbort(w)
  BY SameHeld, SameCrashAbort, SameMove DEF S!CrashAndAbort, SP!CrashAndAbort
<1>9. S!CrashSilently(w) <=> SP!CrashSilently(w)
  BY SameCrashSilent, SameMove DEF S!CrashSilently, SP!CrashSilently
<1>10. S!CrashIdle(w) <=> SP!CrashIdle(w)
  BY SameCrashReplace, SameCrashSilent, SameCrashAbort DEF S!CrashIdle, SP!CrashIdle
<1> QED
  BY <1>1, <1>2, <1>3, <1>4, <1>5, <1>6, <1>7, <1>8, <1>9, <1>10 DEF S!Slot, SP!Slot

LEMMA SameNext == S!Next <=> SP!Next
<1>1. \A p : S!Push(p) <=> SP!Push(p)
  BY SameRefused, SamePushBatches DEF S!Push, SP!Push, S!Worker, SP!Worker
<1>2. S!StopDispatch <=> SP!StopDispatch
  BY SameStop DEF S!StopDispatch, SP!StopDispatch, S!clientVars, SP!clientVars
<1>3. S!Worker = SP!Worker
  BY DEF S!Worker, SP!Worker
<1> QED
  BY <1>1, <1>2, <1>3, SameSlot DEF S!Next, SP!Next

\* What SchedulerProofs assumes of its constants holds of Dist's.
LEMMA PlansAssumed == \A plan \in AllPlans : plan \in Seq(SP!Batch) /\ SP!Distinct(plan)
BY PlansApart DEF SP!Batch, SP!Distinct, Batch, Distinct

\* Every theorem about Scheduler is one about the distributed run.
LEMMA RunsScheduler == Spec => SP!Spec
<1>1. S!Init => SP!Init
  BY SameInit
<1>2. [S!Next]_(S!vars) => [SP!Next]_(SP!vars)
  BY SameNext DEF S!vars, SP!vars, S!queueVars, SP!queueVars, S!clientVars, SP!clientVars
<1>3. Spec => S!Spec
  BY DistImplementsScheduler DEF ImplementsScheduler
<1> QED
  BY <1>1, <1>2, <1>3, PTL DEF S!Spec, SP!Spec

LEMMA SchedulerInvariant == Spec => []SP!IndInv
<1>1. SP!Spec => []SP!IndInv
  BY SP!Inductive, PlansAssumed, NumWorkersAssumption, MaxRestartAssumption
<1> QED
  BY <1>1, RunsScheduler, PTL

-----------------------------------------------------------------------------
(* Counting reports.                                                       *)

\* Where a sequence of events has a report of phase p for test t.
Places(s, t, p) == {i \in DOMAIN s : IsReport(s[i], t, p)}

LEMMA FinitePlaces ==
    ASSUME NEW s, s \in Seq(Events), NEW t, NEW p
    PROVE  IsFiniteSet(Places(s, t, p)) /\ Cardinality(Places(s, t, p)) \in Nat
<1>1. IsFiniteSet(1 .. Len(s)) /\ Places(s, t, p) \in SUBSET (1 .. Len(s))
  BY FS_Interval DEF Places
<1> QED
  BY <1>1, FS_Subset, FS_CardinalityType

LEMMA PlacesConcat ==
    ASSUME NEW s, s \in Seq(Events), NEW es, es \in Seq(Events), NEW t, NEW p
    PROVE  Cardinality(Places(s \o es, t, p)) = Cardinality(Places(s, t, p)) + Cardinality(Places(es, t, p))
<1> DEFINE A == Places(s, t, p)
           B == Places(es, t, p)
           n == Len(s)
           C == {i \in n + 1 .. n + Len(es) : i - n \in B}
           f == [i \in B |-> n + i]
<1>1. n \in Nat /\ Len(es) \in Nat /\ DOMAIN s = 1 .. n /\ DOMAIN es = 1 .. Len(es)
  OBVIOUS
<1>2. /\ DOMAIN (s \o es) = 1 .. n + Len(es)
      /\ \A i \in 1 .. n : (s \o es)[i] = s[i]
      /\ \A i \in n + 1 .. n + Len(es) : (s \o es)[i] = es[i - n]
  OBVIOUS
<1>3. A \subseteq 1 .. n /\ B \subseteq 1 .. Len(es)
  BY <1>1 DEF Places
<1> HIDE DEF n
<1>4. Places(s \o es, t, p) = A \cup C
  <2>1. \A i \in n + 1 .. n + Len(es) : i - n \in 1 .. Len(es)
    BY <1>1
  <2>2. \A i \in 1 .. n + Len(es) : i \in 1 .. n \/ i \in n + 1 .. n + Len(es)
    BY <1>1
  <2>3. (1 .. n) \subseteq 1 .. n + Len(es) /\ (n + 1 .. n + Len(es)) \subseteq 1 .. n + Len(es)
    BY <1>1
  <2> QED
    BY <1>1, <1>2, <2>1, <2>2, <2>3 DEF Places
<1>5. A \cap C = {}
  BY <1>1, <1>3
<1>6. f \in Bijection(B, C)
  <2>1. f \in [B -> C]
    BY <1>1, <1>3
  <2>2. \A i, j \in B : f[i] = f[j] => i = j
    BY <1>1, <1>3
  <2>3. \A c \in C : \E i \in B : f[i] = c
    <3> TAKE c \in C
    <3>1. c - n \in B /\ f[c - n] = c
      BY <1>1
    <3> QED
      BY <3>1
  <2> HIDE DEF f, B, C
  <2> QED
    BY <2>1, <2>2, <2>3 DEF Bijection, Injection, Surjection, IsInjective
<1>7. IsFiniteSet(A) /\ IsFiniteSet(B) /\ Cardinality(A) \in Nat /\ Cardinality(B) \in Nat
  BY FinitePlaces
<1> HIDE DEF A, B, C, f
<1>8. IsFiniteSet(C) /\ Cardinality(C) = Cardinality(B)
  BY <1>6, <1>7, FS_Bijection DEF ExistsBijection
<1>9. Cardinality(A \cup C) = Cardinality(A) + Cardinality(C) - Cardinality(A \cap C)
  BY <1>7, <1>8, FS_Union
<1>10. Cardinality(A \cap C) = 0
  BY <1>5, FS_EmptySet
<1>11. Cardinality(A \cup C) = Cardinality(A) + Cardinality(B)
  BY <1>7, <1>8, <1>9, <1>10
<1> QED
  BY <1>4, <1>11 DEF A, B

LEMMA PlacesOne ==
    ASSUME NEW e, e \in Events, NEW t, NEW p
    PROVE  Cardinality(Places(<<e>>, t, p)) = IF IsReport(e, t, p) THEN 1 ELSE 0
<1>1. Places(<<e>>, t, p) = IF IsReport(e, t, p) THEN {1} ELSE {}
  BY DEF Places
<1> QED
  BY <1>1, FS_EmptySet, FS_Singleton

LEMMA PlacesNone ==
    ASSUME NEW s, NEW t, NEW p, \A i \in DOMAIN s : ~IsReport(s[i], t, p)
    PROVE  Cardinality(Places(s, t, p)) = 0
<1>1. Places(s, t, p) = {}
  BY DEF Places
<1> QED
  BY <1>1, FS_EmptySet

LEMMA PlacesSome ==
    ASSUME NEW s, s \in Seq(Events), NEW t, NEW p, Cardinality(Places(s, t, p)) = 0
    PROVE  \A i \in DOMAIN s : ~IsReport(s[i], t, p)
<1>1. Places(s, t, p) = {}
  BY FinitePlaces, FS_EmptySet
<1> QED
  BY <1>1 DEF Places

\* How many copies of a report have been filed.
Copies(t, p, failed) == IF BagIn(Report(t, p, failed), reports) THEN reports[Report(t, p, failed)] ELSE 0

LEMMA CopiesType ==
    ASSUME IsABag(reports), NEW t, NEW p, NEW failed
    PROVE  /\ Copies(t, p, failed) \in Nat
           /\ Copies(t, p, failed) = 0 => Report(t, p, failed) \notin BagToSet(reports)
           /\ Report(t, p, failed) \notin BagToSet(reports) => Copies(t, p, failed) = 0
<1>1. \A r \in DOMAIN reports : reports[r] \in Nat /\ reports[r] > 0
  BY DEF IsABag
<1> QED
  BY <1>1 DEF Copies, BagIn, BagToSet

LEMMA CopiesFiled ==
    ASSUME IsABag(reports), NEW t, NEW p, NEW failed, NEW r, reports' = reports (+) SetToBag({r})
    PROVE  Copies(t, p, failed)' = Copies(t, p, failed) + IF r = Report(t, p, failed) THEN 1 ELSE 0
<1>1. \A x \in DOMAIN reports : reports[x] \in Nat /\ reports[x] > 0
  BY DEF IsABag
<1>2. /\ DOMAIN reports' = DOMAIN reports \cup {r}
      /\ \A x \in DOMAIN reports' :
            reports'[x] = (IF x \in DOMAIN reports THEN reports[x] ELSE 0) + (IF x = r THEN 1 ELSE 0)
  BY DEF (+), SetToBag
<1> DEFINE q == Report(t, p, failed)
<1>3. Copies(t, p, failed) = (IF q \in DOMAIN reports THEN reports[q] ELSE 0)
      /\ Copies(t, p, failed)' = (IF q \in DOMAIN reports' THEN reports'[q] ELSE 0)
  BY DEF Copies, BagIn, BagToSet, Report
<1> HIDE DEF q
<1>4. Copies(t, p, failed)' = Copies(t, p, failed) + IF r = q THEN 1 ELSE 0
  BY <1>1, <1>2, <1>3
<1> QED
  BY <1>4 DEF q

Filings(t, p) == Copies(t, p, TRUE) + Copies(t, p, FALSE)

LEMMA SentSplit ==
    ASSUME NEW t, NEW p
    PROVE  Sent(t, p) = Filings(t, p) + Cardinality(Places(events, t, p))
BY DEF Sent, Filings, Copies, Places

LEMMA FilingsType ==
    ASSUME IsABag(reports), NEW t, NEW p
    PROVE  /\ Filings(t, p) \in Nat
           /\ (\A b : Report(t, p, b) \notin BagToSet(reports)) => Filings(t, p) = 0
<1>1. PICK a, b : a = Copies(t, p, TRUE) /\ b = Copies(t, p, FALSE)
  OBVIOUS
<1>2. a \in Nat /\ b \in Nat
  BY <1>1, CopiesType, Zenon
<1>3. (\A c : Report(t, p, c) \notin BagToSet(reports)) => a = 0 /\ b = 0
  BY <1>1, CopiesType, Zenon
<1>4. Filings(t, p) = a + b
  BY <1>1, Zenon DEF Filings
<1> QED
  BY <1>2, <1>3, <1>4

LEMMA FilingsKept ==
    ASSUME UNCHANGED reports, NEW t, NEW p
    PROVE  Filings(t, p)' = Filings(t, p)
BY DEF Filings, Copies, Report

LEMMA FilingsMore ==
    ASSUME IsABag(reports), NEW t, NEW p, NEW r, r \in Reports, reports' = reports (+) SetToBag({r})
    PROVE  Filings(t, p)' = Filings(t, p) + IF IsReport(r, t, p) THEN 1 ELSE 0
<1>1. PICK a, b, c, d : /\ a = Copies(t, p, TRUE) /\ b = Copies(t, p, FALSE)
                        /\ c = Copies(t, p, TRUE)' /\ d = Copies(t, p, FALSE)'
  OBVIOUS
<1>2. a \in Nat /\ b \in Nat
  BY <1>1, CopiesType, Zenon
<1>3. /\ r = Report(t, p, TRUE) <=> IsReport(r, t, p) /\ r.failed
      /\ r = Report(t, p, FALSE) <=> IsReport(r, t, p) /\ ~r.failed
  BY DEF IsReport, Report, Reports
<1>4. PICK x, y : x = Report(t, p, TRUE) /\ y = Report(t, p, FALSE)
  OBVIOUS
<1>5. c = a + (IF r = x THEN 1 ELSE 0) /\ d = b + (IF r = y THEN 1 ELSE 0)
  BY <1>1, <1>4, CopiesFiled, Zenon
<1>6. (r = x <=> IsReport(r, t, p) /\ r.failed) /\ (r = y <=> IsReport(r, t, p) /\ ~r.failed)
  BY <1>3, <1>4, Zenon
<1>7. c + d = a + b + IF IsReport(r, t, p) THEN 1 ELSE 0
  BY <1>2, <1>5, <1>6
<1>8. Filings(t, p) = a + b /\ Filings(t, p)' = c + d
  BY <1>1, Zenon DEF Filings
<1> QED
  BY <1>7, <1>8

LEMMA SentType ==
    ASSUME Types, NEW t, NEW p
    PROVE  Sent(t, p) \in Nat /\ (t \in Test /\ t \notin Settled(p) => Sent(t, p) = 0)
<1>1. IsABag(reports) /\ events \in Seq(Events)
  BY DEF Types, MergeTypes
<1>2. Filings(t, p) \in Nat /\ Cardinality(Places(events, t, p)) \in Nat
  BY <1>1, FilingsType, FinitePlaces
<1>3. ASSUME t \in Test, t \notin Settled(p)
      PROVE  Filings(t, p) = 0 /\ Cardinality(Places(events, t, p)) = 0
  <2>1. \A b : IsReport(Report(t, p, b), t, p)
    BY DEF IsReport, Report
  <2>2. \A b : Report(t, p, b) \notin BagToSet(reports)
    BY <1>3, <2>1 DEF Settled
  <2>3. \A i \in DOMAIN events : ~IsReport(events[i], t, p)
    BY <1>3 DEF Settled
  <2> QED
    BY <1>1, <2>2, <2>3, FilingsType, PlacesNone
<1> QED
  BY <1>2, <1>3, SentSplit

LEMMA SentKept ==
    ASSUME UNCHANGED <<events, reports>>, NEW t, NEW p
    PROVE  Sent(t, p)' = Sent(t, p)
BY DEF Sent, IsReport, Report

LEMMA SentNext ==
    ASSUME NEW t, NEW p
    PROVE  Sent(t, p)' = Filings(t, p)' + Cardinality(Places(events', t, p))
BY DEF Sent, Filings, Copies, Places, IsReport, Report

LEMMA SentPosted ==
    ASSUME Types, UNCHANGED reports, NEW es, es \in Seq(Events), Post(es), NEW t, NEW p
    PROVE  Sent(t, p)' = Sent(t, p) + Cardinality(Places(es, t, p))
<1>1. IsABag(reports) /\ events \in Seq(Events) /\ events' = events \o es
  BY DEF Types, MergeTypes, Post
<1>2. /\ Filings(t, p) \in Nat
      /\ Cardinality(Places(events, t, p)) \in Nat /\ Cardinality(Places(es, t, p)) \in Nat
  BY <1>1, FilingsType, FinitePlaces
<1>3. Filings(t, p)' = Filings(t, p)
  BY FilingsKept
<1>4. Cardinality(Places(events', t, p)) = Cardinality(Places(events, t, p)) + Cardinality(Places(es, t, p))
  BY <1>1, PlacesConcat
<1> QED
  BY <1>2, <1>3, <1>4, SentSplit, SentNext

\* What the merge loop files it has received.
LEMMA SentReceived ==
    ASSUME Types, events # << >>, Received, NEW t, NEW p,
           \/ Head(events).kind = "report" /\ reports' = reports (+) SetToBag({Head(events)})
           \/ Head(events).kind # "report" /\ UNCHANGED reports
    PROVE  Sent(t, p)' = Sent(t, p)
<1> DEFINE e == Head(events)
           one == IF IsReport(e, t, p) THEN 1 ELSE 0
<1>1. IsABag(reports) /\ events \in Seq(Events) /\ events' = Tail(events)
  BY DEF Types, MergeTypes, Received
<1>2. /\ events = <<e>> \o Tail(events) /\ Tail(events) \in Seq(Events)
      /\ e \in Events /\ <<e>> \in Seq(Events)
  BY <1>1
<1> HIDE DEF e
<1>3. Cardinality(Places(events, t, p)) = one + Cardinality(Places(events', t, p))
  <2>1. PICK h, s : h = <<e>> /\ s = Tail(events)
    OBVIOUS
  <2>2. h \in Seq(Events) /\ s \in Seq(Events) /\ events = h \o s /\ events' = s
    BY <1>1, <1>2, <2>1
  <2>3. Cardinality(Places(h \o s, t, p)) = Cardinality(Places(h, t, p)) + Cardinality(Places(s, t, p))
    BY <2>2, PlacesConcat
  <2>4. Cardinality(Places(h, t, p)) = one
    BY <1>2, <2>1, PlacesOne
  <2> QED
    BY <2>2, <2>3, <2>4
<1>4. Filings(t, p)' = Filings(t, p) + one
  <2>1. CASE e.kind = "report"
    <3>1. e \in Reports /\ reports' = reports (+) SetToBag({e})
      BY <1>2, <2>1, Kinds DEF e
    <3> QED
      BY <1>1, <3>1, FilingsMore
  <2>2. CASE e.kind # "report"
    <3>1. Filings(t, p)' = Filings(t, p)
      BY <2>2, FilingsKept DEF e
    <3>2. ~IsReport(e, t, p)
      BY <2>2 DEF IsReport
    <3> QED
      BY <1>1, <3>1, <3>2, FilingsType
  <2> QED
    BY <2>1, <2>2
<1>5. /\ Filings(t, p) \in Nat /\ one \in Nat
      /\ Cardinality(Places(events, t, p)) \in Nat /\ Cardinality(Places(events', t, p)) \in Nat
  BY <1>1, <1>2, FilingsType, FinitePlaces
<1> HIDE DEF one
<1> QED
  BY <1>3, <1>4, <1>5, SentSplit, SentNext

-----------------------------------------------------------------------------
(* A test is settled once.                                                 *)

\* SettledOnce, of what Dist has for Scheduler's variables.
SettledApart ==
    /\ Settled("teardown") \cap CrashFailed = {}
    /\ \A w \in Worker :
          (Settled("teardown") \cup CrashFailed) \cap Tests(PendingOf(held[w], queues[w])) = {}

LEMMA SchedulerApart == SP!IndInv => SettledApart
BY DEF SP!IndInv, SP!SettledOnce, SP!Worker, SP!Pending, SP!PendingOf, SP!Tests, SettledApart, Worker, PendingOf, Tests

LEMMA HeadPending ==
    ASSUME Types, NEW w \in Worker, held[w] # << >>
    PROVE  Head(held[w]) \in Test /\ Head(held[w]) \in Tests(PendingOf(held[w], queues[w]))
<1>1. held[w] \in Seq(Test) /\ queues[w] \in Seq(Batch)
  BY DEF Types, OwnerTypes, QueueTypes, QueueTypeOK, Batch
<1>2. 0 \in DOMAIN PendingOf(held[w], queues[w]) /\ PendingOf(held[w], queues[w])[0] = held[w]
  BY <1>1 DEF PendingOf
<1>3. 1 \in DOMAIN held[w] /\ held[w][1] = Head(held[w]) /\ Head(held[w]) \in Test
  BY <1>1
<1> QED
  BY <1>2, <1>3 DEF Tests

\* The report of a crash is one of a failure.
Fails(e) == e.kind = "report" /\ e.phase = "crash" => e.failed

CrashesFail ==
    /\ \A r \in BagToSet(reports) : Fails(r)
    /\ \A i \in DOMAIN events : Fails(events[i])

SentOnce == \A t \in Test : Sent(t, "teardown") <= 1 /\ Sent(t, "crash") <= 1

\* Whom an owner is about to blame no one has blamed, nor is about to.
BlamedOnce ==
    \A w \in Worker :
        /\ Blamed(w) \cap Settled("crash") = {}
        /\ \A v \in Worker : v # w => Blamed(w) \cap Blamed(v) = {}

Once == CrashesFail /\ SentOnce /\ BlamedOnce

\* What an owner's step tells the merge loop of its tests: nothing, that the
\* first of those left is finished, or whom a crash is blamed on.
NoVerdictOn(e) == e.kind = "report" => e.phase \notin {"teardown", "crash"}
Untold == UNCHANGED events \/ \E e \in Events : Post(<<e>>) /\ NoVerdictOn(e)
Finished(w) == \E e \in Events : Post(<<e>>) /\ Torn(e) /\ held[w] # << >> /\ e.test = Head(held[w])
Told(w) ==
    \E es \in Seq(Events) :
        /\ Post(es)
        /\ \A i \in DOMAIN es :
              \/ es[i].kind = "banner"
              \/ /\ i = 1 /\ es[i].kind = "report" /\ es[i].phase = "crash" /\ es[i].failed
                 /\ es[i].test \in Blamed(w)

LEMMA TellTold ==
    ASSUME Types, NEW w \in Worker, Tally(w), Tell(w)
    PROVE  Told(w) /\ Blamed(w)' = {}
<1> DEFINE v == verdict[w]
           f == Report(v.running[1], "crash", TRUE)
<1>1. /\ events' = events \o ((IF v.action # "silent" /\ v.running # << >> THEN <<f>> ELSE << >>)
                              \o (IF v.action = "abort" THEN <<Banner>> ELSE << >>))
      /\ pc[w] = "tell" /\ verdict' = [verdict EXCEPT ![w] = NoVerdict]
  BY DEF Tell, Post
<1>2. /\ v \in Verdicts /\ v.action # "none" /\ Len(v.running) <= 1 /\ verdict'[w] = NoVerdict
      /\ v.running \in Seq(Test)
  BY <1>1 DEF Types, OwnerTypes, Tally, OwnerSays, Verdicts, Batch
<1>3. v.action # "silent" /\ v.running # << >> =>
        /\ f \in Events /\ f.kind = "report" /\ f.phase = "crash" /\ f.failed /\ f.test \in Blamed(w)
  <2> SUFFICES ASSUME v.action # "silent", v.running # << >>
               PROVE  /\ f \in Events /\ f.kind = "report" /\ f.phase = "crash" /\ f.failed
                      /\ f.test \in Blamed(w)
    OBVIOUS
  <2>1. 1 \in DOMAIN v.running /\ v.running[1] \in Test
    BY <1>2
  <2>2. v.action \in {"replace", "abort"}
    BY <1>2 DEF Verdicts
  <2>3. v.running[1] \in Blamed(w)
    BY <2>1, <2>2 DEF Blamed
  <2> QED
    BY <2>1, <2>3, Built DEF Events, Report
<1>4. Banner \in Events /\ Banner.kind = "banner"
  BY DEF Events, Banner
<1> DEFINE good(es) == /\ es \in Seq(Events)
                       /\ \A i \in DOMAIN es :
                             \/ es[i].kind = "banner"
                             \/ /\ i = 1 /\ es[i].kind = "report" /\ es[i].phase = "crash" /\ es[i].failed
                                /\ es[i].test \in Blamed(w)
<1>5. PICK es : events' = events \o es /\ good(es)
  <2> HIDE DEF f, v
  <2>1. good(<< >> \o << >>) /\ good(<< >> \o <<Banner>>)
    BY <1>4
  <2>2. v.action # "silent" /\ v.running # << >> => good(<<f>> \o << >>) /\ good(<<f>> \o <<Banner>>)
    BY <1>3, <1>4
  <2> HIDE DEF good
  <2> QED
    BY <1>1, <2>1, <2>2
<1>6. Told(w)
  BY <1>5 DEF Told, Post
<1>7. Blamed(w)' = {}
  BY <1>2 DEF Blamed, NoVerdict
<1> QED
  BY <1>6, <1>7

LEMMA OwnerTells ==
    ASSUME Types, NEW w \in Worker, Tally(w), OwnerStep(w)
    PROVE  /\ UNCHANGED reports
           /\ \/ Untold /\ Blamed(w)' = Blamed(w)
              \/ Finished(w) /\ Blamed(w)' = Blamed(w)
              \/ Told(w) /\ Blamed(w)' = {}
              \/ UNCHANGED events /\ (held[w] = << >> => Blamed(w)' = {}) /\ Blamed(w)' \subseteq {Head(held[w])}
<1>a. events \in Seq(Events) /\ out \in [Worker -> Seq(Frames)] /\ verdict \in [Worker -> Verdicts]
  BY DEF Types, OwnerTypes, PipeTypes
<1>b. UNCHANGED reports
  BY OwnerMerge DEF mergeVars
<1>d. UNCHANGED verdict => Blamed(w)' = Blamed(w)
  BY DEF Blamed
<1>1. CASE Tell(w)
  BY <1>1, <1>b, TellTold
<1>2. CASE Book(w)
  <2> DEFINE running == IF held[w] = << >> THEN << >> ELSE <<Head(held[w])>>
  <2>1. UNCHANGED events /\ \E a, b : verdict' = [verdict EXCEPT ![w] = [action |-> a, running |-> running, replace |-> b]]
    BY <1>2 DEF Book
  <2>2. verdict'[w].running = running
    BY <1>a, <2>1
  <2>3. Blamed(w)' \subseteq {running[i] : i \in DOMAIN running}
    BY <2>2 DEF Blamed
  <2> QED
    BY <1>b, <2>1, <2>3
<1>3. CASE ReadReport(w)
  <2> DEFINE r == Head(out[w])
  <2>1. /\ pc[w] = "read" /\ Post(<<r>>) /\ UNCHANGED verdict /\ out[w] # << >>
        /\ r = out[w][1] /\ 1 \in DOMAIN out[w] /\ r.kind = "report" /\ r \in Frames
    BY <1>a, <1>3 DEF ReadReport, Frame
  <2>2. r.phase # "crash"
    BY <2>1 DEF Tally, NoBlame
  <2>3. Torn(r) => held[w] # << >> /\ r.test = Head(held[w])
    BY <1>3, ReportStrikes
  <2> HIDE DEF r
  <2>4. r \in Events
    BY <2>1, Kinds DEF Events
  <2>5. Untold \/ Finished(w)
    BY <2>1, <2>2, <2>3, <2>4 DEF Untold, Finished, NoVerdictOn, Torn
  <2> QED
    BY <1>b, <1>d, <2>1, <2>5
<1>4. CASE StartForked(w) \/ StartSpawned(w) \/ CollectEof(w)
  <2>1. UNCHANGED verdict /\ (UNCHANGED events \/ Post(<<Collection(<< >>)>>))
    BY <1>4 DEF StartForked, StartSpawned, CollectEof
  <2>2. Collection(<< >>) \in Events /\ Collection(<< >>).kind = "collection"
    BY Built DEF Events, Collection
  <2> QED
    BY <1>b, <1>d, <2>1, <2>2 DEF Untold, NoVerdictOn
<1>5. CASE CollectFrame(w) \/ ReadInterrupted(w) \/ DrainReport(w)
  <2>1. /\ UNCHANGED verdict /\ Post(<<Head(out[w])>>) /\ out[w] # << >>
        /\ Head(out[w]).kind \in {"collection", "interrupted"} \/ (pc[w] = "drain" /\ Head(out[w]).kind = "report")
    BY <1>5 DEF CollectFrame, ReadInterrupted, DrainReport, Frame, ownerVars
  <2>2. Head(out[w]) \in Events
    <3>1. Head(out[w]) \in Frames
      BY <1>a, <2>1
    <3> QED
      BY <2>1, <3>1, Kinds DEF Events
  <2>3. NoVerdictOn(Head(out[w]))
    <3>1. 1 \in DOMAIN out[w] /\ Head(out[w]) = out[w][1]
      BY <1>a, <2>1
    <3>2. pc[w] = "drain" => Quiet(w)
      BY DEF Tally, Working
    <3> QED
      BY <2>1, <3>1, <3>2 DEF Tally, NoBlame, Quiet, Torn, NoVerdictOn
  <2> QED
    BY <1>b, <1>d, <2>1, <2>2, <2>3 DEF Untold
<1>6. CASE UNCHANGED <<verdict, events>>
  BY <1>6, <1>b, <1>d DEF Untold
<1>7. NextBatch(w) \/ NoMoreBatches(w) \/ SendRun(w) \/ ReadDone(w) \/ WaitStop(w) \/ ReadEof(w)
        \/ Absorb(w) \/ DrainBye(w) \/ DrainEof(w) \/ Reap(w) => UNCHANGED <<verdict, events>>
  BY DEF NextBatch, NoMoreBatches, SendRun, ReadDone, WaitStop, ReadEof, Absorb, DrainBye, DrainEof, Reap
<1> QED
  BY <1>1, <1>2, <1>3, <1>4, <1>5, <1>6, <1>7 DEF OwnerStep

\* A step that says nothing new of a crash.
LEMMA UntoldSent ==
    ASSUME Types, UNCHANGED reports, Untold
    PROVE  /\ \A t \in Test, p \in {"teardown", "crash"} : Sent(t, p)' = Sent(t, p)
           /\ Settled("crash")' = Settled("crash")
           /\ CrashesFail => CrashesFail'
<1>a. events \in Seq(Events) /\ \A i \in DOMAIN events : events[i] \in Events
  BY DEF Types
<1>1. CASE UNCHANGED events
  BY <1>1, SentKept, SettledKept DEF CrashesFail, Fails
<1>2. ASSUME NEW e \in Events, Post(<<e>>), NoVerdictOn(e)
      PROVE  /\ \A t \in Test, p \in {"teardown", "crash"} : Sent(t, p)' = Sent(t, p)
             /\ Settled("crash")' = Settled("crash")
             /\ CrashesFail => CrashesFail'
  <2>1. PICK es : es = <<e>>
    OBVIOUS
  <2>2. es \in Seq(Events) /\ Post(es) /\ \A i \in DOMAIN es : es[i] = e
    BY <1>2, <2>1
  <2>3. \A t \in Test, p \in {"teardown", "crash"} : \A i \in DOMAIN es : ~IsReport(es[i], t, p)
    BY <1>2, <2>2 DEF NoVerdictOn, IsReport
  <2>4. ASSUME NEW t \in Test, NEW p \in {"teardown", "crash"} PROVE Sent(t, p)' = Sent(t, p)
    <3>1. Sent(t, p)' = Sent(t, p) + Cardinality(Places(es, t, p))
      BY <2>2, SentPosted
    <3>2. Cardinality(Places(es, t, p)) = 0
      BY <2>3, PlacesNone
    <3> QED
      BY <3>1, <3>2, SentType
  <2>5. Settled("crash")' = Settled("crash")
    BY <1>2, <1>a, NeutralPosted DEF NoVerdictOn, Neutral
  <2>6. CrashesFail => CrashesFail'
    <3>1. \A i \in DOMAIN events' : (i \in DOMAIN events /\ events'[i] = events[i]) \/ events'[i] = e
      <4>1. events' = events \o es
        BY <2>2 DEF Post
      <4> QED
        BY <1>a, <2>2, <4>1, InConcat
    <3>2. Fails(e)
      BY <1>2 DEF NoVerdictOn, Fails
    <3> QED
      BY <3>1, <3>2 DEF CrashesFail, Fails
  <2> QED
    BY <2>4, <2>5, <2>6
<1> QED
  BY <1>1, <1>2 DEF Untold

\* The first of the tests left has no verdict yet: its teardown is its first.
LEMMA FinishedSent ==
    ASSUME Types, SettledApart, Once, UNCHANGED reports, NEW w \in Worker, Finished(w)
    PROVE  CrashesFail' /\ SentOnce' /\ Settled("crash")' = Settled("crash")
<1>a. events \in Seq(Events)
  BY DEF Types
<1>1. PICK e \in Events : Post(<<e>>) /\ Torn(e) /\ held[w] # << >> /\ e.test = Head(held[w])
  BY DEF Finished
<1>2. PICK es : es = <<e>>
  OBVIOUS
<1>3. es \in Seq(Events) /\ Post(es) /\ \A i \in DOMAIN es : es[i] = e
  BY <1>1, <1>2
<1>4. e.test \in Test /\ e.test \notin Settled("teardown")
  BY <1>1, HeadPending DEF SettledApart
<1>5. \A t, p : Cardinality(Places(es, t, p)) = IF IsReport(e, t, p) THEN 1 ELSE 0
  BY <1>2, PlacesOne
<1>6. \A t \in Test, p \in {"teardown", "crash"} :
        Sent(t, p)' = Sent(t, p) + IF IsReport(e, t, p) THEN 1 ELSE 0
  <2>1. \A t, p : Sent(t, p)' = Sent(t, p) + Cardinality(Places(es, t, p))
    BY <1>3, SentPosted
  <2> QED
    BY <1>5, <2>1
<1>7. ASSUME NEW t \in Test PROVE Sent(t, "teardown")' <= 1 /\ Sent(t, "crash")' <= 1
  <2>1. /\ Sent(t, "teardown") \in Nat /\ Sent(t, "crash") \in Nat
        /\ Sent(t, "teardown") <= 1 /\ Sent(t, "crash") <= 1
    BY SentType DEF Once, SentOnce
  <2>2. ~IsReport(e, t, "crash") /\ (IsReport(e, t, "teardown") => t = e.test)
    BY <1>1 DEF IsReport, Torn
  <2>3. t = e.test => Sent(t, "teardown") = 0
    BY <1>4, SentType
  <2> QED
    BY <1>6, <2>1, <2>2, <2>3
<1>8. Settled("crash")' = Settled("crash")
  <2>1. Settled("crash")' = Settled("crash") \cup {t \in Test : \E i \in DOMAIN es : IsReport(es[i], t, "crash")}
    BY <1>a, <1>3, SettledPosted
  <2>2. \A t : \A i \in DOMAIN es : ~IsReport(es[i], t, "crash")
    BY <1>1, <1>3 DEF IsReport, Torn
  <2> QED
    BY <2>1, <2>2
<1>9. CrashesFail'
  <2>1. events' = events \o es
    BY <1>3 DEF Post
  <2>2. \A i \in DOMAIN events' : (i \in DOMAIN events /\ events'[i] = events[i]) \/ events'[i] = e
    BY <1>a, <1>3, <2>1, InConcat
  <2>3. Fails(e)
    BY <1>1 DEF Fails, Torn
  <2> QED
    BY <2>2, <2>3 DEF Once, CrashesFail, Fails
<1> QED
  BY <1>7, <1>8, <1>9 DEF SentOnce

\* Whom an owner blames, it alone blames, and once.
LEMMA ToldSent ==
    ASSUME Types, Once, UNCHANGED reports, NEW w \in Worker, Told(w)
    PROVE  CrashesFail' /\ SentOnce' /\ Settled("crash")' \subseteq Settled("crash") \cup Blamed(w)
<1>a. events \in Seq(Events)
  BY DEF Types
<1>1. PICK es \in Seq(Events) :
        /\ Post(es)
        /\ \A i \in DOMAIN es :
              \/ es[i].kind = "banner"
              \/ /\ i = 1 /\ es[i].kind = "report" /\ es[i].phase = "crash" /\ es[i].failed
                 /\ es[i].test \in Blamed(w)
  BY DEF Told
<1>2. \A t, p : Sent(t, p)' = Sent(t, p) + Cardinality(Places(es, t, p))
  BY <1>1, SentPosted
<1>3. \A t, p : \A i \in DOMAIN es : IsReport(es[i], t, p) => i = 1 /\ p = "crash" /\ t \in Blamed(w)
  BY <1>1 DEF IsReport
<1>4. ASSUME NEW t \in Test PROVE Sent(t, "teardown")' <= 1 /\ Sent(t, "crash")' <= 1
  <2>1. /\ Sent(t, "teardown") \in Nat /\ Sent(t, "crash") \in Nat
        /\ Sent(t, "teardown") <= 1 /\ Sent(t, "crash") <= 1
    BY SentType DEF Once, SentOnce
  <2>2. Cardinality(Places(es, t, "teardown")) = 0
    BY <1>3, PlacesNone
  <2>3. CASE t \notin Blamed(w)
    <3>1. Cardinality(Places(es, t, "crash")) = 0
      BY <1>3, <2>3, PlacesNone
    <3> QED
      BY <1>2, <2>1, <2>2, <3>1
  <2>4. CASE t \in Blamed(w)
    <3>1. Sent(t, "crash") = 0
      BY <2>4, SentType DEF Once, BlamedOnce
    <3>2. Places(es, t, "crash") \subseteq {1}
      BY <1>3 DEF Places
    <3>3. Cardinality(Places(es, t, "crash")) \in {0, 1}
      <4>1. Places(es, t, "crash") = {} \/ Places(es, t, "crash") = {1}
        BY <3>2
      <4> QED
        BY <4>1, FS_EmptySet, FS_Singleton
    <3> QED
      BY <1>2, <2>1, <2>2, <3>1, <3>3
  <2> QED
    BY <2>3, <2>4
<1>5. Settled("crash")' \subseteq Settled("crash") \cup Blamed(w)
  <2>1. Settled("crash")' = Settled("crash") \cup {t \in Test : \E i \in DOMAIN es : IsReport(es[i], t, "crash")}
    BY <1>a, <1>1, SettledPosted
  <2> QED
    BY <1>3, <2>1
<1>6. CrashesFail'
  <2>1. events' = events \o es
    BY <1>1 DEF Post
  <2>2. \A i \in DOMAIN events' :
          \/ i \in DOMAIN events /\ events'[i] = events[i]
          \/ i - Len(events) \in DOMAIN es /\ events'[i] = es[i - Len(events)]
    BY <1>a, <1>1, <2>1, InConcat
  <2>3. \A i \in DOMAIN es : Fails(es[i])
    BY <1>1 DEF Fails
  <2> QED
    BY <2>2, <2>3 DEF Once, CrashesFail, Fails
<1> QED
  BY <1>4, <1>5, <1>6 DEF SentOnce

LEMMA OwnerOnce ==
    ASSUME Types, SettledApart, Once, NEW w \in Worker, Tally(w), OwnerStep(w)
    PROVE  Once'
<1>1. /\ UNCHANGED reports
      /\ \A v \in Worker : v # w => Blamed(v)' = Blamed(v)
  BY OwnerTells, OwnerSeen
<1>2. \A v \in Worker : /\ Blamed(v) \cap Settled("crash") = {}
                        /\ \A u \in Worker : u # v => Blamed(v) \cap Blamed(u) = {}
  BY DEF Once, BlamedOnce
<1>3. CASE Untold /\ Blamed(w)' = Blamed(w)
  <2>1. /\ \A t \in Test, p \in {"teardown", "crash"} : Sent(t, p)' = Sent(t, p)
        /\ Settled("crash")' = Settled("crash") /\ CrashesFail'
    BY <1>1, <1>3, UntoldSent DEF Once
  <2>2. \A v \in Worker : Blamed(v)' = Blamed(v)
    BY <1>1, <1>3
  <2> QED
    BY <2>1, <2>2 DEF Once, SentOnce, BlamedOnce
<1>4. CASE Finished(w) /\ Blamed(w)' = Blamed(w)
  <2>1. CrashesFail' /\ SentOnce' /\ Settled("crash")' = Settled("crash")
    BY <1>1, <1>4, FinishedSent
  <2>2. \A v \in Worker : Blamed(v)' = Blamed(v)
    BY <1>1, <1>4
  <2> QED
    BY <2>1, <2>2 DEF Once, BlamedOnce
<1>5. CASE Told(w) /\ Blamed(w)' = {}
  <2>1. CrashesFail' /\ SentOnce' /\ Settled("crash")' \subseteq Settled("crash") \cup Blamed(w)
    BY <1>1, <1>5, ToldSent
  <2>2. \A v \in Worker : Blamed(v)' = IF v = w THEN {} ELSE Blamed(v)
    BY <1>1, <1>5
  <2>3. BlamedOnce'
    <3>1. \A v \in Worker : v # w => Blamed(v) \cap Blamed(w) = {}
      BY <1>2
    <3> QED
      BY <1>2, <2>1, <2>2, <3>1 DEF BlamedOnce
  <2> QED
    BY <2>1, <2>3 DEF Once
<1>6. CASE UNCHANGED events /\ (held[w] = << >> => Blamed(w)' = {}) /\ Blamed(w)' \subseteq {Head(held[w])}
  <2>1. Untold
    BY <1>6 DEF Untold
  <2>2. /\ \A t \in Test, p \in {"teardown", "crash"} : Sent(t, p)' = Sent(t, p)
        /\ Settled("crash")' = Settled("crash") /\ CrashesFail'
    BY <1>1, <2>1, UntoldSent DEF Once
  <2>3. Blamed(w)' \cap CrashFailed = {}
    <3>1. held[w] # << >> => Head(held[w]) \notin CrashFailed
      BY HeadPending DEF SettledApart
    <3> QED
      BY <1>6, <3>1
  <2>4. Settled("crash") \subseteq CrashFailed /\ \A v \in Worker : Blamed(v) \subseteq CrashFailed
    BY DEF CrashFailed
  <2>5. \A v \in Worker : v # w => Blamed(v)' \cap Blamed(w)' = {}
    BY <1>1, <2>3, <2>4
  <2>6. BlamedOnce'
    BY <1>1, <1>2, <2>2, <2>3, <2>4, <2>5 DEF BlamedOnce
  <2> QED
    BY <2>2, <2>6 DEF Once, SentOnce
<1> QED
  BY <1>3, <1>4, <1>5, <1>6, OwnerTells

\* The merge loop files what it has received.
LEMMA MergeFiles ==
    ASSUME Types, MergeStep
    PROVE  /\ UNCHANGED verdict
           /\ \/ UNCHANGED <<events, reports>>
              \/ /\ events # << >> /\ Received
                 /\ \/ Head(events).kind = "report" /\ reports' = reports (+) SetToBag({Head(events)})
                    \/ Head(events).kind # "report" /\ UNCHANGED reports
<1>1. CASE MergeCount \/ MergeEnd
  BY <1>1 DEF MergeCount, MergeEnd, MergeOnly, ownerVars
<1>2. CASE MergeFirst \/ MergeSame \/ MergeDifferent \/ MergeInterrupted \/ MergeBanner
  BY <1>2 DEF MergeFirst, MergeSame, MergeDifferent, MergeInterrupted, MergeBanner, MergeOnly, Event, ownerVars
<1>3. CASE MergeReport
  BY <1>3 DEF MergeReport, MergeOnly, Event, ownerVars
<1> QED
  BY <1>1, <1>2, <1>3 DEF MergeStep

LEMMA MergeOnce ==
    ASSUME Types, Once, MergeStep
    PROVE  Once'
<1>1. UNCHANGED verdict
  BY MergeFiles
<1>2. \A v \in Worker : Blamed(v)' = Blamed(v)
  BY <1>1 DEF Blamed
<1>3. CASE UNCHANGED <<events, reports>>
  BY <1>2, <1>3, SentKept, SettledKept DEF Once, CrashesFail, Fails, SentOnce, BlamedOnce
<1>4. CASE /\ events # << >> /\ Received
           /\ \/ Head(events).kind = "report" /\ reports' = reports (+) SetToBag({Head(events)})
              \/ Head(events).kind # "report" /\ UNCHANGED reports
  <2>a. events \in Seq(Events) /\ IsABag(reports)
    BY DEF Types, MergeTypes
  <2>1. \A t, p : Sent(t, p)' = Sent(t, p)
    BY <1>4, SentReceived
  <2>2. Settled("crash")' = Settled("crash")
    BY <1>4, <2>a, SettledReceived
  <2>3. CrashesFail'
    <3>1. Fails(Head(events)) /\ \A i \in DOMAIN Tail(events) : Fails(Tail(events)[i])
      <4>1. 1 \in DOMAIN events /\ Head(events) = events[1]
        BY <1>4, <2>a
      <4>2. \A i \in DOMAIN Tail(events) : i + 1 \in DOMAIN events /\ Tail(events)[i] = events[i + 1]
        BY <1>4, <2>a
      <4> QED
        BY <4>1, <4>2 DEF Once, CrashesFail
    <3>2. BagToSet(reports') \subseteq BagToSet(reports) \cup {Head(events)}
      BY <1>4 DEF BagToSet, (+), SetToBag
    <3> QED
      BY <1>4, <3>1, <3>2 DEF Once, CrashesFail, Fails, Received
  <2> QED
    BY <1>2, <2>1, <2>2, <2>3 DEF Once, SentOnce, BlamedOnce
<1> QED
  BY <1>3, <1>4, MergeFiles

LEMMA NextOnce ==
    ASSUME Types, Ledger, SettledApart, Once, [Next]_vars
    PROVE  Once'
<1>1. CASE UNCHANGED <<queueVars, ownerVars, events, mergeVars>>
  <2>1. \A v \in Worker : Blamed(v)' = Blamed(v)
    BY <1>1 DEF Blamed, ownerVars
  <2>2. UNCHANGED <<events, reports>>
    BY <1>1 DEF mergeVars
  <2> QED
    BY <2>1, <2>2, SentKept, SettledKept DEF Once, CrashesFail, Fails, SentOnce, BlamedOnce
<1>2. UNCHANGED vars => UNCHANGED <<queueVars, ownerVars, events, mergeVars>>
  BY DEF vars
<1>3. ASSUME NEW w \in Worker, OwnerStep(w) PROVE Once'
  BY <1>3, OwnerOnce DEF Ledger
<1> QED
  BY <1>1, <1>2, <1>3, WorkerApart, MergeOnce DEF Next, Terminated

LEMMA InitOnce == Init => Once
<1> SUFFICES ASSUME Init PROVE Once
  OBVIOUS
<1>1. /\ \A w \in Worker : Blamed(w) = {}
      /\ events = << >> /\ reports = EmptyBag
  BY DEF Init, Blamed, NoVerdict
<1>2. BagToSet(reports) = {} /\ DOMAIN events = {}
  BY <1>1 DEF BagToSet, EmptyBag, SetToBag
<1>3. Types
  BY InitTypes
<1>4. \A t \in Test : \A p : Sent(t, p) = 0
  <2>1. \A p : Settled(p) = {}
    BY <1>2 DEF Settled
  <2> QED
    BY <1>3, <2>1, SentType
<1> QED
  BY <1>1, <1>2, <1>4 DEF Once, CrashesFail, SentOnce, BlamedOnce

LEMMA SettledApartAlways == Spec => []SettledApart
BY SchedulerInvariant, SchedulerApart, PTL

LEMMA OnceAlways == Spec => []Once
<1>1. Init => Once
  BY InitOnce
<1>2. Types /\ Ledger /\ SettledApart /\ Once /\ [Next]_vars => Once'
  BY NextOnce
<1> QED
  BY <1>1, <1>2, Typed, Accounts, SettledApartAlways, PTL DEF Spec

\* However many workers there are and whoever dies when, no test has two
\* verdicts: its worker and the replacement its batch was requeued to never
\* both finish it, and it is not failed for a crash it survived.
THEOREM DistOneVerdict == Spec => []OneVerdict
<1>1. Types /\ SettledApart /\ Once => OneVerdict
  <2> SUFFICES ASSUME Types, SettledApart, Once, NEW t \in Test
               PROVE  Sent(t, "teardown") + Sent(t, "crash") <= 1
    BY DEF OneVerdict
  <2>1. /\ Sent(t, "teardown") \in Nat /\ Sent(t, "crash") \in Nat
        /\ Sent(t, "teardown") <= 1 /\ Sent(t, "crash") <= 1
    BY SentType DEF Once, SentOnce
  <2>2. t \notin Settled("teardown") \/ t \notin Settled("crash")
    BY DEF SettledApart, CrashFailed
  <2>3. Sent(t, "teardown") = 0 \/ Sent(t, "crash") = 0
    BY <2>2, SentType
  <2> QED
    BY <2>1, <2>3
<1> QED
  BY <1>1, Typed, SettledApartAlways, OnceAlways, PTL

-----------------------------------------------------------------------------
(* What a stop, an abort and the end of the run leave to be seen.          *)

\* Whoever stops the queue leaves a mark on the exit code.
StopMarked ==
    /\ softStopped => merge.hit \/ merge.override # None
    /\ ~merge.hit => merge.override \in {None, TESTS_FAILED}

BannerComing == \E i \in DOMAIN events : events[i].kind = "banner"
Aborting(w) == pc[w] = "tell" /\ verdict[w].action = "abort"

\* Who aborts says so.
AbortTold == aborted => merge.banner \/ BannerComing \/ \E w \in Worker : Aborting(w)

\* Nothing happens after the end.
EndedWell ==
    exit # None => exit = ExitCode /\ events = << >> /\ merge.at = "recv" /\ Over

Marks == StopMarked /\ AbortTold /\ EndedWell

\* What is posted does not take away what was.
LEMMA PostedBanner ==
    ASSUME events \in Seq(Events), NEW es, es \in Seq(Events), Post(es)
    PROVE  /\ BannerComing => BannerComing'
           /\ (\E i \in DOMAIN es : es[i].kind = "banner") => BannerComing'
<1>1. /\ \A i \in DOMAIN events : i \in DOMAIN events' /\ events'[i] = events[i]
      /\ \A i \in DOMAIN es : Len(events) + i \in DOMAIN events' /\ events'[Len(events) + i] = es[i]
  BY DEF Post
<1> QED
  BY <1>1 DEF BannerComing

LEMMA TellBanner ==
    ASSUME Types, NEW w \in Worker, Tell(w)
    PROVE  /\ BannerComing => BannerComing'
           /\ verdict[w].action = "abort" => BannerComing'
<1> DEFINE v == verdict[w]
           failure == IF v.action # "silent" /\ v.running # << >>
                      THEN <<Report(v.running[1], "crash", TRUE)>> ELSE << >>
           banner == IF v.action = "abort" THEN <<Banner>> ELSE << >>
<1>1. events \in Seq(Events) /\ v \in Verdicts
  BY DEF Types, OwnerTypes
<1>2. Post(failure \o banner)
  BY DEF Tell
<1>3. v.running # << >> => v.running[1] \in Test
  BY <1>1 DEF Verdicts, Batch
<1>4. failure \in Seq(Events)
  <2>1. PICK x : x = Report(v.running[1], "crash", TRUE)
    OBVIOUS
  <2>2. v.running # << >> => x \in Events
    BY <1>3, <2>1, Built, Zenon DEF Events
  <2>3. failure = << >> \/ (failure = <<x>> /\ v.running # << >>)
    BY <2>1
  <2> HIDE DEF failure, v
  <2>4. failure = <<x>> /\ v.running # << >> => failure \in Seq(Events)
    BY <2>2
  <2>5. failure = << >> => failure \in Seq(Events)
    OBVIOUS
  <2> QED
    BY <2>3, <2>4, <2>5, Zenon
<1>5. banner \in Seq(Events) /\ (v.action = "abort" => banner[1].kind = "banner" /\ 1 \in DOMAIN banner)
  <2>1. PICK x : x = Banner
    OBVIOUS
  <2>2. x \in Events /\ x.kind = "banner"
    BY <2>1 DEF Events, Banner
  <2>3. banner = IF v.action = "abort" THEN <<x>> ELSE << >>
    BY <2>1
  <2> HIDE DEF banner
  <2> QED
    BY <2>2, <2>3
<1> DEFINE es == failure \o banner
<1>6. es \in Seq(Events) /\ (v.action = "abort" => \E i \in DOMAIN es : es[i].kind = "banner")
  <2> HIDE DEF failure, banner, v
  <2>1. es \in Seq(Events) /\ \A i \in DOMAIN banner : Len(failure) + i \in DOMAIN es /\ es[Len(failure) + i] = banner[i]
    BY <1>4, <1>5
  <2> QED
    BY <1>5, <2>1
<1>7. Post(es)
  BY <1>2
<1> HIDE DEF es
<1>8. /\ BannerComing => BannerComing'
      /\ (\E i \in DOMAIN es : es[i].kind = "banner") => BannerComing'
  BY <1>1, <1>6, <1>7, PostedBanner
<1> QED
  BY <1>6, <1>8

\* An owner's other steps post nothing, or one event.
LEMMA OwnerBanner ==
    ASSUME Types, NEW w \in Worker, OwnerStep(w)
    PROVE  BannerComing => BannerComing'
<1>a. events \in Seq(Events) /\ out \in [Worker -> Seq(Frames)]
  BY DEF Types, PipeTypes
<1>1. UNCHANGED events => (BannerComing => BannerComing')
  BY DEF BannerComing
<1>2. \A e \in Events : Post(<<e>>) => (BannerComing => BannerComing')
  <2> TAKE e \in Events
  <2>1. PICK es : es = <<e>>
    OBVIOUS
  <2>2. es \in Seq(Events)
    BY <2>1
  <2> QED
    BY <1>a, <2>1, <2>2, PostedBanner
<1>3. CASE Tell(w)
  BY <1>3, TellBanner
<1>4. CASE ReadReport(w) \/ DrainReport(w) \/ ReadInterrupted(w) \/ CollectFrame(w)
  <2>1. Post(<<Head(out[w])>>) /\ out[w] # << >> /\ Head(out[w]).kind \in {"report", "interrupted", "collection"}
    BY <1>4 DEF ReadReport, DrainReport, ReadInterrupted, CollectFrame, Frame
  <2>2. Head(out[w]) \in Frames
    BY <1>a, <2>1
  <2>3. Head(out[w]) \in Events
    BY <2>1, <2>2, Kinds DEF Events
  <2> QED
    BY <1>2, <2>1, <2>3
<1>5. Collection(<< >>) \in Events
  BY DEF Events, Collections, Collection
<1>6. CASE StartForked(w) \/ StartSpawned(w) \/ CollectEof(w)
  BY <1>1, <1>2, <1>5, <1>6 DEF StartForked, StartSpawned, CollectEof
<1> QED
  BY <1>1, <1>3, <1>4, <1>6 DEF OwnerStep, NextBatch, NoMoreBatches, SendRun, ReadDone, WaitStop, ReadEof, Book, Absorb,
     DrainBye, DrainEof, Reap

LEMMA OwnVerdict ==
    ASSUME Types, NEW w \in Worker, NEW v \in Worker, v # w, OwnerStep(w)
    PROVE  verdict'[v] = verdict[v]
BY DEF Types, OwnerTypes, OwnerStep, StartForked, StartSpawned, CollectFrame, CollectEof, NextBatch,
   NoMoreBatches, SendRun, ReadReport, ReadDone, ReadInterrupted, WaitStop, ReadEof, Book, Tell, Absorb,
   DrainReport, DrainBye, DrainEof, Reap, ownerVars

LEMMA OwnerMarks ==
    ASSUME Types, Marks, NEW w \in Worker, OwnerStep(w)
    PROVE  Marks'
<1>1. UNCHANGED mergeVars
  BY OwnerMerge
<1>2. StopMarked'
  <2>1. softStopped' = softStopped
    BY DEF OwnerStep, StartForked, StartSpawned, CollectFrame, CollectEof, NextBatch, NoMoreBatches,
       SendRun, ReadReport, ReadDone, ReadInterrupted, WaitStop, ReadEof, Book, Tell, Absorb,
       DrainReport, DrainBye, DrainEof, Reap, TakeBatch, NoBatch, CrashSilent, CrashReplace, CrashAbort, queueVars
  <2> QED
    BY <1>1, <2>1 DEF Marks, StopMarked, mergeVars
<1>3. EndedWell'
  <2>1. pc[w] \notin {"end", "lost"}
    BY DEF OwnerStep, StartForked, StartSpawned, CollectFrame, CollectEof, NextBatch, NoMoreBatches,
       SendRun, ReadReport, ReadDone, ReadInterrupted, WaitStop, ReadEof, Book, Tell, Absorb,
       DrainReport, DrainBye, DrainEof, Reap
  <2>2. exit = None
    BY <2>1 DEF Marks, EndedWell, Over
  <2> QED
    BY <1>1, <2>2 DEF EndedWell, mergeVars
<1>4. AbortTold'
  <2> SUFFICES ASSUME aborted' PROVE merge'.banner \/ BannerComing' \/ \E v \in Worker : Aborting(v)'
    BY DEF AbortTold
  <2>1. merge' = merge
    BY <1>1 DEF mergeVars
  <2>2. CASE aborted
    <3>1. CASE merge.banner \/ BannerComing
      BY <2>1, <3>1, OwnerBanner
    <3>2. CASE \E v \in Worker : Aborting(v)
      <4>1. PICK v \in Worker : Aborting(v)
        BY <3>2
      <4>2. CASE v # w
        <5>1. pc'[v] = pc[v]
          BY <4>2, OwnSlot
        <5>2. verdict'[v] = verdict[v]
          BY <4>2, OwnVerdict
        <5> QED
          BY <4>1, <5>1, <5>2 DEF Aborting
      <4>3. CASE v = w
        <5>1. Tell(w)
          BY <4>1, <4>3 DEF Aborting, OwnerStep, StartForked, StartSpawned, CollectFrame, CollectEof, NextBatch,
             NoMoreBatches, SendRun, ReadReport, ReadDone, ReadInterrupted, WaitStop, ReadEof, Book, Absorb,
             DrainReport, DrainBye, DrainEof, Reap
        <5> QED
          BY <4>1, <4>3, <5>1, TellBanner DEF Aborting
      <4> QED
        BY <4>2, <4>3
    <3> QED
      BY <2>2, <3>1, <3>2 DEF Marks, AbortTold
  <2>3. CASE ~aborted
    <3>1. Book(w) /\ CrashAbort /\ verdict' = [verdict EXCEPT ![w] =
            [action |-> "abort", running |-> IF held[w] = << >> THEN << >> ELSE <<Head(held[w])>>,
             replace |-> pc[w] = "crashed"]]
      <4>1. Book(w)
        BY <2>3 DEF OwnerStep, StartForked, StartSpawned, CollectFrame, CollectEof, NextBatch, NoMoreBatches,
           SendRun, ReadReport, ReadDone, ReadInterrupted, WaitStop, ReadEof, Tell, Absorb,
           DrainReport, DrainBye, DrainEof, Reap, TakeBatch, NoBatch, queueVars
      <4> QED
        BY <2>3, <4>1 DEF Book, CrashSilent, CrashReplace
    <3>2. pc'[w] = "tell" /\ verdict'[w].action = "abort"
      BY <3>1 DEF Book, Goto, Types, OwnerTypes
    <3> QED
      BY <3>2 DEF Aborting
  <2> QED
    BY <2>2, <2>3
<1> QED
  BY <1>2, <1>3, <1>4 DEF Marks

LEMMA MergeMarks ==
    ASSUME Types, Marks, MergeStep
    PROVE  Marks'
<1> DEFINE Fields == [at : {"recv", "count"}, pending : 0 .. NumWorkers, got : BOOLEAN,
                      first : CollectChoices \cup {<< >>}, failed : Nat, hit : BOOLEAN,
                      override : Int \cup {None}, banner : BOOLEAN]
<1>a. /\ merge \in Fields /\ events \in Seq(Events) /\ None \notin Int
      /\ exit \in Int \cup {None}
  BY DistAssumption DEF Types, MergeTypes
<1>1. StopMarked'
  <2>1. CASE MergeDifferent
    <3>1. merge'.override = TESTS_FAILED /\ merge'.hit = merge.hit
      BY <1>a, <2>1 DEF MergeDifferent, Counting
    <3> QED
      BY <1>a, <3>1 DEF StopMarked, TESTS_FAILED
  <2>2. CASE MergeReport
    <3>1. /\ merge.hit => merge'.hit
          /\ merge'.override = merge.override
          /\ merge'.hit \/ (softStopped' = softStopped /\ ~merge.hit)
      BY <1>a, <2>2 DEF MergeReport, Stop, queueVars
    <3> QED
      BY <3>1 DEF Marks, StopMarked
  <2>3. CASE MergeInterrupted
    <3>1. merge'.hit
      BY <1>a, <2>3 DEF MergeInterrupted
    <3> QED
      BY <3>1 DEF StopMarked
  <2>4. CASE MergeFirst \/ MergeSame \/ MergeCount \/ MergeBanner \/ MergeEnd
    <3>1. merge'.hit = merge.hit /\ merge'.override = merge.override /\ softStopped' = softStopped
      BY <1>a, <2>4 DEF MergeFirst, MergeSame, MergeCount, MergeBanner, MergeEnd, Counting, PushBatches, queueVars
    <3> QED
      BY <3>1 DEF Marks, StopMarked
  <2> QED
    BY <2>1, <2>2, <2>3, <2>4 DEF MergeStep
<1>2. EndedWell'
  <2>1. CASE MergeEnd
    BY <2>1 DEF MergeEnd, EndedWell, ExitCode, Failures, Over, ownerVars
  <2>2. CASE ~MergeEnd
    <3>1. events # << >> \/ merge.at = "count"
      BY <2>2 DEF MergeStep, MergeFirst, MergeSame, MergeDifferent, MergeCount, MergeReport,
         MergeInterrupted, MergeBanner, Event
    <3>2. exit = None
      BY <3>1 DEF Marks, EndedWell
    <3>3. exit' = exit
      BY <2>2 DEF MergeStep, MergeFirst, MergeSame, MergeDifferent, MergeCount, MergeReport,
         MergeInterrupted, MergeBanner, MergeOnly
    <3> QED
      BY <3>2, <3>3 DEF EndedWell
  <2> QED
    BY <2>1, <2>2
<1>3. AbortTold'
  <2> SUFFICES ASSUME aborted' PROVE merge'.banner \/ BannerComing' \/ \E v \in Worker : Aborting(v)'
    BY DEF AbortTold
  <2>1. aborted /\ \A v \in Worker : Aborting(v)' <=> Aborting(v)
    BY DEF MergeStep, MergeFirst, MergeSame, MergeDifferent, MergeCount, MergeReport, MergeInterrupted,
       MergeBanner, MergeEnd, MergeOnly, Stop, PushBatches, queueVars, ownerVars, Aborting
  <2>2. merge.banner => merge'.banner
    BY <1>a DEF MergeStep, MergeFirst, MergeSame, MergeDifferent, MergeCount, MergeReport, MergeInterrupted,
       MergeBanner, MergeEnd, Counting
  <2>3. BannerComing => BannerComing' \/ merge'.banner
    <3> SUFFICES ASSUME BannerComing PROVE BannerComing' \/ merge'.banner
      OBVIOUS
    <3>1. PICK i \in DOMAIN events : events[i].kind = "banner"
      BY DEF BannerComing
    <3>2. CASE MergeCount \/ MergeEnd
      BY <3>2 DEF BannerComing, MergeCount, MergeEnd
    <3>3. CASE ~MergeCount /\ ~MergeEnd
      <4>a. Received /\ events # << >>
        BY <3>3 DEF MergeStep, MergeFirst, MergeSame, MergeDifferent, MergeReport, MergeInterrupted,
           MergeBanner, Event
      <4>1. CASE i = 1
        <5>1. Head(events).kind = "banner"
          BY <1>a, <3>1, <4>1
        <5>2. MergeBanner
          BY <3>3, <5>1 DEF MergeStep, MergeFirst, MergeSame, MergeDifferent, MergeReport,
             MergeInterrupted, Event
        <5> QED
          BY <1>a, <5>2 DEF MergeBanner
      <4>2. CASE i # 1
        <5>1. i - 1 \in DOMAIN Tail(events) /\ Tail(events)[i - 1] = events[i]
          BY <1>a, <3>1, <4>a, <4>2
        <5> QED
          BY <3>1, <4>a, <5>1 DEF Received, BannerComing
      <4> QED
        BY <4>1, <4>2
    <3> QED
      BY <3>2, <3>3
  <2> QED
    BY <2>1, <2>2, <2>3 DEF Marks, AbortTold
<1> QED
  BY <1>1, <1>2, <1>3 DEF Marks

LEMMA NextMarks == Types /\ Marks /\ [Next]_vars => Marks'
<1> SUFFICES ASSUME Types, Marks, [Next]_vars PROVE Marks'
  OBVIOUS
<1>1. CASE UNCHANGED <<queueVars, ownerVars, events, mergeVars>>
  BY <1>1 DEF Marks, StopMarked, AbortTold, BannerComing, Aborting, EndedWell, ExitCode, Failures, Over,
     queueVars, ownerVars, mergeVars
<1>2. UNCHANGED vars => UNCHANGED <<queueVars, ownerVars, events, mergeVars>>
  BY DEF vars
<1> QED
  BY <1>1, <1>2, WorkerApart, OwnerMarks, MergeMarks DEF Next, Terminated

LEMMA InitMarks == Init => Marks
BY DEF Init, QueueInit, Marks, StopMarked, AbortTold, EndedWell

LEMMA MarksAlways == Spec => []Marks
<1>1. Types /\ Marks /\ [Next]_vars => Marks'
  BY NextMarks
<1> QED
  BY <1>1, InitMarks, Typed, PTL DEF Spec

-----------------------------------------------------------------------------
(* The exit code.                                                          *)

\* A run that ends well has dispatched to its end.
LEMMA EndedUnstopped ==
    ASSUME Types, Marks, Ledger, exit = OK, ~merge.banner
    PROVE  /\ ~Refused /\ Pushed /\ Failures = {} /\ events = << >> /\ Over
           /\ \A w \in Worker : Blamed(w) = {}
<1>1. exit = ExitCode /\ events = << >> /\ merge.at = "recv" /\ Over
  BY DistAssumption DEF Marks, EndedWell, OK
<1>2. ~merge.hit /\ merge.override = None /\ Failures = {}
  BY <1>1, DistAssumption DEF ExitCode, Marks, StopMarked, OK, INTERRUPTED, TESTS_FAILED
<1>3. ~softStopped
  BY <1>2 DEF Marks, StopMarked
<1>4. ~aborted
  <2>1. ~BannerComing
    BY <1>1 DEF BannerComing
  <2>2. \A w \in Worker : ~Aborting(w)
    BY <1>1 DEF Over, Aborting
  <2> QED
    BY <2>1, <2>2 DEF Marks, AbortTold
<1>5. Pushed
  <2>1. Waiting = {} /\ Coming = {} /\ Taken = 0
    BY <1>1 DEF Waiting, Coming, Taken, Over
  <2>2. merge.pending = Cardinality(Waiting) + Cardinality(Coming) + Taken
    BY DEF Ledger, Awaited
  <2> QED
    BY <2>1, <2>2, FS_EmptySet DEF Pushed
<1>6. \A w \in Worker : Blamed(w) = {}
  <2> TAKE w \in Worker
  <2>1. pc[w] # "tell"
    BY <1>1 DEF Over
  <2>2. verdict[w] = NoVerdict
    BY <2>1 DEF Ledger, Tally, OwnerSays
  <2> QED
    BY <2>2 DEF Blamed, NoVerdict
<1> QED
  BY <1>1, <1>2, <1>3, <1>4, <1>5, <1>6 DEF Refused

\* A run that reports success has run every test it collected.
LEMMA EndedSettled ==
    ASSUME Types, Marks, Ledger, Once, SP!AllSettled
    PROVE  OkMeansAllRan
<1> SUFFICES ASSUME exit = OK, ~merge.banner, \A w \in Worker : pc[w] # "lost",
                    NEW i \in DOMAIN merge.first
             PROVE  merge.first[i] \in Settled("teardown")
  BY DEF OkMeansAllRan
<1> DEFINE first == merge.first
<1>1. /\ ~Refused /\ Pushed /\ Failures = {} /\ events = << >> /\ Over
      /\ \A w \in Worker : Blamed(w) = {}
  BY EndedUnstopped
<1>2. first \in CollectChoices \cup {<< >>} /\ first \in Seq(Test)
  BY DistAssumption DEF Types, MergeTypes
<1>3. SP!Tests(Plan[first]) \subseteq Settled("teardown") \cup CrashFailed
  <2>1. \A w \in SP!Worker : [v \in Worker |-> SlotOf(v)][w] = "ended"
    <3> TAKE w \in SP!Worker
    <3>1. w \in Worker
      BY DEF SP!Worker, Worker
    <3>2. pc[w] = "end"
      BY <1>1, <3>1 DEF Over
    <3> QED
      BY <3>1, <3>2 DEF SlotOf
  <2>2. ~SP!Refused
    BY <1>1 DEF SP!Refused, Refused
  <2> QED
    BY <1>1, <2>1, <2>2 DEF SP!AllSettled
<1>4. first[i] \in SP!Tests(Plan[first])
  <2>1. Plan[first] = BuildBatches(Mode, first, File, Group, NumWorkers, Reorder)
    BY <1>2 DEF Plan
  <2>2. Cut(first, Plan[first])
    <3> HIDE DEF first
    <3> QED
      BY <1>2, <2>1, PlanAssumption, NumWorkersAssumption, BuildBatchesCut
  <2>3. \E k \in DOMAIN Plan[first] : \E j \in DOMAIN Plan[first][k] : Plan[first][k][j] = first[i]
    BY <2>2, CutCovers
  <2>4. first[i] \in Test
    BY <1>2
  <2> QED
    BY <2>3, <2>4 DEF SP!Tests
<1>5. Settled("crash") = {}
  <2> SUFFICES ASSUME NEW t \in Settled("crash") PROVE FALSE
    OBVIOUS
  <2>1. PICK r \in BagToSet(reports) : IsReport(r, t, "crash")
    BY <1>1 DEF Settled
  <2>2. r.failed
    BY <2>1 DEF IsReport, Once, CrashesFail, Fails
  <2> QED
    BY <1>1, <2>2 DEF Failures
<1>6. CrashFailed = {}
  BY <1>1, <1>5 DEF CrashFailed
<1> QED
  BY <1>3, <1>4, <1>6

LEMMA SettlesAll == Spec => []SP!AllSettled
<1>1. SP!Spec => []SP!AllSettled
  BY SP!EveryTestSettled, PlansAssumed, NumWorkersAssumption, MaxRestartAssumption
<1> QED
  BY <1>1, RunsScheduler, PTL

\* A run that exits 0, without having said that it aborted or lost a
\* replacement, has run every test it collected, whatever died on the way.
THEOREM DistOkMeansAllRan == Spec => []OkMeansAllRan
<1>1. Types /\ Marks /\ Ledger /\ Once /\ SP!AllSettled => OkMeansAllRan
  BY EndedSettled
<1> QED
  BY <1>1, Typed, MarksAlways, Accounts, OnceAlways, SettlesAll, PTL
=============================================================================
