-------------------------- MODULE ApplicationProofs --------------------------
(***************************************************************************)
(* Proofs about the seeker's pipeline and the application around it, for   *)
(* every set of nodes, every finite set of workers and every number of     *)
(* attempts.                                                               *)
(***************************************************************************)
EXTENDS Application, FiniteSetTheorems, TLAPS

-----------------------------------------------------------------------------
(* The pipeline. *)

(* An iterator's flag is set before its channel is closed. *)
StopInv ==
    /\ closed \subseteq stopped
    /\ quit # "no" => "dst" \in stopped
    /\ spc \in {"recvClose", "stopRunner", "wait", "gone"} => "recv" \in stopped

(* Who holds the zero value got it from a closed iterator, and will see    *)
(* the flag.                                                               *)
ZeroInv ==
    /\ loop = "push" => loopItem # Zero
    /\ \A w \in Workers :
          /\ wpc[w] \in {"enr", "push"} => item[w] # Zero
          /\ wpc[w] = "check" /\ item[w] = Zero => "recv" \in stopped
    /\ cpc = "check" /\ consItem = Zero => "dst" \in stopped
    /\ consumed[Zero] = 0

(* The wait group counts the workers that were started and have not ended, *)
(* and the runner's goroutine.                                             *)
Started == {w \in Workers : wpc[w] \notin {"none", "added", "gone"}}
GroupInv ==
    wg = Cardinality(Started) + IF rpc \in {"add", "closing"} THEN 1 ELSE 0

(* Once the cleanup is over no worker handles a node: those the pool       *)
(* starts later see the flag.                                              *)
QuietInv ==
    /\ cpc = "returned" => spc = "gone"
    /\ spc = "gone" => \A w \in Workers : wpc[w] \notin {"enr", "push"}

Inv == TypeOK /\ StopInv /\ ZeroInv /\ GroupInv /\ QuietInv

(* The application's counter, as long as the server serves. *)
Gone(x) == IF x = "gone" THEN 1 ELSE 0
CounterInv ==
    /\ http \in {"serve", "gone"} /\ handler \in {"select", "lookup", "gone"}
    /\ crawler \in {"wait", "gone"} /\ run \in {"wait", "returned"}
    /\ http = "serve" =>
          /\ appWg = 2 - Gone(handler) - Gone(crawler)
          /\ run = "returned" => handler = "gone" /\ crawler = "gone"
-----------------------------------------------------------------------------
(* The workers' actions, and the others, by what they leave alone. *)
USE DEF loopVars, itVars, workVars, runVars, consVars

(* The workers that were started can be counted. *)
LEMMA StartedFinite == IsFiniteSet(Started) /\ Cardinality(Started) \in Nat
  BY SeekerAssumption, FS_Subset, FS_CardinalityType DEF Started

(* Every step keeps the wait group's count. *)
LEMMA GroupStep == ASSUME TypeOK, GroupInv, [Next]_vars PROVE GroupInv'
  <1> USE StartedFinite
  <1>1. ASSUME UNCHANGED <<wg, rpc>>, \A w \in Workers : w \in Started' <=> w \in Started
        PROVE  GroupInv'
    <2>1. Started' = Started
      BY <1>1 DEF Started
    <2> QED BY <1>1, <2>1 DEF GroupInv
  <1>2. ASSUME NEW w \in Workers, StartWorker(w) PROVE GroupInv'
    <2>1. w \notin Started /\ Started' = Started \cup {w}
      BY <1>2 DEF StartWorker, Goto, Started, TypeOK
    <2>2. Cardinality(Started') = Cardinality(Started) + 1
      BY <2>1, FS_AddElement
    <2> QED BY <1>2, <2>2 DEF GroupInv, StartWorker
  <1>3. ASSUME NEW w \in Workers, Exit(w) PROVE GroupInv'
    <2>1. w \in Started /\ Started' = Started \ {w}
      BY <1>3 DEF Exit, Goto, Started, TypeOK
    <2>2. Cardinality(Started') = Cardinality(Started) - 1
      BY <2>1, FS_RemoveElement
    <2> QED BY <1>3, <2>2 DEF GroupInv, Exit
  <1>4. CASE Runner \/ StopRunner
    <2>1. Started' = Started
      BY <1>4 DEF Runner, RunnerEnds, RunnerCancels, StopRunner, Started
    <2> QED BY <1>4, <2>1 DEF Runner, RunnerEnds, RunnerCancels, StopRunner, GroupInv
  <1>5. ASSUME NEW w \in Workers, Work(w), ~ Exit(w)
        PROVE  UNCHANGED <<wg, rpc>> /\ \A v \in Workers : v \in Started' <=> v \in Started
    BY <1>5 DEF Work, AddWorker, Recv, Take, NextClosed, CheckStopped, Retry, GiveUp, Found,
                Deliver, PushDstClosed, Goto, Started, TypeOK
  <1>6. (\E n \in Nodes : Event(n)) \/ Loop \/ (Cleanup /\ ~ StopRunner) \/ Consumer
        \/ CtxDone \/ CtxDoneClose \/ UNCHANGED vars
           => UNCHANGED <<wg, rpc, wpc>>
    BY DEF Event, Loop, LoopEnds, PushRecvClosed, Cleanup, CancelLoop, StopDst, StopRecv,
           CloseRecv, WaitRunner, Consumer, ConsumerClosed, Consume, StopSignal,
           StopReturns, CtxDone, CtxDoneClose, vars
  <1>7. UNCHANGED <<wg, rpc, wpc>> => GroupInv'
    BY <1>1 DEF Started
  <1> QED BY <1>1, <1>2, <1>3, <1>4, <1>5, <1>6, <1>7 DEF Next

(* Every step keeps the types. *)
LEMMA TypeStep == ASSUME TypeOK, GroupInv, [Next]_vars PROVE TypeOK'
  <1>0. wg' \in Nat
    <2>1. GroupInv'
      BY GroupStep
    <2>2. Cardinality(Started') \in Nat
      BY SeekerAssumption, FS_Subset, FS_CardinalityType DEF Started
    <2> QED BY <2>1, <2>2 DEF GroupInv
  <1> USE <1>0 DEF TypeOK, Items, Iterators
  <1>1. ASSUME NEW w \in Workers, StartWorker(w) \/ Work(w) PROVE TypeOK'
    <2>1. CASE StartWorker(w)
      BY <2>1 DEF StartWorker, Goto
    <2>2. CASE AddWorker(w)
      BY <2>2 DEF AddWorker, Goto
    <2>3. CASE Recv(w)
      BY <2>3 DEF Recv, Goto
    <2>4. CASE Take(w)
      BY <2>4 DEF Take, Goto
    <2>5. CASE NextClosed(w)
      BY <2>5 DEF NextClosed, Goto
    <2>6. CASE CheckStopped(w)
      <3>1. 0 \in 0 .. Attempts
        BY SeekerAssumption
      <3> QED BY <2>6, <3>1 DEF CheckStopped, Goto
    <2>7. CASE Retry(w)
      <3>1. tries[w] + 1 \in 0 .. Attempts
        BY <2>7, SeekerAssumption DEF Retry
      <3> QED BY <2>7, <3>1 DEF Retry
    <2>8. CASE GiveUp(w)
      BY <2>8 DEF GiveUp, Goto
    <2>9. CASE Found(w)
      BY <2>9 DEF Found, Goto
    <2>10. CASE Deliver(w)
      BY <2>10 DEF Deliver, Goto
    <2>11. CASE PushDstClosed(w)
      BY <2>11 DEF PushDstClosed, Goto
    <2>12. CASE Exit(w)
      BY <2>12 DEF Exit, Goto
    <2> QED BY <1>1, <2>1, <2>2, <2>3, <2>4, <2>5, <2>6, <2>7, <2>8, <2>9, <2>10, <2>11,
               <2>12 DEF Work
  <1>2. ASSUME NEW n \in Nodes, Event(n) PROVE TypeOK'
    BY <1>2 DEF Event
  <1>3. CASE LoopEnds
    BY <1>3 DEF LoopEnds
  <1>4. CASE PushRecvClosed
    BY <1>4 DEF PushRecvClosed
  <1>5. CASE RunnerEnds
    BY <1>5 DEF RunnerEnds
  <1>6. CASE RunnerCancels
    BY <1>6 DEF RunnerCancels
  <1>7. CASE Cleanup
    <2>1. CASE CancelLoop
      BY <2>1 DEF CancelLoop
    <2>6. CASE StopDst
      BY <2>6 DEF StopDst
    <2>2. CASE StopRecv
      BY <2>2 DEF StopRecv, StopFlag
    <2>3. CASE CloseRecv
      BY <2>3 DEF CloseRecv, StopClose
    <2>4. CASE StopRunner
      BY <2>4 DEF StopRunner
    <2>5. CASE WaitRunner
      BY <2>5 DEF WaitRunner
    <2> QED BY <1>7, <2>1, <2>2, <2>3, <2>4, <2>5, <2>6 DEF Cleanup
  <1>8. CASE Consumer
    <2>1. CASE ConsumerClosed
      BY <2>1 DEF ConsumerClosed
    <2>2. CASE Consume
      BY <2>2 DEF Consume
    <2>3. CASE StopSignal
      BY <2>3 DEF StopSignal
    <2>4. CASE StopReturns
      BY <2>4 DEF StopReturns
    <2> QED BY <1>8, <2>1, <2>2, <2>3, <2>4 DEF Consumer
  <1>9. CASE CtxDone
    BY <1>9 DEF CtxDone, StopFlag
  <1>10. CASE CtxDoneClose
    BY <1>10 DEF CtxDoneClose, StopClose
  <1>11. CASE UNCHANGED vars
    BY <1>11 DEF vars
  <1> QED BY <1>1, <1>2, <1>3, <1>4, <1>5, <1>6, <1>7, <1>8, <1>9, <1>10, <1>11
          DEF Next, Loop, Runner

(* Every step keeps StopInv. *)
LEMMA StopStep == ASSUME TypeOK, StopInv, [Next]_vars PROVE StopInv'
  <1>1. CASE Cleanup
    BY <1>1 DEF Cleanup, CancelLoop, StopDst, StopRecv, CloseRecv, StopRunner,
                WaitRunner, StopFlag, StopClose, StopInv
  <1>2. CASE CtxDone \/ CtxDoneClose
    BY <1>2 DEF CtxDone, CtxDoneClose, StopFlag, StopClose, StopInv
  <1>3. CASE UNCHANGED <<itVars, spc, quit>>
    BY <1>3 DEF StopInv
  <1>4. CASE Consumer
    BY <1>4 DEF Consumer, ConsumerClosed, Consume, StopSignal, StopReturns, StopInv
  <1>5. ASSUME NEW w \in Workers, StartWorker(w) \/ Work(w)
        PROVE  UNCHANGED <<itVars, spc, quit>>
    BY <1>5 DEF Work, StartWorker, AddWorker, Recv, Take, NextClosed, CheckStopped, Retry,
                GiveUp, Found, Deliver, PushDstClosed, Exit
  <1>6. (\E n \in Nodes : Event(n)) \/ Loop \/ Runner \/ UNCHANGED vars
           => UNCHANGED <<itVars, spc, quit>>
    BY DEF Event, Loop, LoopEnds, PushRecvClosed, Runner, RunnerEnds, RunnerCancels, vars
  <1> QED BY <1>1, <1>2, <1>3, <1>4, <1>5, <1>6 DEF Next

(* Every step keeps ZeroInv: a closed iterator is a stopped one. *)
LEMMA ZeroStep == ASSUME TypeOK, StopInv, ZeroInv, [Next]_vars PROVE ZeroInv'
  <1>0. stopped \subseteq stopped'
    BY DEF Next, Work, StartWorker, AddWorker, Recv, Take, NextClosed, CheckStopped,
           Retry, GiveUp, Found, Deliver, PushDstClosed, Exit, Event, Loop, LoopEnds,
           PushRecvClosed, Runner, RunnerEnds, RunnerCancels, Cleanup, CancelLoop,
           StopDst, StopRecv, CloseRecv, StopRunner, WaitRunner, StopFlag, StopClose,
           Consumer, ConsumerClosed, Consume, StopSignal, StopReturns, CtxDone,
           CtxDoneClose, vars
  <1> USE DEF TypeOK, ZeroInv
  <1>1. ASSUME NEW w \in Workers, StartWorker(w) \/ Work(w) PROVE ZeroInv'
    <2>1. CASE StartWorker(w) \/ AddWorker(w) \/ Recv(w) \/ Found(w) \/ PushDstClosed(w)
               \/ Exit(w) \/ GiveUp(w) \/ Retry(w)
      BY <1>0, <2>1 DEF StartWorker, AddWorker, Recv, Found, PushDstClosed, Exit, GiveUp,
                        Retry, Goto
    <2>2. CASE Take(w) \/ NextClosed(w) \/ Deliver(w)
      BY <1>0, <2>2 DEF Take, NextClosed, Deliver, Goto, StopInv
    <2>3. CASE CheckStopped(w)
      BY <1>0, <2>3 DEF CheckStopped, Goto
    <2> QED BY <1>1, <2>1, <2>2, <2>3 DEF Work
  <1>2. ASSUME NEW n \in Nodes, Event(n) PROVE ZeroInv'
    BY <1>2, SeekerAssumption DEF Event
  <1>3. CASE Loop \/ Runner
    BY <1>3 DEF Loop, LoopEnds, PushRecvClosed, Runner, RunnerEnds, RunnerCancels
  <1>4. CASE Cleanup
    BY <1>0, <1>4 DEF Cleanup, CancelLoop, StopDst, StopRecv, CloseRecv, StopRunner,
                      WaitRunner
  <1>5. CASE Consumer
    <2>1. CASE ConsumerClosed
      BY <2>1 DEF ConsumerClosed, StopInv
    <2>2. CASE Consume
      <3>1. ASSUME "dst" \notin stopped PROVE consumed'[Zero] = 0
        BY <2>2, <3>1 DEF Consume, Items
      <3> QED BY <2>2, <3>1 DEF Consume
    <2>3. CASE StopSignal \/ StopReturns
      BY <2>3 DEF StopSignal, StopReturns
    <2> QED BY <1>5, <2>1, <2>2, <2>3 DEF Consumer
  <1>6. CASE CtxDone \/ CtxDoneClose
    BY <1>0, <1>6 DEF CtxDone, CtxDoneClose
  <1>7. CASE UNCHANGED vars
    BY <1>7 DEF vars
  <1> QED BY <1>1, <1>2, <1>3, <1>4, <1>5, <1>6, <1>7 DEF Next

(* Every step keeps QuietInv: when WaitRunner passes, the counter says     *)
(* that no worker is under way, and the flag keeps later ones from a node. *)
LEMMA QuietStep ==
    ASSUME TypeOK, StopInv, GroupInv, QuietInv, [Next]_vars PROVE QuietInv'
  <1>1. ASSUME NEW w \in Workers, StartWorker(w) \/ Work(w) PROVE QuietInv'
    <2>1. spc' = spc /\ (cpc' = "returned" <=> cpc = "returned")
      BY <1>1 DEF Work, StartWorker, AddWorker, Recv, Take, NextClosed, CheckStopped,
                  Retry, GiveUp, Found, Deliver, PushDstClosed, Exit
    <2>2. ASSUME spc = "gone", NEW v \in Workers PROVE wpc'[v] \notin {"enr", "push"}
      <3>1. "recv" \in stopped /\ wpc[v] \notin {"enr", "push"} /\ wpc[w] \notin {"enr", "push"}
        BY <2>2 DEF StopInv, QuietInv
      <3> QED BY <1>1, <3>1 DEF Work, StartWorker, AddWorker, Recv, Take, NextClosed,
                  CheckStopped, Retry, GiveUp, Found, Deliver, PushDstClosed, Exit, Goto,
                  TypeOK
    <2> QED BY <2>1, <2>2 DEF QuietInv
  <1>2. CASE WaitRunner
    <2>1. Cardinality(Started) = 0
      BY <1>2, StartedFinite DEF WaitRunner, GroupInv
    <2>2. Started = {}
      BY <2>1, StartedFinite, FS_EmptySet
    <2> QED BY <1>2, <2>2 DEF WaitRunner, QuietInv, Started
  <1>3. CASE Cleanup /\ ~ WaitRunner
    BY <1>3 DEF Cleanup, CancelLoop, StopDst, StopRecv, CloseRecv, StopRunner, QuietInv
  <1>4. CASE Consumer
    BY <1>4 DEF Consumer, ConsumerClosed, Consume, StopSignal, StopReturns, QuietInv
  <1>5. (\E n \in Nodes : Event(n)) \/ Loop \/ Runner \/ CtxDone \/ CtxDoneClose
        \/ UNCHANGED vars => UNCHANGED <<spc, cpc, wpc>>
    BY DEF Event, Loop, LoopEnds, PushRecvClosed, Runner, RunnerEnds, RunnerCancels,
           CtxDone, CtxDoneClose, vars
  <1>6. UNCHANGED <<spc, cpc, wpc>> => QuietInv'
    BY DEF QuietInv
  <1> QED BY <1>1, <1>2, <1>3, <1>4, <1>5, <1>6 DEF Next

(* The pipeline keeps the inductive invariant Inv. *)
THEOREM PipelineInvariant == Spec => []Inv
  <1>1. Init => Inv
    <2> SUFFICES ASSUME Init PROVE Inv
      OBVIOUS
    <2>1. TypeOK
      <3>1. 0 \in 0 .. Attempts
        BY SeekerAssumption
      <3> QED BY <3>1 DEF Init, TypeOK, Items, Iterators
    <2>2. StopInv /\ QuietInv
      BY DEF Init, StopInv, QuietInv
    <2>3. ZeroInv
      BY DEF Init, ZeroInv, Items
    <2>4. GroupInv
      <3>1. Started = {}
        BY DEF Init, Started
      <3>2. Cardinality(Started) = 0
        BY <3>1, FS_EmptySet
      <3> QED BY <3>2 DEF Init, GroupInv
    <2> QED BY <2>1, <2>2, <2>3, <2>4 DEF Inv
  <1>2. Inv /\ [Next]_vars => Inv'
    BY TypeStep, StopStep, ZeroStep, GroupStep, QuietStep DEF Inv
  <1> QED BY <1>1, <1>2, PTL DEF Spec

(* The zero value of a closed iterator is never taken for an item. *)
THEOREM ZeroIsNoItem == Spec => []NoZeroItem
  <1>1. Inv => NoZeroItem
    BY DEF Inv, ZeroInv, NoZeroItem
  <1> QED BY <1>1, PipelineInvariant, PTL

(* When seeker.Stop has returned, no worker handles a node any more, those *)
(* the pool starts later included.                                         *)
THEOREM StopIsQuiet == Spec => []QuietAfterStop
  <1>1. Inv => QuietAfterStop
    BY DEF Inv, QuietInv, QuietAfterStop
  <1> QED BY <1>1, PipelineInvariant, PTL

-----------------------------------------------------------------------------
(* The application. *)

(* The application implements the pipeline: all it adds is when the        *)
(* context is cancelled, and steps that leave the pipeline alone.          *)
THEOREM ApplicationRunsPipeline == AppSpec => Spec
  <1>1. AppInit => Init
    BY DEF AppInit
  <1>2. [AppNext]_allVars => [Next]_vars
    <2>1. CASE Pipeline
      BY <2>1 DEF Pipeline, SeesCtx, Next
    <2>2. AppNext /\ ~ Pipeline => UNCHANGED vars
      BY DEF AppNext, App, Interrupt, HttpFails, LookupTick, LookupRandom, HandlerEnds,
             CrawlerEnds, RunReturns
    <2>3. UNCHANGED allVars => UNCHANGED vars
      BY DEF allVars
    <2> QED BY <2>1, <2>2, <2>3
  <1> QED BY <1>1, <1>2, PTL DEF AppSpec, Spec

(* Both properties of the pipeline hold of the application, whose run      *)
(* checks them.                                                            *)
COROLLARY ApplicationPipelineIsSafe == AppSpec => [](NoZeroItem /\ QuietAfterStop)
  BY ApplicationRunsPipeline, ZeroIsNoItem, StopIsQuiet, PTL

(* While the HTTP server serves, the wait group that counts two of three   *)
(* goroutines never becomes negative, and Run waits for the other two.     *)
THEOREM RunWaitsForBoth == AppSpec => []RunWaits
  <1>1. AppInit => CounterInv
    BY DEF AppInit, Add, CounterInv, Gone
  <1>2. CounterInv /\ [AppNext]_allVars => CounterInv'
    <2> SUFFICES ASSUME CounterInv, [AppNext]_allVars PROVE CounterInv'
      OBVIOUS
    <2>1. CASE Pipeline \/ UNCHANGED allVars
      BY <2>1 DEF Pipeline, allVars, appVars, CounterInv, Gone
    <2>2. CASE Interrupt \/ HttpFails
      BY <2>2 DEF Interrupt, HttpFails, CounterInv, Gone
    <2>3. CASE LookupTick \/ LookupRandom
      BY <2>3 DEF LookupTick, LookupRandom, CounterInv, Gone
    <2>4. CASE HandlerEnds
      BY <2>4 DEF HandlerEnds, Done, CounterInv, Gone
    <2>5. CASE CrawlerEnds
      BY <2>5 DEF CrawlerEnds, Done, CounterInv, Gone
    <2>6. CASE RunReturns
      BY <2>6 DEF RunReturns, CounterInv, Gone
    <2> QED BY <2>1, <2>2, <2>3, <2>4, <2>5, <2>6 DEF AppNext, App
  <1>3. CounterInv => RunWaits
    BY DEF CounterInv, RunWaits, Gone
  <1> QED BY <1>1, <1>2, <1>3, PTL DEF AppSpec
=============================================================================
