------------------------------- MODULE Seeker -------------------------------
(***************************************************************************)
(* The seeker's pipeline and its shutdown: crawler/crawler/seeker.go,      *)
(* seekerProc.go and iterator.go, over crawler/workers/runner/runner.go.   *)
(*                                                                         *)
(* The event loop pushes each newly seen node into the recv iterator; the  *)
(* runner's workers take nodes from it, ask for their records and push     *)
(* those that pass into the dst iterator, which the crawler (the consumer) *)
(* reads.  When the crawler's context is cancelled, the dst iterator is    *)
(* stopped, the consumer leaves its loop and calls Stop, and the seeker    *)
(* cleans up.  The worker pool is used by its promise: it starts every     *)
(* worker it was given, some time later.                                   *)
(***************************************************************************)
EXTENDS Integers, FiniteSets

CONSTANTS
    Nodes,      \* the nodes the discovery reports as seen
    Workers,    \* the runner's workers
    Zero,       \* the zero value Next returns when its iterator is closed
    Attempts    \* requests for a record before the node is given up (3)

ASSUME SeekerAssumption ==
    Zero \notin Nodes /\ IsFiniteSet(Workers) /\ Attempts \in Nat \ {0}

Iterators == {"recv", "dst"}

VARIABLES
    seen,       \* seeker.seen
    loop,       \* where the event loop is
    loopItem,   \* the node it pushes
    cancelled,  \* the event loop's context is cancelled
    stopped,    \* iterators whose stopped flag is set
    closed,     \* iterators whose closed channel is closed
    wpc,        \* where a worker is
    item,       \* what a worker holds
    tries,      \* attempts a worker made for its item
    wg,         \* counter of the runner's wait group
    rpc,        \* where the runner's goroutine is
    runnerDone, \* the context of the pool and the workers is cancelled
    spc,        \* where the seeker's goroutine (start, then cleanup) is
    cpc,        \* where the consumer is
    consItem,   \* what the consumer holds
    quit,       \* where the goroutine that waits for the crawler's context is
    consumed,   \* history: how often the consumer handled a value
    failed      \* history: nodes whose record was not obtained or not wanted

loopVars == <<seen, loop, loopItem, cancelled>>
itVars == <<stopped, closed>>
workVars == <<wpc, item, tries>>
runVars == <<wg, rpc, runnerDone>>
consVars == <<cpc, consItem, consumed>>
vars == <<loopVars, itVars, workVars, runVars, spc, consVars, quit, failed>>

Items == Nodes \cup {Zero}

TypeOK ==
    /\ seen \subseteq Nodes /\ failed \subseteq Nodes
    /\ loop \in {"select", "push", "gone"} /\ loopItem \in Items
    /\ cancelled \in BOOLEAN /\ runnerDone \in BOOLEAN
    /\ stopped \subseteq Iterators /\ closed \subseteq Iterators
    /\ wpc \in [Workers -> {"none", "added", "recv", "next", "check", "enr",
                            "push", "exit", "gone"}]
    /\ item \in [Workers -> Items] /\ tries \in [Workers -> 0 .. Attempts]
    /\ wg \in Nat
    /\ rpc \in {"add", "closing", "cancel", "gone"}
    /\ spc \in {"sig", "cancel", "dst", "recv", "recvClose",
                "stopRunner", "wait", "gone"}
    /\ cpc \in {"next", "check", "stop", "wait", "returned"}
    /\ consItem \in Items /\ consumed \in [Items -> Nat]
    /\ quit \in {"no", "close", "gone"}

Init ==
    /\ seen = {} /\ loop = "select" /\ loopItem = Zero /\ cancelled = FALSE
    /\ stopped = {} /\ closed = {}
    /\ wpc = [w \in Workers |-> "none"] /\ item = [w \in Workers |-> Zero]
    /\ tries = [w \in Workers |-> 0]
    /\ wg = 1 /\ rpc = "add" /\ runnerDone = FALSE
    /\ spc = "sig" /\ cpc = "next" /\ consItem = Zero
    /\ consumed = [i \in Items |-> 0]
    /\ quit = "no" /\ failed = {}

-----------------------------------------------------------------------------
(* SimpleIterator.Stop is two steps, the flag and then the channel; only   *)
(* the caller that set the flag closes the channel.                        *)

(* Defective Stop: the channel is closed and the flag left alone. *)
StopFlagForgotten(i) == closed' = closed \cup {i} /\ UNCHANGED stopped

StopFlag(i) == stopped' = stopped \cup {i} /\ UNCHANGED closed
StopClose(i) == closed' = closed \cup {i} /\ UNCHANGED stopped

-----------------------------------------------------------------------------
(* The event loop.                                                         *)

(* Defective event loop: it drops the node when no worker is waiting. *)
EventDropped(n) ==
    /\ loop = "select" /\ n \notin seen
    /\ seen' = seen \cup {n}
    /\ IF \E w \in Workers : wpc[w] = "next"
       THEN loop' = "push" /\ loopItem' = n
       ELSE UNCHANGED <<loop, loopItem>>
    /\ UNCHANGED <<cancelled, itVars, workVars, runVars, spc, consVars, quit, failed>>

(* A SEEN event of a new node.  Any other event changes nothing. *)
Event(n) ==
    /\ loop = "select" /\ n \notin seen
    /\ seen' = seen \cup {n}
    /\ loop' = "push" /\ loopItem' = n
    /\ UNCHANGED <<cancelled, itVars, workVars, runVars, spc, consVars, quit, failed>>

LoopEnds ==
    /\ loop = "select" /\ cancelled
    /\ loop' = "gone"
    /\ UNCHANGED <<seen, loopItem, cancelled, itVars, workVars, runVars, spc,
                   consVars, quit, failed>>

(* recvIterator.Push gives up when the iterator is closed. *)
PushRecvClosed ==
    /\ loop = "push" /\ "recv" \in closed
    /\ loop' = "select" /\ loopItem' = Zero
    /\ UNCHANGED <<seen, cancelled, itVars, workVars, runVars, spc, consVars,
                   quit, failed>>

-----------------------------------------------------------------------------
(* The runner's workers.                                                   *)

Goto(w, to) == wpc' = [wpc EXCEPT ![w] = to]

(* runWorkers hands its workers to the pool. *)
AddWorker(w) ==
    /\ rpc = "add" /\ wpc[w] = "none"
    /\ Goto(w, "added")
    /\ UNCHANGED <<loopVars, itVars, item, tries, runVars, spc, consVars, quit, failed>>

(* The pool starts a worker, which adds itself to the wait group. *)
StartWorker(w) ==
    /\ wpc[w] = "added"
    /\ wg' = wg + 1
    /\ Goto(w, "recv")
    /\ UNCHANGED <<loopVars, itVars, item, tries, rpc, runnerDone, spc, consVars,
                   quit, failed>>

Recv(w) ==
    /\ wpc[w] = "recv"
    /\ Goto(w, IF runnerDone THEN "exit" ELSE "next")
    /\ UNCHANGED <<loopVars, itVars, item, tries, runVars, spc, consVars, quit, failed>>

(* The event loop's Push meets a worker's Next. *)
Take(w) ==
    /\ wpc[w] = "next" /\ loop = "push"
    /\ item' = [item EXCEPT ![w] = loopItem]
    /\ loop' = "select" /\ loopItem' = Zero
    /\ Goto(w, "check")
    /\ UNCHANGED <<seen, cancelled, itVars, tries, runVars, spc, consVars, quit, failed>>

NextClosed(w) ==
    /\ wpc[w] = "next" /\ "recv" \in closed
    /\ item' = [item EXCEPT ![w] = Zero]
    /\ Goto(w, "check")
    /\ UNCHANGED <<loopVars, itVars, tries, runVars, spc, consVars, quit, failed>>

(* recv asks Stopped() after it has the item; if so the item is dropped. *)
CheckStopped(w) ==
    /\ wpc[w] = "check"
    /\ Goto(w, IF "recv" \in stopped THEN "exit" ELSE "enr")
    /\ tries' = [tries EXCEPT ![w] = 0]
    /\ UNCHANGED <<loopVars, itVars, item, runVars, spc, consVars, quit, failed>>

Retry(w) ==
    /\ wpc[w] = "enr" /\ tries[w] < Attempts - 1
    /\ tries' = [tries EXCEPT ![w] = @ + 1]
    /\ UNCHANGED <<loopVars, itVars, wpc, item, runVars, spc, consVars, quit, failed>>

(* The last attempt failed, or the record does not pass the filter. *)
GiveUp(w) ==
    /\ wpc[w] = "enr"
    /\ failed' = failed \cup ({item[w]} \cap Nodes)
    /\ Goto(w, "recv")
    /\ UNCHANGED <<loopVars, itVars, item, tries, runVars, spc, consVars, quit>>

Found(w) ==
    /\ wpc[w] = "enr"
    /\ Goto(w, "push")
    /\ UNCHANGED <<loopVars, itVars, item, tries, runVars, spc, consVars, quit, failed>>

(* A worker's Push meets the consumer's Next. *)
Deliver(w) ==
    /\ wpc[w] = "push" /\ cpc = "next"
    /\ consItem' = item[w] /\ cpc' = "check"
    /\ Goto(w, "recv")
    /\ UNCHANGED <<loopVars, itVars, item, tries, runVars, spc, consumed, quit, failed>>

PushDstClosed(w) ==
    /\ wpc[w] = "push" /\ "dst" \in closed
    /\ Goto(w, "recv")
    /\ UNCHANGED <<loopVars, itVars, item, tries, runVars, spc, consVars, quit, failed>>

Exit(w) ==
    /\ wpc[w] = "exit"
    /\ wg' = wg - 1
    /\ Goto(w, "gone")
    /\ UNCHANGED <<loopVars, itVars, item, tries, rpc, runnerDone, spc, consVars,
                   quit, failed>>

-----------------------------------------------------------------------------
(* The runner's goroutine, stopped by the seeker's cleanup.                *)

RunnerEnds ==
    /\ rpc = "closing"
    /\ rpc' = "cancel" /\ wg' = wg - 1
    /\ UNCHANGED <<loopVars, itVars, workVars, runnerDone, spc, consVars, quit, failed>>

RunnerCancels ==
    /\ rpc = "cancel"
    /\ rpc' = "gone" /\ runnerDone' = TRUE
    /\ UNCHANGED <<loopVars, itVars, workVars, wg, spc, consVars, quit, failed>>

-----------------------------------------------------------------------------
(* The seeker's goroutine: after the signal it cancels the event loop and  *)
(* runs the deferred cleanup.                                              *)

CancelLoop ==
    /\ spc = "cancel"
    /\ cancelled' = TRUE /\ spc' = "dst"
    /\ UNCHANGED <<seen, loop, loopItem, itVars, workVars, runVars, consVars, quit, failed>>

(* dstIterator.Stop finds the flag set and returns: the consumer calls the *)
(* seeker's Stop only after it saw the dst iterator stopped.  Were it not, *)
(* the cleanup would be stuck here and Stop would never return.            *)
StopDst ==
    /\ spc = "dst" /\ "dst" \in stopped
    /\ spc' = "recv"
    /\ UNCHANGED <<loopVars, itVars, workVars, runVars, consVars, quit, failed>>

StopRecv ==
    /\ spc = "recv"
    /\ StopFlag("recv") /\ spc' = "recvClose"
    /\ UNCHANGED <<loopVars, workVars, runVars, consVars, quit, failed>>

CloseRecv ==
    /\ spc = "recvClose"
    /\ StopClose("recv") /\ spc' = "stopRunner"
    /\ UNCHANGED <<loopVars, workVars, runVars, consVars, quit, failed>>

(* runner.Stop waits until the runner's goroutine has added all workers. *)
StopRunner ==
    /\ spc = "stopRunner"
    /\ rpc = "add" /\ \A w \in Workers : wpc[w] # "none"
    /\ spc' = "wait" /\ rpc' = "closing"
    /\ UNCHANGED <<loopVars, itVars, workVars, wg, runnerDone, consVars, quit, failed>>

(* Defective cleanup: it does not wait for the runner. *)
WaitRunnerSkipped ==
    /\ spc = "wait"
    /\ spc' = "gone"
    /\ UNCHANGED <<loopVars, itVars, workVars, runVars, consVars, quit, failed>>

WaitRunner ==
    /\ spc = "wait" /\ wg = 0
    /\ spc' = "gone"
    /\ UNCHANGED <<loopVars, itVars, workVars, runVars, consVars, quit, failed>>

-----------------------------------------------------------------------------
(* The crawler: its consumer loop and the goroutine that stops the dst     *)
(* iterator when the context is cancelled.                                 *)

(* Nobody else stops the dst iterator before it is stopped here: the       *)
(* seeker's cleanup runs only after the consumer saw the flag.             *)
CtxDone ==
    /\ quit = "no"
    /\ StopFlag("dst") /\ quit' = "close"
    /\ UNCHANGED <<loopVars, workVars, runVars, spc, consVars, failed>>

CtxDoneClose ==
    /\ quit = "close"
    /\ StopClose("dst") /\ quit' = "gone"
    /\ UNCHANGED <<loopVars, workVars, runVars, spc, consVars, failed>>

ConsumerClosed ==
    /\ cpc = "next" /\ "dst" \in closed
    /\ consItem' = Zero /\ cpc' = "check"
    /\ UNCHANGED <<loopVars, itVars, workVars, runVars, spc, consumed, quit, failed>>

Consume ==
    /\ cpc = "check"
    /\ IF "dst" \in stopped
       THEN cpc' = "stop" /\ UNCHANGED consumed
       ELSE cpc' = "next" /\ consumed' = [consumed EXCEPT ![consItem] = @ + 1]
    /\ UNCHANGED <<loopVars, itVars, workVars, runVars, spc, consItem, quit, failed>>

(* seeker.Stop: the signal, then the wait group. *)
StopSignal ==
    /\ cpc = "stop" /\ spc = "sig"
    /\ cpc' = "wait" /\ spc' = "cancel"
    /\ UNCHANGED <<loopVars, itVars, workVars, runVars, consItem, consumed, quit, failed>>

StopReturns ==
    /\ cpc = "wait" /\ spc = "gone"
    /\ cpc' = "returned"
    /\ UNCHANGED <<loopVars, itVars, workVars, runVars, spc, consItem, consumed,
                   quit, failed>>

-----------------------------------------------------------------------------
Work(w) ==
    \/ AddWorker(w) \/ Recv(w) \/ Take(w) \/ NextClosed(w) \/ CheckStopped(w)
    \/ Retry(w) \/ GiveUp(w) \/ Found(w) \/ Deliver(w) \/ PushDstClosed(w) \/ Exit(w)

Loop == LoopEnds \/ PushRecvClosed
Runner == RunnerEnds \/ RunnerCancels
Cleanup ==
    \/ CancelLoop \/ StopDst \/ StopRecv \/ CloseRecv
    \/ StopRunner \/ WaitRunner
Consumer == ConsumerClosed \/ Consume \/ StopSignal \/ StopReturns

Next ==
    \/ \E n \in Nodes : Event(n)
    \/ \E w \in Workers : StartWorker(w) \/ Work(w)
    \/ Loop \/ Runner \/ Cleanup \/ Consumer
    \/ CtxDone \/ CtxDoneClose

Spec == Init /\ [][Next]_vars

(* Goroutines that can run do, and requests for records return.  The pool  *)
(* starts workers as long as its context lives.  Nobody has to report      *)
(* nodes or to cancel the crawler.                                         *)
FairSpec ==
    /\ Spec
    /\ \A w \in Workers : WF_vars(Work(w)) /\ WF_vars(StartWorker(w) /\ ~ runnerDone)
    /\ WF_vars(Loop) /\ WF_vars(Runner) /\ WF_vars(Cleanup) /\ WF_vars(Consumer)
    /\ WF_vars(CtxDoneClose)

-----------------------------------------------------------------------------
(* Properties. *)

(* The zero value that Next returns from a closed iterator is never taken  *)
(* for an item: neither OnData nor the crawler dereferences its nil node.  *)
NoZeroItem ==
    /\ consumed[Zero] = 0
    /\ \A w \in Workers : wpc[w] \in {"enr", "push"} => item[w] # Zero

(* When Stop has returned, no worker is handling a node and none will: the *)
(* wait group covers every worker that got past the stop of the iterator.  *)
QuietAfterStop ==
    cpc = "returned" => \A w \in Workers : wpc[w] \notin {"enr", "push"}

(* A node that was seen is handed to the crawler or given up, unless the   *)
(* pipeline is being stopped.                                              *)
SeenIsHandled ==
    \A n \in Nodes :
        n \in seen ~> consumed[n] > 0 \/ n \in failed \/ stopped # {}
=============================================================================
