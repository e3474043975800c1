-------------------------------- MODULE Pool --------------------------------
(***************************************************************************)
(* The worker pool: crawler/workers/base/pool.go and worker.go.            *)
(*                                                                         *)
(* Start runs two goroutines: start spawns the workers that are pending at *)
(* that moment, monitor takes new workers, and spawns pending ones while   *)
(* fewer than target are active.  Nothing orders the two: workers may be   *)
(* added before start runs, and start may empty the list between the       *)
(* monitor's look at it and its popWorker, which then returns a worker     *)
(* that does nothing.  popWorker gives the mutex back before the worker it *)
(* returns is spawned: start may spawn the ones behind it in between.      *)
(***************************************************************************)
EXTENDS Integers, Sequences, FiniteSets

CONSTANTS
    Jobs,       \* the workers given to AddWorker
    Returning,  \* those of them whose job returns
    Target      \* the pool's target

ASSUME PoolAssumption == Returning \subseteq Jobs /\ Target \in Nat \ {0}

VARIABLES
    workers,    \* Pool.workers: the pending ones
    active,     \* Pool.activeWorkers
    running,    \* jobs whose goroutine has not left Run
    empties,    \* goroutines of empty workers
    runs,       \* history: how often a job was spawned
    added,      \* jobs that the monitor took
    dropped,    \* jobs AddWorker dropped because the pool is done
    startPc,    \* where start is; it holds the mutex while it spawns
    next,       \* the index of the worker it spawns next
    late,       \* history: it found pending workers
    mpc,        \* where the monitor is
    mactive,    \* the number of active workers it loaded
    hand,       \* the worker popWorker gave it, none of Jobs if that is empty
    cancelled   \* the context is cancelled

startVars == <<startPc, next, late>>
poolVars == <<workers, active, running, empties, runs, added, dropped, startVars,
              mpc, mactive, hand, cancelled>>

PoolTypeOK ==
    /\ workers \in Seq(Jobs) /\ active \in Nat /\ mactive \in Nat
    /\ running \subseteq Jobs /\ empties \in Nat
    /\ runs \in [Jobs -> Nat] /\ added \subseteq Jobs /\ dropped \subseteq Jobs
    /\ startPc \in {"idle", "spawning", "done"} /\ next \in 1..Len(workers) + 1
    /\ late \in BOOLEAN /\ cancelled \in BOOLEAN
    /\ hand \subseteq Jobs
    /\ mpc \in {"load", "pending", "pop", "spawn", "select", "tick", "tickLoad",
                "tickPop", "tickSpawn", "gone"}

PoolInit ==
    /\ workers = << >> /\ active = 0 /\ running = {} /\ empties = 0
    /\ runs = [j \in Jobs |-> 0] /\ added = {} /\ dropped = {}
    /\ startPc = "idle" /\ next = 1 /\ late = FALSE
    /\ mpc = "load" /\ mactive = 0 /\ hand = {} /\ cancelled = FALSE

-----------------------------------------------------------------------------
(* spawnWorker *)
SpawnWorker(j) ==
    /\ active' = active + 1
    /\ running' = running \cup {j}
    /\ runs' = [runs EXCEPT ![j] = @ + 1]

(* start: it takes the mutex, spawns the pending workers one by one, and   *)
(* empties the list.  The monitor reads activeWorkers without the mutex    *)
(* and may see the number half way.                                        *)
StartLocks ==
    /\ startPc = "idle"
    /\ startPc' = "spawning" /\ late' = (workers # << >>)
    /\ UNCHANGED <<workers, active, running, empties, runs, added, dropped, next,
                   mpc, mactive, hand, cancelled>>

StartSpawns ==
    /\ startPc = "spawning" /\ next <= Len(workers)
    /\ SpawnWorker(workers[next]) /\ next' = next + 1
    /\ UNCHANGED <<workers, empties, added, dropped, startPc, late, mpc, mactive,
                   hand, cancelled>>

(* Defective start: the list keeps the workers that were spawned. *)
StartKeeps ==
    /\ startPc = "spawning" /\ next > Len(workers)
    /\ startPc' = "done" /\ next' = 1
    /\ UNCHANGED <<workers, active, running, empties, runs, added, dropped, late,
                   mpc, mactive, hand, cancelled>>

StartEmpties ==
    /\ startPc = "spawning" /\ next > Len(workers)
    /\ workers' = << >> /\ startPc' = "done" /\ next' = 1
    /\ UNCHANGED <<active, running, empties, runs, added, dropped, late, mpc,
                   mactive, hand, cancelled>>

start == StartLocks \/ StartSpawns \/ StartEmpties

Unlocked == startPc # "spawning"

(* A job returns: the worker is no longer active. *)
JobReturns(j) ==
    /\ j \in running
    /\ running' = running \ {j} /\ active' = active - 1
    /\ UNCHANGED <<workers, empties, runs, added, dropped, startVars, mpc,
                   mactive, hand, cancelled>>

EmptyReturns ==
    /\ empties > 0
    /\ empties' = empties - 1 /\ active' = active - 1
    /\ UNCHANGED <<workers, running, runs, added, dropped, startVars, mpc,
                   mactive, hand, cancelled>>

(* AddWorker when the pool is done. *)
AddDropped(j) ==
    /\ j \notin added \cup dropped /\ mpc = "gone"
    /\ dropped' = dropped \cup {j}
    /\ UNCHANGED <<workers, active, running, empties, runs, added, startVars,
                   mpc, mactive, hand, cancelled>>

Cancel ==
    /\ ~ cancelled /\ cancelled' = TRUE
    /\ UNCHANGED <<workers, active, running, empties, runs, added, dropped, startVars,
                   mpc, mactive, hand>>

-----------------------------------------------------------------------------
(* The monitor. *)

listVars == <<workers, active, running, empties, runs, added, dropped, startVars,
              hand, cancelled>>

(* Defective popWorker: it never takes the last worker of the list. *)
popWorkerShort ==
    IF Len(workers) <= 1
    THEN hand' = {} /\ UNCHANGED workers
    ELSE hand' = {Head(workers)} /\ workers' = Tail(workers)

(* Defective popWorker: it takes the worker that was added last. *)
popWorkerLast ==
    IF workers = << >>
    THEN hand' = {} /\ UNCHANGED workers
    ELSE /\ hand' = {workers[Len(workers)]}
         /\ workers' = SubSeq(workers, 1, Len(workers) - 1)

(* popWorker returns an empty worker when the list is empty. *)
popWorker ==
    IF workers = << >>
    THEN hand' = {} /\ UNCHANGED workers
    ELSE hand' = {Head(workers)} /\ workers' = Tail(workers)

LoadActive ==
    /\ mpc = "load"
    /\ mactive' = active /\ mpc' = "pending"
    /\ UNCHANGED listVars

(* Defective test: off by one. *)
PendingOffByOne ==
    /\ mpc = "pending" /\ (mactive < Target => Unlocked)
    /\ mpc' = IF mactive <= Target /\ workers # << >> THEN "pop" ELSE "select"
    /\ UNCHANGED <<listVars, mactive>>

Pending ==
    /\ mpc = "pending" /\ (mactive < Target => Unlocked)
    /\ mpc' = IF mactive < Target /\ workers # << >> THEN "pop" ELSE "select"
    /\ UNCHANGED <<listVars, mactive>>

(* p.spawnWorker(ctx, p.popWorker()), at both places: its argument needs   *)
(* the mutex, spawnWorker does not.                                        *)
Pop ==
    /\ mpc \in {"pop", "tickPop"} /\ Unlocked /\ popWorker
    /\ mpc' = IF mpc = "pop" THEN "spawn" ELSE "tickSpawn"
    /\ UNCHANGED <<active, running, empties, runs, added, dropped, startVars,
                   mactive, cancelled>>

Spawn ==
    /\ mpc \in {"spawn", "tickSpawn"}
    /\ IF hand = {}
       THEN empties' = empties + 1 /\ active' = active + 1 /\ UNCHANGED <<running, runs>>
       ELSE (\E j \in hand : SpawnWorker(j)) /\ UNCHANGED empties
    /\ hand' = {} /\ mpc' = IF mpc = "spawn" THEN "select" ELSE "tick"
    /\ UNCHANGED <<workers, added, dropped, startVars, mactive, cancelled>>

(* case w := <-p.workersIn *)
AddWorker(j) ==
    /\ mpc = "select" /\ Unlocked /\ j \notin added \cup dropped
    /\ workers' = Append(workers, j) /\ added' = added \cup {j}
    /\ mpc' = "load"
    /\ UNCHANGED <<active, running, empties, runs, dropped, startVars, mactive,
                   hand, cancelled>>

(* case <-ctx.Done() *)
MonitorEnds ==
    /\ mpc = "select" /\ cancelled
    /\ mpc' = "gone"
    /\ UNCHANGED <<listVars, mactive>>

(* case <-workerTicker.C, and the head of its loop. *)
Tick ==
    /\ mpc \in {"select", "tick"} /\ Unlocked
    /\ mpc' = IF workers # << >> THEN "tickLoad" ELSE "load"
    /\ UNCHANGED <<listVars, mactive>>

TickLoad ==
    /\ mpc = "tickLoad"
    /\ mactive' = active
    /\ mpc' = IF active = Target THEN "load" ELSE "tickPop"
    /\ UNCHANGED listVars

-----------------------------------------------------------------------------
Monitor == LoadActive \/ Pending \/ Pop \/ Spawn \/ Tick \/ TickLoad

PoolNext ==
    \/ start \/ Monitor \/ MonitorEnds \/ Cancel \/ EmptyReturns
    \/ \E j \in Jobs : AddWorker(j) \/ AddDropped(j) \/ JobReturns(j)

PoolSpec == PoolInit /\ [][PoolNext]_poolVars

(* Both goroutines run, the ticker fires, and the jobs in Returning (and   *)
(* the empty ones) return.  Nobody has to add workers or cancel.           *)
PoolFairSpec ==
    /\ PoolSpec
    /\ WF_poolVars(start) /\ WF_poolVars(Monitor) /\ WF_poolVars(EmptyReturns)
    /\ \A j \in Returning : WF_poolVars(JobReturns(j))

-----------------------------------------------------------------------------
(* Properties. *)

(* A worker that was added is pending, in the monitor's hand or was        *)
(* spawned, and never two of these or spawned twice, however start and the *)
(* monitor race for the list.                                              *)
SpawnedOnce ==
    \A j \in Jobs :
        runs[j] + Cardinality({i \in next..Len(workers) : workers[i] = j})
                + Cardinality(hand \cap {j})
        = IF j \in added THEN 1 ELSE 0

(* The atomic counter of active workers, changed by spawnWorker and by the *)
(* goroutines that return, is the number of goroutines there are: it never *)
(* goes below zero, where its 32 bits would wrap and no worker be spawned  *)
(* any more.                                                               *)
ActiveIsExact == active = Cardinality(running) + empties

(* The pool keeps to its target, unless start ran late and spawned workers *)
(* the monitor had queued.                                                 *)
TargetUnlessLate == ~ late => active <= Target

(* What the pool shows of itself: the workers start has still to spawn are *)
(* pending, the ones it has spawned are not, though they are in the list.  *)
PoolPromise == INSTANCE WorkerPool WITH
    waiting <- SubSeq(workers, next, Len(workers)),
    taken <- hand,
    ended <- {j \in Jobs : runs[j] > 0 /\ j \notin running},
    rush <- startPc

(* The pool keeps the promise of module WorkerPool: whichever of start and *)
(* the monitor takes a worker, workers leave the list in the order of      *)
(* AddWorker and are spawned once, and they do not run again after they    *)
(* returned.  They are spawned in that order too, but for the one that     *)
(* popWorker has just returned to the monitor: a start that runs late      *)
(* spawns the ones behind it first.                                        *)
KeepsPoolPromise == PoolPromise!Spec

(* A worker that was added is spawned in the end, unless the pool is       *)
(* cancelled; the seeker's runner relies on it for workers that never      *)
(* return.                                                                 *)
AddedIsSpawned ==
    \A j \in Jobs : j \in added ~> runs[j] > 0 \/ cancelled
=============================================================================
