----------------------------- MODULE TableLoop -----------------------------
(***************************************************************************)
(* The goroutines of the node table: Run, doRefresh, doRevalidate and      *)
(* copyLiveNodes of crawler/net/discovery/table/table.go, the callers of   *)
(* refresh and close, and the node database that seeds the table.          *)
(*                                                                         *)
(* Run selects among its timers, the requests for a refresh, the ends of   *)
(* the refresh and of the revalidation it started, and the request to      *)
(* close.  It takes the table's mutex itself, for the random numbers.      *)
(*                                                                         *)
(* Buckets and limits are module Table's; here the table is the set of its *)
(* entries.  A timer may fire at any time it is running.  Nothing in the   *)
(* repository calls refresh or close yet: their callers stand for what the *)
(* two offer to a user of the package.                                     *)
(***************************************************************************)
EXTENDS Integers, FiniteSets

CONSTANTS
    Nodes,      \* the nodes that can be in the table
    Nursery,    \* the bootstrap nodes
    Callers,    \* callers of refresh; "init" stands for tab.initDone
    MaxCopies   \* bound on the copyLiveNodes goroutines at a time

ASSUME TableLoopAssumption ==
    /\ Nursery \subseteq Nodes /\ "none" \notin Nodes
    /\ "init" \notin Callers /\ MaxCopies \in Nat

VARIABLES
    entries,    \* the nodes in the table
    live,       \* those whose livenessChecks is not zero
    db,         \* the nodes saved as seeds
    mutex,      \* tab.mutex: "free", or held by the revalidation
    loop,       \* Run: "select", "seed" for its wait for the mutex,
                \* "refresh" and "revalidate" for those after the
                \* loop, and "closed"
    closeReq,   \* whether close was called
    refreshing, \* doRefresh: "nil", "load", "lookup", "done"
    waiting,    \* the callers Run will tell of the end of the refresh
    caller,     \* refresh: "idle", "asking", "waiting", "released"
    revalidate, \* "timer", then doRevalidate: "pick", "ping", "apply", "report"
    last,       \* the node doRevalidate pings
    copies      \* copyLiveNodes goroutines that have not got the mutex

tableVars == <<entries, live, db>>
refreshVars == <<refreshing, waiting, caller>>
revalVars == <<revalidate, last>>
vars == <<tableVars, mutex, loop, closeReq, refreshVars, revalVars, copies>>

TypeOK ==
    /\ entries \subseteq Nodes /\ live \subseteq entries /\ db \subseteq Nodes
    /\ mutex \in {"free", "held"}
    /\ loop \in {"select", "seed", "refresh", "revalidate", "closed"}
    /\ closeReq \in BOOLEAN
    /\ refreshing \in {"nil", "load", "lookup", "done"}
    /\ waiting \subseteq Callers \cup {"init"}
    /\ caller \in [Callers -> {"idle", "asking", "waiting", "released"}]
    /\ revalidate \in {"timer", "pick", "ping", "apply", "report"}
    /\ last \in Nodes \cup {"none"}
    /\ copies \in 0 .. MaxCopies

(* NewTable loads the seed nodes; Run starts with a refresh. *)
Init ==
    /\ entries = Nursery /\ live = {} /\ db = {} /\ mutex = "free"
    /\ loop = "select" /\ closeReq = FALSE
    /\ refreshing = "load" /\ waiting = {"init"}
    /\ caller = [c \in Callers |-> "idle"]
    /\ revalidate = "timer" /\ last = "none" /\ copies = 0

-----------------------------------------------------------------------------
(* The handlers of discovery: a node that pings us enters the table.       *)
AddSeenNode(n) ==
    /\ mutex = "free" /\ n \notin entries
    /\ entries' = entries \cup {n}
    /\ UNCHANGED <<live, db, mutex, loop, closeReq, refreshVars, revalVars, copies>>

-----------------------------------------------------------------------------
(* Callers.                                                                *)

Ask(c) ==
    /\ caller[c] = "idle"
    /\ caller' = [caller EXCEPT ![c] = "asking"]
    /\ UNCHANGED <<tableVars, mutex, loop, closeReq, refreshing, waiting, revalVars, copies>>

(* refresh returns a closed channel once close was called. *)
AskClosed(c) ==
    /\ caller[c] = "asking" /\ closeReq
    /\ caller' = [caller EXCEPT ![c] = "released"]
    /\ UNCHANGED <<tableVars, mutex, loop, closeReq, refreshing, waiting, revalVars, copies>>

Close ==
    /\ ~ closeReq /\ closeReq' = TRUE
    /\ UNCHANGED <<tableVars, mutex, loop, refreshVars, revalVars, copies>>

-----------------------------------------------------------------------------
(* Run.                                                                    *)

(* A refresh is started unless one is running. *)
StartRefresh == refreshing' = IF refreshing = "nil" THEN "load" ELSE refreshing

(* case <-refresh.C: seedRand waits for the mutex. *)
RefreshTick ==
    /\ loop = "select" /\ loop' = "seed"
    /\ UNCHANGED <<tableVars, mutex, closeReq, refreshVars, revalVars, copies>>

SeedRand ==
    /\ loop = "seed" /\ mutex = "free" /\ loop' = "select"
    /\ StartRefresh
    /\ UNCHANGED <<tableVars, mutex, closeReq, waiting, caller, revalVars, copies>>

(* Defective request: only a caller that finds a refresh running is noted. *)
RefreshReqWaits(c) ==
    /\ loop = "select" /\ caller[c] = "asking"
    /\ caller' = [caller EXCEPT ![c] = "waiting"]
    /\ waiting' = waiting \cup {x \in {c} : refreshing # "nil"}
    /\ StartRefresh
    /\ UNCHANGED <<tableVars, mutex, loop, closeReq, revalVars, copies>>

(* case req := <-tab.refreshReq *)
RefreshReq(c) ==
    /\ loop = "select" /\ caller[c] = "asking"
    /\ caller' = [caller EXCEPT ![c] = "waiting"]
    /\ waiting' = waiting \cup {c}
    /\ StartRefresh
    /\ UNCHANGED <<tableVars, mutex, loop, closeReq, revalVars, copies>>

(* The channels of the waiting callers are closed. *)
Release ==
    /\ caller' = [c \in Callers |-> IF c \in waiting THEN "released" ELSE caller[c]]
    /\ waiting' = {}

(* case <-refreshDone *)
RefreshDone ==
    /\ loop = "select" /\ refreshing = "done"
    /\ refreshing' = "nil" /\ Release
    /\ UNCHANGED <<tableVars, mutex, loop, closeReq, revalVars, copies>>

(* case <-revalidate.C *)
RevalidateTick ==
    /\ loop = "select" /\ revalidate = "timer"
    /\ revalidate' = "pick"
    /\ UNCHANGED <<tableVars, mutex, loop, closeReq, refreshVars, last, copies>>

(* case <-revalidateDone: the timer runs again.  nextRevalidateTime locks  *)
(* the mutex: only a revalidation holds it for more than a step, and the   *)
(* only one there is has just ended.                                       *)
RevalidateDone ==
    /\ loop = "select" /\ revalidate = "report"
    /\ revalidate' = "timer" /\ mutex' = "free" /\ last' = "none"
    /\ UNCHANGED <<tableVars, loop, closeReq, refreshVars, copies>>

(* case <-copyNodes.C *)
CopyTick ==
    /\ loop = "select" /\ copies < MaxCopies
    /\ copies' = copies + 1
    /\ UNCHANGED <<tableVars, mutex, loop, closeReq, refreshVars, revalVars>>

(* case <-tab.closeReq *)
CloseReq ==
    /\ loop = "select" /\ closeReq /\ loop' = "refresh"
    /\ UNCHANGED <<tableVars, mutex, closeReq, refreshVars, revalVars, copies>>

(* Defective end: the refresh that runs is not waited for. *)
DrainRefreshNot ==
    /\ loop = "refresh" /\ loop' = "revalidate"
    /\ Release
    /\ UNCHANGED <<tableVars, mutex, closeReq, refreshing, revalVars, copies>>

(* After the loop: the refresh that runs is waited for, the callers are    *)
(* told, and the revalidation that runs is waited for.                     *)
DrainRefresh ==
    /\ loop = "refresh" /\ refreshing \in {"nil", "done"}
    /\ loop' = "revalidate" /\ refreshing' = "nil"
    /\ Release
    /\ UNCHANGED <<tableVars, mutex, closeReq, revalVars, copies>>

DrainRevalidate ==
    /\ loop = "revalidate" /\ revalidate \in {"timer", "report"}
    /\ loop' = "closed" /\ revalidate' = "timer" /\ last' = "none" /\ mutex' = "free"
    /\ UNCHANGED <<tableVars, closeReq, refreshVars, copies>>

-----------------------------------------------------------------------------
(* doRefresh.                                                              *)

(* loadSeedNodes offers the saved nodes and the bootstrap nodes; limits    *)
(* may refuse some of them, but not all to an empty table.                 *)
LoadSeedNodes ==
    /\ refreshing = "load" /\ mutex = "free"
    /\ \E S \in SUBSET (db \cup Nursery) :
          /\ entries \cup db \cup Nursery # {} => entries \cup S # {}
          /\ entries' = entries \cup S
    /\ refreshing' = "lookup"
    /\ UNCHANGED <<live, db, mutex, loop, closeReq, waiting, caller, revalVars, copies>>

(* LookupRandom ends within its 10 seconds, LookupSelf at once. *)
LookupRandom ==
    /\ refreshing = "lookup" /\ refreshing' = "done"
    /\ UNCHANGED <<tableVars, mutex, loop, closeReq, waiting, caller, revalVars, copies>>

-----------------------------------------------------------------------------
(* doRevalidate.                                                           *)

NodeToRevalidate ==
    /\ revalidate = "pick" /\ mutex = "free"
    /\ \/ entries = {} /\ revalidate' = "report" /\ UNCHANGED last
       \/ \E n \in entries : last' = n /\ revalidate' = "ping"
    /\ UNCHANGED <<tableVars, mutex, loop, closeReq, refreshVars, copies>>

(* The ping, and the request for a record, end; then the mutex is locked. *)
LockRevalidate ==
    /\ revalidate = "ping" /\ mutex = "free"
    /\ revalidate' = "apply" /\ mutex' = "held"
    /\ UNCHANGED <<tableVars, loop, closeReq, refreshVars, last, copies>>

(* An answer makes the node live.  Without one, replace leaves it where it *)
(* is if other nodes came behind it meanwhile, and else takes it out, with *)
(* a replacement in its place if there is one.                             *)
Outcome ==
    \/ live' = live \cup ({last} \cap entries) /\ UNCHANGED entries
    \/ entries \ {last} # {} /\ UNCHANGED <<entries, live>>
    \/ entries' = entries \ {last} /\ live' = live \ {last}
    \/ \E n \in Nodes \ entries :
          entries' = (entries \ {last}) \cup {n} /\ live' = live \ {last}

(* Defective order: the report waits with the mutex held. *)
ApplyLocked ==
    /\ revalidate = "apply" /\ Outcome
    /\ revalidate' = "report"
    /\ UNCHANGED <<db, mutex, loop, closeReq, refreshVars, last, copies>>

(* The outcome is applied; the deferred calls unlock the mutex first and   *)
(* then report to Run.                                                     *)
Apply ==
    /\ revalidate = "apply" /\ Outcome
    /\ revalidate' = "report" /\ mutex' = "free"
    /\ UNCHANGED <<db, loop, closeReq, refreshVars, last, copies>>

-----------------------------------------------------------------------------
(* Live nodes are saved, those that are in the table long enough. *)
CopyLiveNodes ==
    /\ copies > 0 /\ mutex = "free"
    /\ copies' = copies - 1
    /\ \E S \in SUBSET live : db' = db \cup S
    /\ UNCHANGED <<entries, live, mutex, loop, closeReq, refreshVars, revalVars>>

Run ==
    \/ SeedRand \/ RefreshDone \/ RevalidateTick \/ RevalidateDone
    \/ DrainRefresh \/ DrainRevalidate
    \/ \E c \in Callers : RefreshReq(c)
doRefresh == LoadSeedNodes \/ LookupRandom
doRevalidate == NodeToRevalidate \/ LockRevalidate \/ Apply

Next ==
    \/ \E n \in Nodes : AddSeenNode(n)
    \/ \E c \in Callers : Ask(c) \/ AskClosed(c)
    \/ Close \/ Run \/ RefreshTick \/ CopyTick \/ CloseReq
    \/ doRefresh \/ doRevalidate \/ CopyLiveNodes

Spec == Init /\ [][Next]_vars

(* Goroutines run, requests end, and Run serves each of its ready cases at *)
(* last (select chooses at random): the timers, every caller, the ends of  *)
(* its goroutines and the request to close.  The mutex is granted at last. *)
FairSpec ==
    /\ Spec
    /\ WF_vars(RefreshTick \/ SeedRand \/ DrainRefresh \/ DrainRevalidate)
    /\ SF_vars(RefreshDone) /\ SF_vars(RevalidateDone) /\ SF_vars(CloseReq)
    /\ \A c \in Callers : SF_vars(RefreshReq(c)) /\ WF_vars(AskClosed(c))
    /\ WF_vars(LookupRandom) /\ WF_vars(doRevalidate) /\ SF_vars(LoadSeedNodes)

-----------------------------------------------------------------------------
(* Properties. *)

(* A caller of refresh is told: by the refresh that runs when it asks, by  *)
(* the one its request starts, or because the table is closed.             *)
CallersAreReleased ==
    \A c \in Callers : caller[c] \in {"asking", "waiting"} ~> caller[c] = "released"

(* close returns, and from then on neither a refresh nor a revalidation is *)
(* running and nobody waits for one: no goroutine of Run is left behind    *)
(* that would report to a loop that has ended.                             *)
CloseDrains ==
    closeReq ~> [](/\ loop = "closed" /\ refreshing = "nil" /\ revalidate = "timer"
                   /\ \A c \in Callers : caller[c] # "waiting")

(* The comment of doRefresh: "seed nodes are inserted if the table is      *)
(* empty".  A table that lost all its nodes gets the seeds again, without  *)
(* anybody's request, unless it is closed.                                 *)
TableIsReseeded == entries = {} ~> (entries # {} \/ closeReq)
=============================================================================
