----------------------------- MODULE WorkerPool -----------------------------
(***************************************************************************)
(* What the pool of crawler/workers/base promises to those who add         *)
(* workers, the runner of the seeker and of the crawler: workers wait in   *)
(* the order they were added, one at a time is taken from the head of the  *)
(* line and started, each of them once, and one that returned does not     *)
(* come back.  Once in the pool's life there may be a rush, which starts   *)
(* everybody in the line, in order; it can overtake the worker taken at    *)
(* that moment, and nobody else is ever overtaken.  The two goroutines,    *)
(* the counter and the empty workers are of no concern here.               *)
(***************************************************************************)
EXTENDS Sequences

CONSTANT Jobs

VARIABLES
    waiting,    \* the workers added and not taken or started, oldest first
    taken,      \* the worker taken and not started, if there is one
    running,    \* the workers started that have not returned
    ended,      \* the workers that returned
    rush        \* "idle" before the rush, "spawning" in it, "done" after it

vars == <<waiting, taken, running, ended, rush>>

Waiting == {waiting[i] : i \in DOMAIN waiting}

TypeOK ==
    /\ waiting \in Seq(Jobs) /\ taken \subseteq Jobs
    /\ running \subseteq Jobs /\ ended \subseteq Jobs
    /\ rush \in {"idle", "spawning", "done"}

Init ==
    waiting = << >> /\ taken = {} /\ running = {} /\ ended = {} /\ rush = "idle"

(* Nobody joins the line or is taken from it during the rush. *)
Add(j) ==
    /\ rush # "spawning" /\ j \notin Waiting \cup taken \cup running \cup ended
    /\ waiting' = Append(waiting, j)
    /\ UNCHANGED <<taken, running, ended, rush>>

Take ==
    /\ rush # "spawning" /\ waiting # << >> /\ taken = {}
    /\ taken' = {Head(waiting)} /\ waiting' = Tail(waiting)
    /\ UNCHANGED <<running, ended, rush>>

Start(j) ==
    /\ taken = {j} /\ j \notin running \cup ended
    /\ taken' = {} /\ running' = running \cup {j}
    /\ UNCHANGED <<waiting, ended, rush>>

RushBegins ==
    /\ rush = "idle" /\ rush' = "spawning"
    /\ UNCHANGED <<waiting, taken, running, ended>>

RushStart ==
    /\ rush = "spawning" /\ waiting # << >>
    /\ Head(waiting) \notin taken \cup running \cup ended
    /\ waiting' = Tail(waiting) /\ running' = running \cup {Head(waiting)}
    /\ UNCHANGED <<taken, ended, rush>>

RushEnds ==
    /\ rush = "spawning" /\ waiting = << >> /\ rush' = "done"
    /\ UNCHANGED <<waiting, taken, running, ended>>

End(j) ==
    /\ j \in running
    /\ running' = running \ {j} /\ ended' = ended \cup {j}
    /\ UNCHANGED <<waiting, taken, rush>>

Next ==
    \/ Take \/ RushBegins \/ RushStart \/ RushEnds
    \/ \E j \in Jobs : Add(j) \/ Start(j) \/ End(j)

Spec == Init /\ [][Next]_vars
=============================================================================
