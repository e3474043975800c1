------------------------------- MODULE Lookup -------------------------------
(***************************************************************************)
(* The iterative lookup: crawler/net/discovery/query.go, as started by     *)
(* PacketHandler.LookupRandom.                                             *)
(*                                                                         *)
(* A round walks the nodes of the current result and queries, each in its  *)
(* own goroutine, those that were not asked before.  slots, a channel with *)
(* alpha tokens, bounds the queries in flight; a query that delivers       *)
(* nothing gives its token back, one that delivers keeps it, and the       *)
(* alpha-th delivery closes the channel.  Between rounds the delivered     *)
(* nodes are merged into the result.                                       *)
(***************************************************************************)
EXTENDS NodesByDistance, FiniteSets

CONSTANTS
    Nodes,      \* the nodes, each named by its distance to the target
    alpha,      \* queries in flight (3 in the code)
    wants,      \* size of the result (16 in the code)
    MaxDepth    \* rounds (3 in the code)

ASSUME LookupAssumption ==
    /\ Nodes \subseteq Nat /\ IsFiniteSet(Nodes)
    /\ alpha \in Nat \ {0} /\ wants \in Nat \ {0} /\ MaxDepth \in Nat

VARIABLES
    phase,      \* "seed", "merge": Push pending nodes; "round": queryNewNodes
                \* runs; "done": Run returned
    todo,       \* nodes still to be pushed
    result,     \* lookup.result
    seen, asked,\* lookup.seen, lookup.asked
    buffer,     \* queryBuffer, as a set
    depth,      \* rounds left
    pc,         \* in a round: "next", "acquire", "check" or "wait"
    cands,      \* the round's copy of the result that is still to be walked
    slots,      \* tokens in the channel
    closed,     \* the channel is closed
    success,    \* doneCounter
    g,          \* g[n]: where the goroutine that queries n is
    cancelled   \* the lookup's context expired

control == <<phase, todo, depth, pc, cands>>
merged == <<result, seen>>
channel == <<slots, closed, success>>
vars == <<phase, todo, result, seen, asked, buffer, depth, pc, cands, slots,
          closed, success, g, cancelled>>

GoState == {"none", "query", "giveback", "count", "close", "exit"}
In(state) == {n \in Nodes : g[n] = state}
InFlight == {n \in Nodes : g[n] \notin {"none", "exit"}}

TypeOK ==
    /\ phase \in {"seed", "merge", "round", "done"}
    /\ todo \subseteq Nodes /\ result \in Seq(Nodes)
    /\ seen \subseteq Nodes /\ asked \subseteq Nodes /\ buffer \subseteq Nodes
    /\ depth \in Nat
    /\ pc \in {"next", "acquire", "check", "wait"}
    /\ cands \in Seq(Nodes)
    /\ slots \in Nat /\ closed \in BOOLEAN /\ success \in Nat
    /\ g \in [Nodes -> GoState]
    /\ cancelled \in BOOLEAN

(* newLookup: the seeds come from FindnodeByID, at most wants of them. *)
Init ==
    /\ phase = "seed"
    /\ todo \in SUBSET Nodes /\ todo # {} /\ Cardinality(todo) <= wants
    /\ result = << >> /\ seen = {} /\ asked = {} /\ buffer = {}
    /\ depth = MaxDepth
    /\ pc = "wait" /\ cands = << >>
    /\ slots = 0 /\ closed = FALSE /\ success = 0
    /\ g = [n \in Nodes |-> "none"]
    /\ cancelled = FALSE

-----------------------------------------------------------------------------
(* newLookup and Run: merging nodes and starting rounds.                   *)

Push(n) ==
    \E ix \in 0 .. Len(result) :
        /\ SearchAt(result, n, ix)
        /\ result' = Pushed(result, n, ix, wants)

(* A seed is pushed; a delivered node only when it was not seen before. *)
MergeNode(n) ==
    /\ phase \in {"seed", "merge"} /\ n \in todo
    /\ todo' = todo \ {n}
    /\ seen' = seen \cup {n}
    /\ IF phase = "merge" /\ n \in seen THEN UNCHANGED result ELSE Push(n)
    /\ UNCHANGED <<phase, asked, buffer, depth, pc, cands, channel, g,
                   cancelled>>

(* All is merged: the buffer is cleared and queryNewNodes is called.       *)
StartRound ==
    /\ phase \in {"seed", "merge"} /\ todo = {}
    /\ buffer' = {}
    /\ IF depth = 0
       THEN phase' = "done" /\ UNCHANGED <<depth, pc, cands, channel, g>>
       ELSE /\ phase' = "round"
            /\ depth' = depth - 1
            /\ pc' = "next" /\ cands' = result
            /\ slots' = alpha /\ closed' = FALSE /\ success' = 0
            /\ g' = [n \in Nodes |-> "none"]
    /\ UNCHANGED <<todo, merged, asked, cancelled>>

-----------------------------------------------------------------------------
(* queryNewNodes: the loop over the candidates.                            *)

(* canAsk: a node that was asked before is skipped, another one is marked. *)
CanAsk ==
    /\ phase = "round" /\ pc = "next" /\ cands # << >>
    /\ IF Head(cands) \in asked
       THEN cands' = Tail(cands) /\ UNCHANGED <<asked, pc>>
       ELSE /\ asked' = asked \cup {Head(cands)}
            /\ pc' = "acquire" /\ UNCHANGED cands
    /\ UNCHANGED <<phase, todo, merged, buffer, depth, channel, g, cancelled>>

(* case <-slots: a token, or nothing at once from the closed channel. *)
TakeSlot ==
    /\ phase = "round" /\ pc = "acquire"
    /\ slots > 0 \/ closed
    /\ slots' = IF slots > 0 THEN slots - 1 ELSE 0
    /\ pc' = "check"
    /\ UNCHANGED <<phase, todo, merged, asked, buffer, depth, cands, closed,
                   success, g, cancelled>>

(* case <-ctx.Done(): the round is abandoned, its goroutines run on. *)
Abandon ==
    /\ phase = "round" /\ pc = "acquire" /\ cancelled
    /\ phase' = "done"
    /\ UNCHANGED <<todo, merged, asked, buffer, depth, pc, cands, channel, g,
                   cancelled>>

(* The loop ends once alpha queries delivered, else the query starts. *)
Launch ==
    /\ phase = "round" /\ pc = "check"
    /\ IF success = alpha
       THEN pc' = "wait" /\ UNCHANGED <<cands, g>>
       ELSE /\ pc' = "next" /\ cands' = Tail(cands)
            /\ g' = [g EXCEPT ![Head(cands)] = "query"]
    /\ UNCHANGED <<phase, todo, merged, asked, buffer, depth, channel,
                   cancelled>>

NoMoreCandidates ==
    /\ phase = "round" /\ pc = "next" /\ cands = << >>
    /\ pc' = "wait"
    /\ UNCHANGED <<phase, todo, merged, asked, buffer, depth, cands, channel,
                   g, cancelled>>

(* Defective end of a round: it does not wait for the pending queries. *)
EndRoundNoWait ==
    /\ phase = "round" /\ pc = "wait"
    /\ IF success = 0
       THEN phase' = "done" /\ UNCHANGED todo
       ELSE phase' = "merge" /\ todo' = buffer
    /\ UNCHANGED <<merged, asked, buffer, depth, pc, cands, channel, g,
                   cancelled>>

(* wg.Wait(); Run stops after a round without a delivery. *)
EndRound ==
    /\ phase = "round" /\ pc = "wait" /\ InFlight = {}
    /\ IF success = 0
       THEN phase' = "done" /\ UNCHANGED todo
       ELSE phase' = "merge" /\ todo' = buffer
    /\ UNCHANGED <<merged, asked, buffer, depth, pc, cands, channel, g,
                   cancelled>>

-----------------------------------------------------------------------------
(* The goroutine that queries n.                                           *)

goVars == <<control, merged, asked, cancelled>>

(* Defective error path: the token is not given back. *)
QueryFailsKeeps(n) ==
    /\ g[n] = "query"
    /\ g' = [g EXCEPT ![n] = "exit"]
    /\ UNCHANGED <<goVars, buffer, channel>>

QueryFails(n) ==
    /\ g[n] = "query"
    /\ g' = [g EXCEPT ![n] = "giveback"]
    /\ UNCHANGED <<goVars, buffer, channel>>

(* The answer S is appended to the buffer, without what the buffer holds. *)
QueryAnswers(n, S) ==
    /\ g[n] = "query"
    /\ buffer' = buffer \cup S
    /\ g' = [g EXCEPT ![n] = IF S \subseteq buffer THEN "giveback" ELSE "count"]
    /\ UNCHANGED <<goVars, channel>>

GiveBack(n) ==
    /\ g[n] = "giveback"
    /\ slots' = slots + 1
    /\ g' = [g EXCEPT ![n] = "exit"]
    /\ UNCHANGED <<goVars, buffer, closed, success>>

(* Defective count: the token of a delivery is given back as well. *)
CountAndRelease(n) ==
    /\ g[n] = "count"
    /\ success' = success + 1
    /\ g' = [g EXCEPT ![n] = IF success + 1 = alpha THEN "close" ELSE "giveback"]
    /\ UNCHANGED <<goVars, buffer, slots, closed>>

CountDelivery(n) ==
    /\ g[n] = "count"
    /\ success' = success + 1
    /\ g' = [g EXCEPT ![n] = IF success + 1 = alpha THEN "close" ELSE "exit"]
    /\ UNCHANGED <<goVars, buffer, slots, closed>>

CloseSlots(n) ==
    /\ g[n] = "close"
    /\ closed' = TRUE
    /\ g' = [g EXCEPT ![n] = "exit"]
    /\ UNCHANGED <<goVars, buffer, slots, success>>

Cancel ==
    /\ ~ cancelled /\ phase # "done"
    /\ cancelled' = TRUE
    /\ UNCHANGED <<control, merged, asked, buffer, channel, g>>

-----------------------------------------------------------------------------
Main == \/ \E n \in todo : MergeNode(n)
        \/ StartRound \/ CanAsk \/ TakeSlot \/ Abandon \/ Launch
        \/ NoMoreCandidates \/ EndRound

Go(n) == \/ QueryFails(n) \/ (\E S \in SUBSET Nodes : QueryAnswers(n, S))
         \/ GiveBack(n) \/ CountDelivery(n) \/ CloseSlots(n)

Next == Main \/ Cancel \/ \E n \in Nodes : Go(n)

Spec == Init /\ [][Next]_vars

(* The caller's goroutine and the query goroutines are scheduled, and each *)
(* query returns (every awaited request settles).                          *)
FairSpec == Spec /\ WF_vars(Main) /\ \A n \in Nodes : WF_vars(Go(n))

-----------------------------------------------------------------------------
(* Properties. *)

(* The token of a round is in the channel, with a query, kept by a         *)
(* delivery or in the hand of the loop: the channel is never sent to when  *)
(* it is closed (a panic) or full (a goroutine stuck for ever), is closed  *)
(* once, and at most alpha queries are in flight.                          *)
SlotsAreSafe ==
    /\ \A n \in In("giveback") : ~ closed /\ slots < alpha
    /\ \A n \in In("close") : ~ closed
    /\ Cardinality(InFlight) <= alpha

(* The result is the wants closest nodes of all that were seen, in order.  *)
ResultIsClosest ==
    /\ Len(result) <= wants
    /\ \A i, j \in 1 .. Len(result) : i < j => result[i] < result[j]
    /\ ToSet(result) \subseteq seen
    /\ \A n \in seen \ ToSet(result) :
          Len(result) = wants /\ \A i \in 1 .. Len(result) : result[i] < n

(* No delivery is lost: what slide() clears from the buffer was merged,    *)
(* however late in the round a query delivered it.                         *)
DeliveriesAreMerged == [][buffer \ buffer' \subseteq seen]_vars

(* Run returns and leaves no goroutine behind, whatever the queries do. *)
Terminates == <>(phase = "done" /\ InFlight = {})
=============================================================================
