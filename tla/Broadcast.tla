------------------------------ MODULE Broadcast ------------------------------
(***************************************************************************)
(* What the feed of crawler/events promises to its users.  An event is     *)
(* handed to everybody who is subscribed from the Send on until the last   *)
(* one has it; to nobody twice, and to nobody who left.  An event is       *)
(* dropped at once only if there are no subscribers.  Locks, counters and  *)
(* channels are of no concern here.                                        *)
(***************************************************************************)
CONSTANTS Listeners, Events

VARIABLES
    members,    \* the subscribed listeners
    stage,      \* stage[e]: "new", "open" while it is handed out, "over"
    due,        \* due[e]: the members when e was sent
    got         \* got[e]: the listeners that have e

vars == <<members, stage, due, got>>

TypeOK ==
    /\ members \subseteq Listeners
    /\ stage \in [Events -> {"new", "open", "over"}]
    /\ due \in [Events -> SUBSET Listeners] /\ got \in [Events -> SUBSET Listeners]

Init ==
    /\ members = {} /\ stage = [e \in Events |-> "new"]
    /\ due = [e \in Events |-> {}] /\ got = [e \in Events |-> {}]

Join(l) ==
    /\ l \notin members
    /\ members' = members \cup {l}
    /\ UNCHANGED <<stage, due, got>>

(* One leaves, or all of them when the feed stops. *)
Leave(S) ==
    /\ S \subseteq members
    /\ members' = members \ S
    /\ UNCHANGED <<stage, due, got>>

Drop(e) ==
    /\ stage[e] = "new" /\ members = {}
    /\ stage' = [stage EXCEPT ![e] = "over"]
    /\ UNCHANGED <<members, due, got>>

Publish(e) ==
    /\ stage[e] = "new"
    /\ stage' = [stage EXCEPT ![e] = "open"]
    /\ due' = [due EXCEPT ![e] = members]
    /\ UNCHANGED <<members, got>>

Hand(e, l) ==
    /\ stage[e] = "open" /\ l \in members \ got[e]
    /\ got' = [got EXCEPT ![e] = @ \cup {l}]
    /\ UNCHANGED <<members, stage, due>>

Close(e) ==
    /\ stage[e] = "open" /\ due[e] \cap members \subseteq got[e]
    /\ stage' = [stage EXCEPT ![e] = "over"]
    /\ UNCHANGED <<members, due, got>>

Next ==
    \/ \E l \in Listeners : Join(l)
    \/ \E S \in SUBSET Listeners : Leave(S)
    \/ \E e \in Events : Drop(e) \/ Publish(e) \/ Close(e) \/ \E l \in Listeners : Hand(e, l)

Spec == Init /\ [][Next]_vars
=============================================================================
