-------------------------- MODULE NodesByDistance --------------------------
(***************************************************************************)
(* common.NodesByDistance: a list of at most max nodes, ordered by their   *)
(* distance to a target.  Distances to one target are pairwise different   *)
(* (XOR is injective), so a node is named by its distance.                 *)
(***************************************************************************)
EXTENDS Integers, SequencesExt

(* sort.Search on a sorted list: the number of entries in front of n. *)
SearchAt(list, n, ix) ==
    /\ \A i \in 1 .. ix : list[i] <= n
    /\ ix < Len(list) => list[ix + 1] > n

(* Defective insertion: a full list refuses every node. *)
PushedIfRoom(list, n, ix, max) ==
    IF Len(list) < max THEN InsertAt(list, ix + 1, n) ELSE list

(* The list after n went in behind ix entries: it slides the rest down,    *)
(* over the end of a full list, and goes nowhere behind a full list.       *)
Pushed(list, n, ix, max) ==
    IF ix < Len(list)
    THEN InsertAt(IF Len(list) < max THEN list ELSE Front(list), ix + 1, n)
    ELSE IF Len(list) < max THEN Append(list, n) ELSE list
=============================================================================
