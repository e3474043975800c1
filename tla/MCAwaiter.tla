----------------------------- MODULE MCAwaiter -----------------------------
(***************************************************************************)
(* Instances of Awaiter for TLC.  All requests go to one peer, so that a   *)
(* reply has more than one candidate in the queue.                         *)
(***************************************************************************)
EXTENDS Awaiter

CONSTANTS r1, r2, r3

OnePeer == [r \in Requests |-> "n"]
PingsAndFind == [r \in Requests |-> IF r = r3 THEN "findnode" ELSE "ping"]
=============================================================================
