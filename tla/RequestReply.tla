---------------------------- MODULE RequestReply ----------------------------
(***************************************************************************)
(* What the awaiter and PacketHandler.execute promise together to the      *)
(* callers of an awaited request (the comments of SendRequest in           *)
(* crawler/net/discovery/ctx.go): the call blocks, and returns once with   *)
(* success, if its peer gave an answer, or with an error.  Queue, clock,   *)
(* tokens, replies on their way and workers are of no concern here.        *)
(***************************************************************************)
CONSTANT Requests

VARIABLES
    call,       \* the call of each request: not made, waiting or its outcome
    answered    \* the requests made whose peer gave an answer

vars == <<call, answered>>

TypeOK ==
    /\ call \in [Requests -> {"idle", "waiting", "ok", "failed"}]
    /\ answered \subseteq {r \in Requests : call[r] # "idle"}

Init ==
    /\ call = [r \in Requests |-> "idle"]
    /\ answered = {}

(* The answer to an earlier request of the same token is one to this too. *)
Ask(r) ==
    /\ call[r] = "idle"
    /\ call' = [call EXCEPT ![r] = "waiting"]
    /\ answered' \in {answered, answered \cup {r}}

(* One packet may answer several requests. *)
PeerAnswers ==
    /\ answered' \in SUBSET {r \in Requests : call[r] # "idle"}
    /\ answered \subseteq answered'
    /\ UNCHANGED call

Succeed(r) ==
    /\ call[r] = "waiting" /\ r \in answered
    /\ call' = [call EXCEPT ![r] = "ok"]
    /\ UNCHANGED answered

(* Also when the peer answered: the answer may come late, get lost, or be  *)
(* paired with another request.                                            *)
Fail(r) ==
    /\ call[r] = "waiting"
    /\ call' = [call EXCEPT ![r] = "failed"]
    /\ UNCHANGED answered

Next ==
    \/ \E r \in Requests : Ask(r) \/ Succeed(r) \/ Fail(r)
    \/ PeerAnswers

Spec == Init /\ [][Next]_vars
=============================================================================
