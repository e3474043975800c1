------------------------------ MODULE Awaiter ------------------------------
(***************************************************************************)
(* The request/response correlation of the discovery protocol:             *)
(* crawler/net/discovery/responseAwaiter.go, its only client               *)
(* PacketHandler.execute (handler.go), and the Verify functions of the     *)
(* three awaited requests of discovery v4 (ping, ENR, findnode).           *)
(*                                                                         *)
(* A caller creates a request, registers it with the awaiter goroutine,    *)
(* writes it to the UDP socket and blocks until the awaiter closes the     *)
(* request's channel.  Replies come back over UDP (lost, duplicated, late, *)
(* out of order), are verified by a worker of the acceptor and handed to   *)
(* the awaiter, which pairs each with the first queued request of the same *)
(* peer and kind.                                                          *)
(***************************************************************************)
EXTENDS Integers, SequencesExt

CONSTANTS
    Requests,       \* the awaited requests made in a behaviour
    Peer,           \* Peer[r]: the (node id, IP) pair a request is sent to
    Kind,           \* Kind[r]: "ping", "enr" or "findnode"
    Second,         \* clock units per second, the precision of an expiration
    Expiration,     \* lifetime of a request (20s in the code), in clock units
    MaxNow,         \* bound on the clock
    BucketSize,     \* neighbours a findnode request waits for (16 in the code)
    MaxNeighbors,   \* neighbours that fit in one packet (12 in the code)
    Workers         \* acceptor workers that can block in MatchResponse (4)

ASSUME AwaiterAssumption ==
    /\ Kind \in [Requests -> {"ping", "enr", "findnode"}]
    /\ Requests \subseteq DOMAIN Peer
    /\ Second \in Nat \ {0} /\ Expiration \in Nat /\ MaxNow \in Nat
    /\ BucketSize \in Nat \ {0} /\ MaxNeighbors \in Nat \ {0}
    /\ Workers \in Nat \ {0}

VARIABLES
    now,        \* the clock
    queue,      \* awaiter.queue: the pending requests, oldest first
    deadline,   \* GetExpiration() of each created request
    closes,     \* how often the request's channel was closed (2 would panic)
    err,        \* awaitableRequest.err
    received,   \* nreceived of a findnode request's Verify closure
    pc,         \* where the caller of execute is
    result,     \* what execute (findnode: makeFindNodeRequest) returned
    sent,       \* requests that reached the socket
    wire,       \* replies ever sent by the peers: any of them may arrive, any
                \* number of times, in any order, or never
    inhand      \* verified replies that acceptor workers are handing over

callVars == <<pc, result, sent>>
queueVars == <<queue, closes, err, received>>
vars == <<now, queue, deadline, closes, err, received, pc, result, sent,
          wire, inhand>>

(* A reply is the request it answers and its number of neighbours. *)
Reply == Requests \X (0 .. MaxNeighbors)
Tokened(r) == Kind[r] # "findnode"

Errors == {"nil", "deadline", "invalid"}
TypeOK ==
    /\ now \in Nat
    /\ queue \in Seq(Requests)
    /\ deadline \in [Requests -> Nat]
    /\ closes \in [Requests -> Nat]
    /\ err \in [Requests -> Errors]
    /\ received \in [Requests -> Nat]
    /\ pc \in [Requests -> {"new", "adding", "writing", "waiting", "returned"}]
    /\ result \in [Requests -> Errors \cup {"none", "write"}]
    /\ sent \subseteq Requests
    /\ wire \subseteq Reply /\ inhand \subseteq Reply

Init ==
    /\ now = 0
    /\ queue = << >>
    /\ deadline = [r \in Requests |-> 0]
    /\ closes = [r \in Requests |-> 0]
    /\ err = [r \in Requests |-> "nil"]
    /\ received = [r \in Requests |-> 0]
    /\ pc = [r \in Requests |-> "new"]
    /\ result = [r \in Requests |-> "none"]
    /\ sent = {} /\ wire = {} /\ inhand = {}

-----------------------------------------------------------------------------
(* The callers: PacketHandler.execute.                                     *)

(* A request is generated; its expiration is taken from the clock, in      *)
(* whole seconds, before the request reaches the awaiter.                  *)
Create(r) ==
    /\ pc[r] = "new"
    /\ now + Expiration < MaxNow
    /\ \E d \in 0 .. now + Expiration :
          /\ d % Second = 0 /\ now + Expiration < d + Second
          /\ deadline' = [deadline EXCEPT ![r] = d]
    /\ pc' = [pc EXCEPT ![r] = "adding"]
    /\ UNCHANGED <<now, queueVars, result, sent, wire, inhand>>

(* The caller blocks on reqCh until the awaiter goroutine takes it. *)
AddPending(r) ==
    /\ pc[r] = "adding"
    /\ queue' = Append(queue, r)
    /\ pc' = [pc EXCEPT ![r] = "writing"]
    /\ UNCHANGED <<now, deadline, closes, err, received, result, sent, wire,
                   inhand>>

Write(r) ==
    /\ pc[r] = "writing"
    /\ sent' = sent \cup {r}
    /\ pc' = [pc EXCEPT ![r] = "waiting"]
    /\ UNCHANGED <<now, deadline, queueVars, result, wire, inhand>>

(* What the caller of a request sees: makeFindNodeRequest drops the error  *)
(* when some neighbours were received.                                     *)
Outcome(r, e) == IF Kind[r] = "findnode" /\ received[r] # 0 THEN "nil" ELSE e

(* A failed write returns at once and leaves the request in the queue. *)
WriteFail(r) ==
    /\ pc[r] = "writing"
    /\ pc' = [pc EXCEPT ![r] = "returned"]
    /\ result' = [result EXCEPT ![r] = Outcome(r, "write")]
    /\ UNCHANGED <<now, deadline, queueVars, sent, wire, inhand>>

(* Await() returns once the channel is closed. *)
Return(r) ==
    /\ pc[r] = "waiting" /\ closes[r] > 0
    /\ pc' = [pc EXCEPT ![r] = "returned"]
    /\ result' = [result EXCEPT ![r] = Outcome(r, err[r])]
    /\ UNCHANGED <<now, deadline, queueVars, sent, wire, inhand>>

-----------------------------------------------------------------------------
(* The peers and the acceptor workers.                                     *)

(* A peer answers a request that reached it: a pong or an ENR response with *)
(* the request's token, or a packet of neighbours, which carries no token.  *)
Answer(r, n) ==
    /\ r \in sent
    /\ Tokened(r) => n = 0
    /\ wire' = wire \cup {<<r, n>>}
    /\ UNCHANGED <<now, deadline, queueVars, callVars, inhand>>

(* A worker takes a reply off the socket.  A pong and a neighbours packet  *)
(* that come in after the expiration they carry are dropped.  This         *)
(* program's peers copy the request's, others may set what they like: like *)
(* any packet a reply may be lost, and none is sure to be dropped.         *)
Receive(m) ==
    /\ m \in wire
    /\ m \notin inhand
    /\ Cardinality(inhand) < Workers
    /\ inhand' = inhand \cup {m}
    /\ UNCHANGED <<now, deadline, queueVars, callVars, wire>>

-----------------------------------------------------------------------------
(* The awaiter goroutine: one select branch at a time.                     *)

(* Same node id and IP, and the kind the request expects. *)
Matches(r, m) == Peer[r] = Peer[m[1]] /\ Kind[r] = Kind[m[1]]

(* Defective Verify: pongs and ENR responses are accepted whatever their token. *)
VerifyAnyToken(r, m) ==
    [ok |-> TRUE, done |-> Tokened(r) \/ received[r] + m[2] >= BucketSize]

(* The token is the hash of the signed request, and signing is             *)
(* deterministic: two requests of a kind to a peer differ only in their    *)
(* expiration, so those made in the same second have the same token.       *)
SameToken(r, q) == deadline[r] = deadline[q]

(* The two results of the request's Verify closure. *)
Verify(r, m) ==
    IF Tokened(r)
    THEN [ok |-> SameToken(r, m[1]), done |-> SameToken(r, m[1])]
    ELSE [ok |-> TRUE, done |-> received[r] + m[2] >= BucketSize]

(* The position a reply is paired with: the first match from the front. *)
FirstMatch(i, m) ==
    /\ Matches(queue[i], m)
    /\ \A j \in 1 .. i - 1 : ~ Matches(queue[j], m)

Mark(S, e) ==
    /\ closes' = [r \in Requests |-> IF r \in S THEN closes[r] + 1 ELSE closes[r]]
    /\ err' = [r \in Requests |-> IF r \in S THEN e ELSE err[r]]

Dequeue(i) == queue' = RemoveAt(queue, i)

MatchNothing(m) ==
    /\ \A i \in 1 .. Len(queue) : ~ Matches(queue[i], m)
    /\ UNCHANGED queueVars

MatchExpired(i, m) ==
    /\ now > deadline[queue[i]]
    /\ Dequeue(i) /\ Mark({queue[i]}, "deadline")
    /\ UNCHANGED received

(* The Verify closure of a findnode request counts the neighbours. *)
Count(r, m) ==
    received' = [received EXCEPT ![r] = IF Tokened(r) THEN @ ELSE @ + m[2]]

MatchDone(i, m) ==
    /\ now <= deadline[queue[i]]
    /\ Verify(queue[i], m).ok /\ Verify(queue[i], m).done
    /\ Count(queue[i], m)
    /\ Dequeue(i) /\ Mark({queue[i]}, "nil")

(* Defective branch: the request is marked but stays in the queue. *)
MatchInvalidKept(i, m) ==
    /\ now <= deadline[queue[i]]
    /\ ~ Verify(queue[i], m).ok /\ ~ Verify(queue[i], m).done
    /\ Mark({queue[i]}, "invalid")
    /\ UNCHANGED <<queue, received>>

MatchInvalid(i, m) ==
    /\ now <= deadline[queue[i]]
    /\ ~ Verify(queue[i], m).ok /\ ~ Verify(queue[i], m).done
    /\ Mark({queue[i]}, "invalid") /\ Dequeue(i)
    /\ UNCHANGED received

MatchPartial(i, m) ==
    /\ now <= deadline[queue[i]]
    /\ Verify(queue[i], m).ok /\ ~ Verify(queue[i], m).done
    /\ Count(queue[i], m)
    /\ UNCHANGED <<queue, closes, err>>

(* case reply := <-r.replyCh *)
MatchResponse(m) ==
    /\ m \in inhand
    /\ inhand' = inhand \ {m}
    /\ \/ MatchNothing(m)
       \/ \E i \in 1 .. Len(queue) :
              /\ FirstMatch(i, m)
              /\ \/ MatchExpired(i, m) \/ MatchDone(i, m)
                 \/ MatchInvalid(i, m) \/ MatchPartial(i, m)
    /\ UNCHANGED <<now, deadline, callVars, wire>>

(* Defective test: a request expires one tick early. *)
ExpiredEarly(r) == now + 1 >= deadline[r]

Expired(r) == now >= deadline[r]

(* Defective sweep: the walk starts at the second element and the head is  *)
(* forgotten.                                                              *)
CheckDeadlinesNoHead ==
    /\ queue # << >>
    /\ \E k \in 1 .. Len(queue) :
          /\ \A j \in 2 .. k : Expired(queue[j])
          /\ k < Len(queue) => ~ Expired(queue[k + 1])
          /\ queue' = <<Head(queue)>> \o SubSeq(queue, k + 1, Len(queue))
          /\ Mark({queue[j] : j \in 2 .. k}, "deadline")
    /\ UNCHANGED <<now, deadline, received, callVars, wire, inhand>>

(* case <-ticker.C.  The walk removes the expired elements that directly   *)
(* follow the head, up to the first one that is not expired, and then the  *)
(* head if it expired.  The ticker's adaptive period is abstracted: a tick *)
(* may come at any time, and does come.                                    *)
CheckDeadlines ==
    /\ queue # << >>
    /\ \E k \in 1 .. Len(queue) :
          /\ \A j \in 2 .. k : Expired(queue[j])
          /\ k < Len(queue) => ~ Expired(queue[k + 1])
          /\ LET rest == SubSeq(queue, k + 1, Len(queue))
             IN  queue' = IF Expired(queue[1]) THEN rest ELSE <<queue[1]>> \o rest
          /\ Mark({queue[j] : j \in 2 .. k} \cup
                  {r \in {queue[1]} : Expired(r)}, "deadline")
    /\ UNCHANGED <<now, deadline, received, callVars, wire, inhand>>

Advance ==
    /\ now < MaxNow
    /\ now' = now + 1
    /\ UNCHANGED <<deadline, queueVars, callVars, wire, inhand>>

-----------------------------------------------------------------------------
Next ==
    \/ \E r \in Requests :
          \/ Create(r) \/ AddPending(r) \/ Write(r) \/ WriteFail(r) \/ Return(r)
          \/ \E n \in 0 .. MaxNeighbors : Answer(r, n)
    \/ \E m \in wire : Receive(m)
    \/ \E m \in inhand : MatchResponse(m)
    \/ CheckDeadlines
    \/ Advance

Spec == Init /\ [][Next]_vars

(* Every goroutine that can run eventually runs, the ticker fires and time *)
(* passes; nothing is assumed of the peers, the network or the acceptor.   *)
Fairness ==
    /\ \A r \in Requests :
          WF_vars(AddPending(r) \/ Write(r) \/ WriteFail(r) \/ Return(r))
    /\ WF_vars(CheckDeadlines)
    /\ WF_vars(Advance)

FairSpec == Spec /\ Fairness

-----------------------------------------------------------------------------
(* Properties. *)

Queued(r) == Contains(queue, r)

(* A request's channel is closed at most once: mark() on a request that was *)
(* marked before would close a closed channel and panic the awaiter.        *)
NoDoubleClose == \A r \in Requests : closes[r] <= 1

(* A caller blocked in Await() is never forgotten: as long as its channel  *)
(* is open its request is in the awaiter's queue, whatever replies and     *)
(* sweeps other requests met.                                              *)
NoForgottenWaiter ==
    \A r \in Requests :
        pc[r] \in {"writing", "waiting"} /\ closes[r] = 0 => Queued(r)

Answered(r) ==
    \E m \in wire : /\ Matches(r, m)
                    /\ IF Tokened(r) THEN SameToken(r, m[1]) ELSE m[2] > 0

(* A ping or ENR request succeeds only when the peer answered it, or one   *)
(* with the same token; a findnode request only when its peer sent         *)
(* neighbours.                                                             *)
SuccessIsAnswered == \A r \in Requests : result[r] = "nil" => Answered(r)

(* No request times out early, and none is settled twice: what the awaiter *)
(* decided for a request stays what its caller will read.                  *)
VerdictIsFinal ==
    [][\A r \in Requests :
          /\ closes[r] > 0 => UNCHANGED <<err[r], closes[r]>>
          /\ closes[r] = 0 /\ err'[r] = "deadline" => now >= deadline[r]]_vars

Settled(r) == pc[r] = "returned" /\ ~ Queued(r)

(* Every caller of execute comes back and every request leaves the queue,  *)
(* those whose write failed and whose caller is gone included: again and   *)
(* again all the requests made so far are settled.                         *)
EveryRequestSettles == []<>(\A r \in Requests : pc[r] = "new" \/ Settled(r))

(* The abstract view of a request: its call and whether it was answered.   *)
Call(r) ==
    CASE pc[r] = "new" -> "idle"
      [] pc[r] = "returned" -> IF result[r] = "nil" THEN "ok" ELSE "failed"
      [] OTHER -> "waiting"

Promise == INSTANCE RequestReply WITH
    call <- [r \in Requests |-> Call(r)],
    answered <- {r \in Requests : pc[r] # "new" /\ Answered(r)}

(* The awaiter keeps the promise of module RequestReply: through every     *)
(* order of replies, sweeps and failed writes a call returns exactly once, *)
(* and with success only after an answer of its peer.                      *)
KeepsPromise == Promise!Spec
=============================================================================
