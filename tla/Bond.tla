-------------------------------- MODULE Bond --------------------------------
(***************************************************************************)
(* Bonding in discovery v4: crawler/net/discovery/v4 (handler.go,          *)
(* pingpong.go, findNode.go, enr.go) over the listener, the pool acceptor  *)
(* and the writer of crawler/net/discovery.                                *)
(*                                                                         *)
(* The listener reads packets and hands each to one of the acceptor's      *)
(* workers, which handles it to the end.  A ping of an unknown sender, or  *)
(* an ENR request of one, makes the worker ping it back and wait for the   *)
(* pong, which only another worker can take off the socket.  Goroutines of *)
(* the program (callers) bond with a peer before they send it a request.   *)
(*                                                                         *)
(* The awaiter is used by its promise (module Awaiter): a reply settles    *)
(* the first pending request of its peer and kind, every request expires.  *)
(* The 24 hours of a bond and the 20 seconds of a request pass at any      *)
(* time; the writer's throttling only delays a write.  FindFails is never  *)
(* raised (UpdateFindFails has no caller), so tryBond does not look at it. *)
(***************************************************************************)
EXTENDS Integers, FiniteSets, SequencesExt

CONSTANTS
    Peers,              \* (node id, IP) pairs
    Workers,            \* the acceptor's workers (4 in the program)
    Callers,            \* goroutines that make requests
    MaxGlobalFailures,  \* unanswered requests before a sender is faulty (5)
    MaxFaults,          \* bound on the fault count of a peer
    MaxQueue            \* bound on the queue, for requests whose write failed

NoJob == [peer |-> "none", tok |-> "none"]

ASSUME BondAssumption ==
    /\ Workers \cap Callers = {} /\ IsFiniteSet(Workers)
    /\ "none" \notin Workers \cup Callers
    /\ MaxGlobalFailures \in Nat /\ MaxFaults \in Nat /\ MaxQueue \in Nat

Actors == Workers \cup Callers

VARIABLES
    pongs,      \* peers whose LastPongReceived is less than 24 hours old
    pings,      \* peers whose LastPingReceived is less than 24 hours old
    failureMap, \* handler.failureMap
    table,      \* peers passed to AddSeenNode
    queue,      \* the awaiter's queue of pending requests
    verdict,    \* how an actor's request was settled, until it reads it
    at,         \* where a worker or a caller is
    job,        \* the packet a worker handles, the peer a caller asks
    loaded,     \* the fault count a worker loaded
    acceptor,   \* "new" before the first packet, "running", "done" after Stop
    everPing, everPong, \* history: peers that ever pinged us, answered us
    marks       \* history: requests of unbonded senders since the last clear

storeVars == <<pongs, pings, everPing, everPong>>
faultVars == <<failureMap, marks>>
awaitVars == <<queue, verdict>>
actorVars == <<at, job, loaded>>
vars == <<storeVars, faultVars, table, awaitVars, actorVars, acceptor>>

(* The token of a pending request is the actor that waits for it, or       *)
(* "none" when its write failed.                                           *)
Request == [tok : Actors \cup {"none"}, kind : {"ping", "request"},
            peer : Peers, callback : {"none", "seen", "clear"}]

Locations == {"idle", "gone", "await", "match", "swap", "faulty",
              "pinging", "bonded", "asleep", "asking"}

(* The actors whose request of a kind a peer may still answer in time. *)
Pending(kind, p) ==
    {q.tok : q \in {q \in ToSet(queue) : q.kind = kind /\ q.peer = p}} \cap Actors

TypeOK ==
    /\ pongs \subseteq Peers /\ pings \subseteq Peers /\ table \subseteq Peers
    /\ everPing \subseteq Peers /\ everPong \subseteq Peers
    /\ failureMap \in [Peers -> Nat] /\ marks \in [Peers -> Nat]
    /\ queue \in Seq(Request)
    /\ verdict \in [Actors -> {"none", "ok", "failed"}]
    /\ at \in [Actors -> Locations] /\ loaded \in [Actors -> Nat]
    /\ job \in [Actors -> [peer : Peers \cup {"none"},
                           tok : Actors \cup {"none", "late"}]]
    /\ acceptor \in {"new", "running", "done"}

Init ==
    /\ pongs = {} /\ pings = {} /\ everPing = {} /\ everPong = {} /\ table = {}
    /\ failureMap = [p \in Peers |-> 0] /\ marks = [p \in Peers |-> 0]
    /\ queue = << >> /\ verdict = [a \in Actors |-> "none"]
    /\ at = [a \in Actors |-> "idle"]
    /\ job = [a \in Actors |-> NoJob]
    /\ loaded = [a \in Actors |-> 0]
    /\ acceptor = "new"

(* An actor goes on to its next step; one that is done forgets its job. *)
Goto(a, to) ==
    /\ at' = [at EXCEPT ![a] = to]
    /\ job' = [job EXCEPT ![a] = IF to = "idle" THEN NoJob ELSE @]
    /\ loaded' = [loaded EXCEPT ![a] = 0]
Start(a, to, p, t) ==
    /\ at' = [at EXCEPT ![a] = to]
    /\ job' = [job EXCEPT ![a] = [peer |-> p, tok |-> t]]
    /\ loaded' = [loaded EXCEPT ![a] = 0]

Peer(a) == job[a].peer

-----------------------------------------------------------------------------
(* The listener and the acceptor.  The listener's loop reads a packet and  *)
(* waits in Accept until a worker takes it or chDone is closed; a packet   *)
(* it holds meanwhile is as good as one still in the socket.  Lost, late   *)
(* and repeated packets, and those a stopped listener does not read, are   *)
(* packets taken never, later or more than once.                           *)

(* A worker takes a packet; the first one Accept gets starts the workers. *)
Take(w) ==
    /\ at[w] = "idle"
    /\ acceptor' = IF acceptor = "new" THEN "running" ELSE acceptor

(* Stop's signal is taken by a goroutine that start made, so not before    *)
(* the first packet; the goroutine closes chDone.                          *)
Stop ==
    /\ acceptor = "running"
    /\ acceptor' = "done"
    /\ UNCHANGED <<storeVars, faultVars, table, awaitVars, actorVars>>

WorkerEnds(w) ==
    /\ at[w] = "idle" /\ acceptor = "done"
    /\ Goto(w, "gone")
    /\ UNCHANGED <<storeVars, faultVars, table, awaitVars, acceptor>>

-----------------------------------------------------------------------------
(* Requests: PacketHandler.execute over the awaiter.                       *)

(* The writer waits until its limits let the packet pass, and then sends   *)
(* it or fails.                                                            *)
write(sent, failed) ==
    \/ sent
    \/ Len(queue) < MaxQueue /\ failed

(* AddPending and then write.  When the write fails the actor goes on with *)
(* an error and the request stays queued.                                  *)
Send(a, kind, p, callback, waiting) ==
    LET q(t) == [tok |-> t, kind |-> kind, peer |-> p, callback |-> callback]
    IN  /\ write(queue' = Append(queue, q(a)) /\ Start(a, waiting, p, "none"),
                 queue' = Append(queue, q("none")) /\ Goto(a, "idle"))
        /\ UNCHANGED verdict

(* The request at position i leaves the queue and its waiter is told. *)
Settle(i, v) ==
    /\ queue' = RemoveAt(queue, i)
    /\ verdict' = [a \in Actors |-> IF a = queue[i].tok THEN v ELSE verdict[a]]

(* Defective sweep: the pings of the acceptor's workers have no deadline. *)
CheckDeadlinesCallers(i) ==
    /\ queue[i].tok \in Callers
    /\ Settle(i, "failed")
    /\ UNCHANGED <<storeVars, faultVars, table, actorVars, acceptor>>

(* A pending request reached its deadline. *)
CheckDeadlines(i) ==
    /\ Settle(i, "failed")
    /\ UNCHANGED <<storeVars, faultVars, table, actorVars, acceptor>>

(* Await returned: the actor reads the verdict. *)
Returned(a, v) ==
    /\ verdict[a] = v
    /\ verdict' = [verdict EXCEPT ![a] = "none"]
    /\ UNCHANGED queue

-----------------------------------------------------------------------------
(* The workers: HandlePacket, one action per packet and step of a handler. *)
(* A packet that does not decode, is expired or of an unknown type, or     *)
(* that the config refuses, changes nothing.                               *)

(* Defective handler: every sender of a ping enters the table. *)
HandlePingAdds(w, p) ==
    /\ Take(w)
    /\ pings' = pings \cup {p} /\ everPing' = everPing \cup {p}
    /\ table' = table \cup {p}
    /\ UNCHANGED <<pongs, everPong, faultVars, awaitVars, actorVars>>

(* VerifyPingRequest stores the time and HandlePingRequest writes a pong.  *)
(* If that worked, a sender without a recent pong is pinged back and the   *)
(* others enter the table.                                                 *)
HandlePing(w, p) ==
    /\ Take(w)
    /\ pings' = pings \cup {p} /\ everPing' = everPing \cup {p}
    /\ \/ UNCHANGED <<table, awaitVars, actorVars>>
       \/ /\ p \in pongs
          /\ table' = table \cup {p}
          /\ UNCHANGED <<awaitVars, actorVars>>
       \/ /\ p \notin pongs
          /\ Send(w, "ping", p, "seen", "await")
          /\ UNCHANGED table
    /\ UNCHANGED <<pongs, everPong, faultVars>>

(* makePingRequest returned, in HandlePingRequest or verifyENRRequest. *)
PingBackReturns(w) ==
    /\ at[w] = "await" /\ Goto(w, "idle")
    /\ Returned(w, "ok") \/ Returned(w, "failed")
    /\ UNCHANGED <<storeVars, faultVars, table, acceptor>>

(* VerifyPongResponse stores the time of any pong, awaited or not. *)
VerifyPong(w, p, t) ==
    /\ Take(w)
    /\ pongs' = pongs \cup {p} /\ everPong' = everPong \cup {p}
    /\ Start(w, "match", p, t)
    /\ UNCHANGED <<pings, everPing, faultVars, table, awaitVars>>

(* The positions of the requests of a kind that a packet of p may answer. *)
Expecting(kind, p) ==
    {i \in 1 .. Len(queue) : queue[i].kind = kind /\ queue[i].peer = p}

(* The callback of a matched ping runs on the awaiter's goroutine, before  *)
(* the request is settled.                                                 *)
Callback(q) ==
    /\ table' = IF q.callback = "seen" THEN table \cup {q.peer} ELSE table
    /\ IF q.callback = "clear"
       THEN /\ failureMap' = [failureMap EXCEPT ![q.peer] = 0]
            /\ marks' = [marks EXCEPT ![q.peer] = 0]
       ELSE UNCHANGED faultVars

(* MatchResponse: the first pending request that expects the packet is     *)
(* settled, with success if the token is its own (neighbours carry none).  *)
MatchResponse(kind, p, t) ==
    \/ /\ Expecting(kind, p) = {}
       /\ UNCHANGED <<awaitVars, table, faultVars>>
    \/ \E i \in Expecting(kind, p) :
          /\ \A j \in Expecting(kind, p) : i <= j
          /\ \/ /\ queue[i].tok = t \/ kind = "request"
                /\ Settle(i, "ok") /\ Callback(queue[i])
             \/ /\ queue[i].tok # t /\ Settle(i, "failed")
                /\ UNCHANGED <<table, faultVars>>

MatchPong(w) ==
    /\ at[w] = "match" /\ Goto(w, "idle")
    /\ MatchResponse("ping", Peer(w), job[w].tok)
    /\ UNCHANGED <<storeVars, acceptor>>

(* A neighbours packet or an ENR response; verifying it stores nothing.    *)
(* Neighbours that are not yet enough leave their request queued and       *)
(* change nothing here.                                                    *)
HandleReply(w, p, t) ==
    /\ Take(w)
    /\ MatchResponse("request", p, t)
    /\ UNCHANGED <<storeVars, actorVars>>

(* A findnode or ENR request of a bonded sender is answered, a findnode of *)
(* another is refused: either way the worker is done at once.              *)
Serve(w) ==
    /\ Take(w)
    /\ UNCHANGED <<storeVars, faultVars, table, awaitVars, actorVars>>

(* verifyENRRequest of an unbonded sender: markFault loads the count. *)
VerifyENRRequest(w, p) ==
    /\ failureMap[p] < MaxFaults
    /\ Take(w) /\ p \notin pongs
    /\ at' = [at EXCEPT ![w] = "swap"]
    /\ job' = [job EXCEPT ![w] = [peer |-> p, tok |-> "none"]]
    /\ loaded' = [loaded EXCEPT ![w] = failureMap[p]]
    /\ UNCHANGED <<storeVars, faultVars, table, awaitVars>>

(* Defective markFault: the count is stored without a comparison. *)
StoreFault(w) ==
    /\ at[w] = "swap" /\ Goto(w, "faulty")
    /\ failureMap' = [failureMap EXCEPT ![Peer(w)] = loaded[w] + 1]
    /\ marks' = [marks EXCEPT ![Peer(w)] = @ + 1]
    /\ UNCHANGED <<storeVars, table, awaitVars, acceptor>>

(* CompareAndSwap; when the count changed it is loaded again. *)
markFault(w) ==
    /\ at[w] = "swap"
    /\ IF failureMap[Peer(w)] = loaded[w]
       THEN /\ failureMap' = [failureMap EXCEPT ![Peer(w)] = @ + 1]
            /\ marks' = [marks EXCEPT ![Peer(w)] = @ + 1]
            /\ Goto(w, "faulty")
       ELSE /\ loaded' = [loaded EXCEPT ![w] = failureMap[Peer(w)]]
            /\ UNCHANGED <<faultVars, at, job>>
    /\ UNCHANGED <<storeVars, table, awaitVars, acceptor>>

(* isFaulty, and the ping back if it is not. *)
isFaulty(w) ==
    /\ at[w] = "faulty"
    /\ \/ /\ failureMap[Peer(w)] > MaxGlobalFailures
          /\ Goto(w, "idle")
          /\ UNCHANGED awaitVars
       \/ /\ failureMap[Peer(w)] <= MaxGlobalFailures
          /\ Send(w, "ping", Peer(w), "clear", "await")
    /\ UNCHANGED <<storeVars, faultVars, table, acceptor>>

-----------------------------------------------------------------------------
(* The callers: AskForRandomNodes, RequestENR and the queries of           *)
(* LookupRandom call tryBond first.                                        *)

CallerFrame == UNCHANGED <<storeVars, faultVars, table, acceptor>>

(* Ping does not bond first. *)
Ping(c, p) ==
    /\ at[c] = "idle" /\ Send(c, "ping", p, "none", "asking")
    /\ CallerFrame

(* checkBond, and a ping if there is no recent pong. *)
TryBond(c, p) ==
    /\ at[c] = "idle"
    /\ \/ p \in pongs /\ Start(c, "bonded", p, "none") /\ UNCHANGED awaitVars
       \/ p \notin pongs /\ Send(c, "ping", p, "none", "pinging")
    /\ CallerFrame

TryBondPinged(c) ==
    /\ at[c] = "pinging"
    /\ \/ Returned(c, "ok") /\ Goto(c, "bonded")
       \/ Returned(c, "failed") /\ Goto(c, "idle")
    /\ CallerFrame

(* Defective tryBond: it does not ask for the peer's own ping. *)
MakeRequestUnpinged(c) ==
    /\ at[c] \in {"bonded", "asleep"}
    /\ Send(c, "request", Peer(c), "none", "asking")
    /\ CallerFrame

(* With a recent ping of the peer the request goes out. *)
MakeRequest(c) ==
    /\ at[c] \in {"bonded", "asleep"} /\ Peer(c) \in pings
    /\ Send(c, "request", Peer(c), "none", "asking")
    /\ CallerFrame

(* Without one, the caller sleeps for 2 seconds and looks once more. *)
Sleep(c) ==
    /\ at[c] = "bonded" /\ Peer(c) \notin pings /\ Goto(c, "asleep")
    /\ UNCHANGED awaitVars /\ CallerFrame

BondFailure(c) ==
    /\ at[c] = "asleep" /\ Peer(c) \notin pings /\ Goto(c, "idle")
    /\ UNCHANGED awaitVars /\ CallerFrame

RequestReturns(c) ==
    /\ at[c] = "asking" /\ Goto(c, "idle")
    /\ Returned(c, "ok") \/ Returned(c, "failed")
    /\ CallerFrame

-----------------------------------------------------------------------------
(* 24 hours passed since the last pong, or the last ping, of a peer. *)
PongAges(p) ==
    /\ p \in pongs /\ pongs' = pongs \ {p}
    /\ UNCHANGED <<pings, everPing, everPong, faultVars, table, awaitVars, actorVars,
                   acceptor>>

PingAges(p) ==
    /\ p \in pings /\ pings' = pings \ {p}
    /\ UNCHANGED <<pongs, everPing, everPong, faultVars, table, awaitVars, actorVars,
                   acceptor>>

selectReactor(w, p) ==
    \/ HandlePing(w, p) \/ Serve(w) \/ VerifyENRRequest(w, p)
    \/ \E t \in Pending("ping", p) \cup {"late"} : VerifyPong(w, p, t)
    \/ \E t \in Pending("request", p) : HandleReply(w, p, t)

Worker(w) ==
    \/ PingBackReturns(w) \/ MatchPong(w)
    \/ markFault(w) \/ isFaulty(w)

Caller(c) ==
    \/ TryBondPinged(c) \/ MakeRequest(c)
    \/ Sleep(c) \/ BondFailure(c) \/ RequestReturns(c)

(* The listener's loop reads a packet and hands it to an idle worker. *)
Listen(w) == \E p \in Peers : selectReactor(w, p)

Next ==
    \/ \E w \in Workers : Worker(w) \/ WorkerEnds(w) \/ Listen(w)
    \/ \E c \in Callers : Caller(c) \/ \E p \in Peers : TryBond(c, p) \/ Ping(c, p)
    \/ \E i \in 1 .. Len(queue) : CheckDeadlines(i)
    \/ Stop
    \/ \E p \in Peers : PongAges(p) \/ PingAges(p)

Spec == Init /\ [][Next]_vars

(* Goroutines that can run do, and the oldest pending request expires.  An *)
(* idle worker that is offered packets again and again sees the closed     *)
(* channel at last: select chooses among its ready cases at random.        *)
(* Nothing is assumed of the peers: they need not send or answer anything. *)
FairSpec ==
    /\ Spec
    /\ \A w \in Workers : WF_vars(Worker(w)) /\ SF_vars(WorkerEnds(w))
    /\ \A c \in Callers : WF_vars(Caller(c))
    /\ WF_vars(queue # << >> /\ CheckDeadlines(1))

-----------------------------------------------------------------------------
(* Properties. *)

(* A bond is when both sides exchanged ping and pong: whichever goroutine  *)
(* stored them and whatever expired meanwhile, a findnode or ENR request   *)
(* only goes to a peer that has pinged us and has sent us a pong (awaited  *)
(* or not: verifyPong stores it before it is matched).                     *)
RequestsAreBonded ==
    \A i \in 1 .. Len(queue) :
        queue[i].kind = "request" => queue[i].peer \in everPing \cap everPong

(* Only nodes that have sent us a pong enter the table, be it through a    *)
(* worker that finds them bonded or through a callback that the awaiter    *)
(* runs for another worker.                                                *)
OnlyAnsweredEnterTable == table \subseteq everPong

(* The fault count, which decides whether a sender is pinged back, is the  *)
(* number of requests it made unbonded since it last answered such a ping: *)
(* workers that mark at once lose no mark, and a clearFault by the         *)
(* awaiter's goroutine between load and swap is not undone.                *)
FaultsAreCounted == failureMap = marks

(* When all workers are busy, say because each waits for a pong that none  *)
(* of them can take off the socket, one becomes free again: the deadlines  *)
(* of the pings release them whatever the peers do.                        *)
PoolRecovers ==
    (\A w \in Workers : at[w] \notin {"idle", "gone"})
        ~> (\E w \in Workers : at[w] \in {"idle", "gone"})

=============================================================================
