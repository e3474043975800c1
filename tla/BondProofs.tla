----------------------------- MODULE BondProofs -----------------------------
(***************************************************************************)
(* Proofs about Bond, for every set of peers, workers and callers and      *)
(* every value of the bounds.                                              *)
(***************************************************************************)
EXTENDS Bond, TLAPS

(* Where an actor waits for the verdict on its request. *)
Waiting == {"await", "pinging", "asking"}

(* An actor at work has a peer. *)
JobInv == \A a \in Actors : at[a] \notin {"idle", "gone"} => Peer(a) \in Peers

(* A bond that has not expired, and a table entry, were once stored. *)
StoreInv ==
    /\ pings \subseteq everPing /\ pongs \subseteq everPong
    /\ table \subseteq everPong

(* A worker with a pong in hand stored it before, and a caller that goes   *)
(* on with a bond found a stored pong or awaited one.                      *)
BondInv ==
    \A a \in Actors :
        at[a] \in {"match", "bonded", "asleep"} => Peer(a) \in everPong

(* A queued request, and the actor that waits for it. *)
Entry(q) ==
    /\ q.kind = "request" =>
          q.peer \in everPing /\ q.peer \in everPong /\ q.callback = "none"
    /\ q.tok \in Actors =>
          /\ at[q.tok] \in Waiting /\ verdict[q.tok] = "none"
          /\ q.peer = Peer(q.tok)
          /\ at[q.tok] = "pinging" => q.kind = "ping"

QueueInv ==
    /\ \A i \in 1 .. Len(queue) : Entry(queue[i])
    /\ \A i, j \in 1 .. Len(queue) :
          queue[i].tok \in Actors /\ queue[i].tok = queue[j].tok => i = j

(* Only waiting actors have a verdict, and a caller is told that its ping  *)
(* was answered only when its peer sent a pong.                            *)
VerdictInv ==
    \A a \in Actors :
        /\ verdict[a] # "none" => at[a] \in Waiting
        /\ verdict[a] = "ok" /\ at[a] = "pinging" => Peer(a) \in everPong

Inv == TypeOK /\ JobInv /\ StoreInv /\ BondInv /\ QueueInv /\ VerdictInv
-----------------------------------------------------------------------------
(* What each kind of step does to the queue and to the verdicts.           *)

More == everPing \subseteq everPing' /\ everPong \subseteq everPong'

(* Actors that do not wait may go anywhere where they do not wait either. *)
Undisturbed ==
    \A a \in Actors : at[a] \in Waiting \/ at'[a] \in Waiting =>
                          at'[a] = at[a] /\ job'[a] = job[a]

ActorTypes ==
    /\ at \in [Actors -> Locations] /\ loaded \in [Actors -> Nat]
    /\ job \in [Actors -> [peer : Peers \cup {"none"},
                           tok : Actors \cup {"none", "late"}]]

(* An actor that goes on to its next step. *)
LEMMA GotoFacts ==
    ASSUME ActorTypes, NEW a \in Actors, NEW to \in Locations, Goto(a, to)
    PROVE  /\ ActorTypes' /\ at'[a] = to /\ (to # "idle" => job'[a] = job[a])
           /\ \A b \in Actors \ {a} : at'[b] = at[b] /\ job'[b] = job[b]
  BY DEF ActorTypes, Goto, NoJob

(* An actor that takes up a peer. *)
LEMMA StartFacts ==
    ASSUME ActorTypes, NEW a \in Actors, NEW to \in Locations, NEW p \in Peers,
           NEW t \in Actors \cup {"none", "late"}, Start(a, to, p, t)
    PROVE  /\ ActorTypes' /\ at'[a] = to /\ job'[a] = [peer |-> p, tok |-> t]
           /\ \A b \in Actors \ {a} : at'[b] = at[b] /\ job'[b] = job[b]
  BY DEF ActorTypes, Start

(* A queued request stays right when its waiter does not move. *)
LEMMA EntryStays ==
    ASSUME Inv, More, NEW q, Entry(q),
           q.tok \in Actors => /\ at'[q.tok] = at[q.tok] /\ job'[q.tok] = job[q.tok]
                               /\ verdict'[q.tok] = verdict[q.tok]
    PROVE  Entry(q)'
  BY DEF More, Entry, Peer

(* A step that neither queues nor settles a request. *)
LEMMA QuietStep ==
    ASSUME Inv, More, Undisturbed, UNCHANGED awaitVars
    PROVE  QueueInv' /\ VerdictInv'
  <1>1. queue' = queue /\ verdict' = verdict
    BY DEF awaitVars
  <1>2. ASSUME NEW i \in 1 .. Len(queue) PROVE Entry(queue[i])'
    <2>1. Entry(queue[i])
      BY DEF Inv, QueueInv
    <2> QED BY <1>1, <2>1, EntryStays DEF Entry, Undisturbed
  <1>3. QueueInv'
    BY <1>1, <1>2 DEF Inv, QueueInv
  <1>4. VerdictInv'
    BY <1>1 DEF Inv, VerdictInv, Undisturbed, More, Peer
  <1> QED BY <1>3, <1>4

(* A request is queued, and its actor waits for it or, when the write      *)
(* failed, is done.                                                        *)
LEMMA SendStep ==
    ASSUME Inv, More, NEW a \in Actors, at[a] \notin Waiting,
           NEW kind \in {"ping", "request"}, NEW p \in Peers,
           NEW callback \in {"none", "seen", "clear"}, NEW waiting \in Waiting,
           kind = "request" => /\ p \in everPing' /\ p \in everPong'
                               /\ callback = "none",
           waiting = "pinging" => kind = "ping",
           Send(a, kind, p, callback, waiting)
    PROVE  /\ queue' \in Seq(Request) /\ QueueInv' /\ VerdictInv'
           /\ verdict' = verdict
           /\ ActorTypes' /\ at'[a] \in {waiting, "idle"}
           /\ at'[a] = waiting => job'[a].peer = p
           /\ \A b \in Actors \ {a} : at'[b] = at[b] /\ job'[b] = job[b]
  <1> USE DEF Inv
  <1> DEFINE q(t) == [tok |-> t, kind |-> kind, peer |-> p, callback |-> callback]
  <1>0. "none" \notin Actors /\ verdict[a] = "none" /\ Waiting \subseteq Locations
    BY BondAssumption DEF Actors, VerdictInv, Waiting, Locations, TypeOK
  <1>1. PICK t \in {a, "none"} :
           /\ queue' = Append(queue, q(t))
           /\ t = a => Start(a, waiting, p, "none")
           /\ t = "none" => Goto(a, "idle")
    BY <1>0 DEF Send, write
  <1>2. /\ verdict' = verdict
        /\ ActorTypes' /\ at'[a] = IF t = a THEN waiting ELSE "idle"
        /\ t = a => job'[a].peer = p
        /\ \A b \in Actors \ {a} : at'[b] = at[b] /\ job'[b] = job[b]
    <2>1. ActorTypes /\ "idle" \in Locations /\ waiting \in Locations
      BY <1>0 DEF TypeOK, ActorTypes, Locations
    <2>2. verdict' = verdict
      BY DEF Send
    <2>3. CASE t = a
      <3>1. Start(a, waiting, p, "none")
        BY <1>1, <2>3
      <3>2. "none" \in Actors \cup {"none", "late"}
        OBVIOUS
      <3>3. /\ ActorTypes' /\ at'[a] = waiting
            /\ job'[a] = [peer |-> p, tok |-> "none"]
            /\ \A b \in Actors \ {a} : at'[b] = at[b] /\ job'[b] = job[b]
        BY <2>1, <3>1, <3>2, StartFacts, Zenon
      <3> QED BY <2>2, <2>3, <3>3
    <2>4. CASE t = "none"
      <3>1. Goto(a, "idle")
        BY <1>1, <2>4
      <3> QED BY <1>0, <2>1, <2>2, <2>4, <3>1, GotoFacts
    <2> QED BY <2>3, <2>4
  <1>3. q(t) \in Request
    BY <1>0 DEF Request
  <1>4. /\ queue' \in Seq(Request) /\ Len(queue') = Len(queue) + 1
        /\ \A i \in 1 .. Len(queue) : queue'[i] = queue[i]
        /\ queue'[Len(queue) + 1] = q(t)
    BY <1>1, <1>3 DEF TypeOK
  <1>5. \A i \in 1 .. Len(queue) : queue[i].tok # a
    BY DEF QueueInv, Entry
  <1>6. Entry(q(t))'
    BY <1>0, <1>2 DEF Entry, Peer
  <1>7. ASSUME NEW i \in 1 .. Len(queue), NEW e, e = queue[i] PROVE Entry(e)'
    <2>1. Entry(e) /\ e.tok # a
      BY <1>5, <1>7 DEF QueueInv
    <2>2. e.tok \in Actors => /\ at'[e.tok] = at[e.tok] /\ job'[e.tok] = job[e.tok]
                              /\ verdict'[e.tok] = verdict[e.tok]
      BY <1>2, <2>1
    <2> QED BY <2>1, <2>2, EntryStays
  <1>8. QueueInv'
    <2>0. Len(queue) \in Nat
      BY DEF TypeOK
    <2>1. ASSUME NEW i \in 1 .. Len(queue') PROVE Entry(queue[i])'
      <3>1. CASE i = Len(queue) + 1
        BY <1>4, <1>6, <3>1, Zenon
      <3>2. CASE i \in 1 .. Len(queue)
        <4>1. PICK e : e = queue[i]
          OBVIOUS
        <4>2. Entry(e)' /\ queue'[i] = e
          BY <1>4, <1>7, <3>2, <4>1
        <4> QED BY <4>2, Zenon
      <3> QED BY <1>4, <2>0, <3>1, <3>2
    <2>2. \A i, j \in 1 .. Len(queue') :
             queue'[i].tok \in Actors /\ queue'[i].tok = queue'[j].tok => i = j
      <3>1. q(t).tok \in Actors => q(t).tok = a
        BY <1>0
      <3>2. \A i, j \in 1 .. Len(queue) :
               queue[i].tok \in Actors /\ queue[i].tok = queue[j].tok => i = j
        BY DEF QueueInv
      <3> HIDE DEF q
      <3> QED BY <1>4, <1>5, <2>0, <3>1, <3>2
    <2> QED BY <2>1, <2>2 DEF QueueInv
  <1>9. VerdictInv'
    BY <1>0, <1>2 DEF VerdictInv, More, Peer
  <1> QED BY <1>2, <1>4, <1>8, <1>9 DEF Waiting

(* What removing one element of a sequence leaves. *)
LEMMA RemoveAtFacts ==
    ASSUME NEW S, NEW q \in Seq(S), NEW i \in 1 .. Len(q)
    PROVE  LET p == RemoveAt(q, i)
           IN  /\ p \in Seq(S)
               /\ Len(p) = Len(q) - 1
               /\ \A j \in 1 .. Len(p) : p[j] = IF j < i THEN q[j] ELSE q[j + 1]
  <1> DEFINE a == SubSeq(q, 1, i - 1)
             b == SubSeq(q, i + 1, Len(q))
  <1>1. /\ a \in Seq(S) /\ Len(a) = i - 1
        /\ \A j \in 1 .. i - 1 : a[j] = q[j]
    OBVIOUS
  <1>2. /\ b \in Seq(S) /\ Len(b) = Len(q) - i
        /\ \A j \in 1 .. Len(q) - i : b[j] = q[j + i]
    OBVIOUS
  <1> HIDE DEF a, b
  <1>3. /\ a \o b \in Seq(S) /\ Len(a \o b) = Len(q) - 1
        /\ \A j \in 1 .. Len(a \o b) :
              (a \o b)[j] = IF j < i THEN a[j] ELSE b[j - (i - 1)]
    BY <1>1, <1>2
  <1>4. \A j \in 1 .. Len(q) - 1 :
              (a \o b)[j] = IF j < i THEN q[j] ELSE q[j + 1]
    BY <1>1, <1>2, <1>3
  <1> QED
    BY <1>3, <1>4 DEF a, b, RemoveAt

(* A pending request is settled and its waiter gets the verdict. *)
LEMMA SettleStep ==
    ASSUME Inv, More, Undisturbed, NEW i \in 1 .. Len(queue),
           NEW v \in {"ok", "failed"}, Settle(i, v),
           v = "ok" => queue[i].kind = "request" \/ queue[i].peer \in everPong
    PROVE  /\ queue' \in Seq(Request)
           /\ verdict' \in [Actors -> {"none", "ok", "failed"}]
           /\ QueueInv' /\ VerdictInv'
  <1> USE DEF Inv
  <1>1. /\ queue' \in Seq(Request) /\ Len(queue') = Len(queue) - 1
        /\ \A j \in 1 .. Len(queue') :
              queue'[j] = IF j < i THEN queue[j] ELSE queue[j + 1]
    BY RemoveAtFacts DEF Settle, TypeOK
  <1> DEFINE from(j) == IF j < i THEN j ELSE j + 1
  <1>2. \A j \in 1 .. Len(queue') :
           from(j) \in 1 .. Len(queue) /\ from(j) # i /\ queue'[j] = queue[from(j)]
    BY <1>1 DEF TypeOK
  <1>3. \A j, k \in 1 .. Len(queue') : from(j) = from(k) => j = k
    BY <1>1 DEF TypeOK
  <1> HIDE DEF from
  <1>4. \A j \in 1 .. Len(queue) : Entry(queue[j])
    BY DEF QueueInv
  <1>5. ASSUME NEW j \in 1 .. Len(queue') PROVE Entry(queue[j])'
    <2>1. PICK k \in 1 .. Len(queue) : k # i /\ queue'[j] = queue[k]
      BY <1>2
    <2>2. queue[k].tok \in Actors => queue[k].tok # queue[i].tok
      BY <2>1 DEF QueueInv
    <2>3. Entry(queue[k])
      BY <1>4
    <2>4. queue[k].tok \in Actors =>
             /\ at'[queue[k].tok] = at[queue[k].tok] /\ job'[queue[k].tok] = job[queue[k].tok]
             /\ verdict'[queue[k].tok] = verdict[queue[k].tok]
      BY <2>2, <2>3 DEF Settle, Undisturbed, Entry
    <2>5. PICK e : e = queue[k]
      OBVIOUS
    <2>6. Entry(e)'
      BY <2>3, <2>4, <2>5, EntryStays
    <2> QED BY <2>1, <2>5, <2>6, Zenon
  <1>6. ASSUME NEW j \in 1 .. Len(queue'), NEW k \in 1 .. Len(queue'),
               queue'[j].tok \in Actors, queue'[j].tok = queue'[k].tok
        PROVE  j = k
    BY <1>2, <1>3, <1>6 DEF QueueInv
  <1>7. QueueInv'
    BY <1>5, <1>6 DEF QueueInv
  <1>8. verdict' \in [Actors -> {"none", "ok", "failed"}]
    BY DEF Settle, TypeOK
  <1>9. ASSUME NEW a \in Actors
        PROVE  /\ verdict'[a] # "none" => at'[a] \in Waiting
               /\ verdict'[a] = "ok" /\ at'[a] = "pinging" => Peer(a)' \in everPong'
    <2>1. CASE a = queue[i].tok
      <3>1. Entry(queue[i])
        BY <1>4
      <3>2. at'[a] = at[a] /\ job'[a] = job[a] /\ at[a] \in Waiting
        BY <2>1, <3>1 DEF Entry, Undisturbed
      <3>3. verdict'[a] = v
        BY <2>1 DEF Settle
      <3> QED BY <2>1, <3>1, <3>2, <3>3 DEF Entry, More, Peer
    <2>2. CASE a # queue[i].tok
      <3>1. verdict'[a] = verdict[a]
        BY <2>2 DEF Settle
      <3> QED BY <3>1 DEF VerdictInv, Undisturbed, More, Peer, Waiting
    <2> QED BY <2>1, <2>2
  <1> QED BY <1>1, <1>7, <1>8, <1>9 DEF VerdictInv

(* An actor reads its verdict and goes on: no request of it is queued. *)
LEMMA ReturnStep ==
    ASSUME Inv, NEW a \in Actors, NEW v \in {"ok", "failed"}, Returned(a, v),
           UNCHANGED <<everPing, everPong>>,
           \A b \in Actors \ {a} : at'[b] = at[b] /\ job'[b] = job[b]
    PROVE  /\ queue' = queue /\ QueueInv' /\ VerdictInv'
           /\ verdict' \in [Actors -> {"none", "ok", "failed"}]
  <1> USE DEF Inv
  <1>1. /\ queue' = queue /\ verdict'[a] = "none"
        /\ verdict' \in [Actors -> {"none", "ok", "failed"}]
        /\ \A b \in Actors \ {a} : verdict'[b] = verdict[b]
    BY DEF Returned, TypeOK
  <1>2. \A i \in 1 .. Len(queue) : queue[i].tok # a
    BY DEF QueueInv, Entry, Returned
  <1>3. ASSUME NEW i \in 1 .. Len(queue) PROVE Entry(queue[i])'
    <2>1. Entry(queue[i]) /\ More
      BY DEF QueueInv, More
    <2> QED BY <1>1, <1>2, <2>1, EntryStays
  <1>4. QueueInv'
    BY <1>1, <1>3 DEF QueueInv
  <1>5. VerdictInv'
    BY <1>1 DEF VerdictInv, Peer
  <1> QED BY <1>1, <1>4, <1>5
(* A reply is paired with a pending request, or with none. *)
LEMMA MatchStep ==
    ASSUME Inv, Undisturbed, UNCHANGED storeVars, NEW kind \in {"ping", "request"},
           NEW p \in Peers, NEW t, MatchResponse(kind, p, t),
           kind = "ping" => p \in everPong
    PROVE  /\ queue' \in Seq(Request)
           /\ verdict' \in [Actors -> {"none", "ok", "failed"}]
           /\ QueueInv' /\ VerdictInv' /\ table' \subseteq everPong
           /\ failureMap' \in [Peers -> Nat] /\ marks' \in [Peers -> Nat]
  <1> USE DEF Inv
  <1>0. More
    BY DEF More, storeVars
  <1>1. CASE UNCHANGED <<awaitVars, table, faultVars>>
    BY <1>0, <1>1, QuietStep DEF awaitVars, faultVars, TypeOK, StoreInv
  <1>2. ASSUME NEW i \in Expecting(kind, p), Settle(i, "ok"), Callback(queue[i])
        PROVE  /\ queue' \in Seq(Request)
               /\ verdict' \in [Actors -> {"none", "ok", "failed"}]
               /\ QueueInv' /\ VerdictInv' /\ table' \subseteq everPong
               /\ failureMap' \in [Peers -> Nat] /\ marks' \in [Peers -> Nat]
    <2>1. i \in 1 .. Len(queue) /\ queue[i].kind = kind /\ queue[i].peer = p
      BY DEF Expecting
    <2>2. kind = "request" => queue[i].callback = "none"
      BY <2>1 DEF QueueInv, Entry
    <2>3. table' \subseteq everPong
      BY <1>2, <2>1, <2>2 DEF Callback, StoreInv
    <2>4. failureMap' \in [Peers -> Nat] /\ marks' \in [Peers -> Nat]
      <3>1. failureMap \in [Peers -> Nat] /\ marks \in [Peers -> Nat]
        BY DEF TypeOK
      <3>2. CASE queue[i].callback = "clear"
        BY <1>2, <3>1, <3>2 DEF Callback
      <3>3. CASE queue[i].callback # "clear"
        BY <1>2, <3>1, <3>3 DEF Callback, faultVars
      <3> QED BY <3>2, <3>3
    <2>5. /\ queue' \in Seq(Request)
          /\ verdict' \in [Actors -> {"none", "ok", "failed"}]
          /\ QueueInv' /\ VerdictInv'
      BY <1>0, <1>2, <2>1, SettleStep
    <2> QED BY <2>3, <2>4, <2>5
  <1>3. ASSUME NEW i \in Expecting(kind, p), Settle(i, "failed"),
               UNCHANGED <<table, faultVars>>
        PROVE  /\ queue' \in Seq(Request)
               /\ verdict' \in [Actors -> {"none", "ok", "failed"}]
               /\ QueueInv' /\ VerdictInv' /\ table' \subseteq everPong
               /\ failureMap' \in [Peers -> Nat] /\ marks' \in [Peers -> Nat]
    <2>1. i \in 1 .. Len(queue)
      BY DEF Expecting
    <2>2. /\ queue' \in Seq(Request)
          /\ verdict' \in [Actors -> {"none", "ok", "failed"}]
          /\ QueueInv' /\ VerdictInv'
      BY <1>0, <1>3, <2>1, SettleStep
    <2> QED BY <1>3, <2>2 DEF faultVars, TypeOK, StoreInv
  <1> QED BY <1>1, <1>2, <1>3, Zenon DEF MatchResponse

(* An actor's move keeps JobInv and BondInv if it leads to a place where   *)
(* the actor has what the place asks for.                                  *)
LEMMA MoveStep ==
    ASSUME Inv, More, NEW a \in Actors,
           \A b \in Actors \ {a} : at'[b] = at[b] /\ job'[b] = job[b],
           at'[a] \notin {"idle", "gone"} => job'[a].peer \in Peers,
           at'[a] \in {"match", "bonded", "asleep"} => job'[a].peer \in everPong'
    PROVE  JobInv' /\ BondInv'
  BY DEF Inv, JobInv, BondInv, More, Peer

-----------------------------------------------------------------------------
(* Every step of an acceptor worker keeps the invariant. *)
LEMMA WorkerStep ==
    ASSUME Inv, NEW w \in Workers, Worker(w) \/ WorkerEnds(w)
    PROVE  Inv'
  <1> USE DEF Inv
  <1>0. w \in Actors /\ ActorTypes /\ {"idle", "gone", "faulty", "await"} \subseteq Locations
    BY DEF Actors, TypeOK, ActorTypes, Locations
  <1>1. CASE PingBackReturns(w)
    <2>1. /\ ActorTypes' /\ at'[w] = "idle"
          /\ \A b \in Actors \ {w} : at'[b] = at[b] /\ job'[b] = job[b]
      BY <1>0, <1>1, GotoFacts DEF PingBackReturns
    <2>2. UNCHANGED <<storeVars, faultVars, table, acceptor>> /\ More
      BY <1>1 DEF PingBackReturns, More, storeVars
    <2>3. /\ queue' = queue /\ QueueInv' /\ VerdictInv'
          /\ verdict' \in [Actors -> {"none", "ok", "failed"}]
      BY <1>0, <1>1, <2>1, <2>2, ReturnStep DEF PingBackReturns, storeVars
    <2>4. JobInv' /\ BondInv'
      BY <1>0, <2>1, <2>2, MoveStep
    <2>5. TypeOK' /\ StoreInv'
      BY <2>1, <2>2, <2>3 DEF TypeOK, ActorTypes, StoreInv, storeVars, faultVars
    <2> QED BY <2>3, <2>4, <2>5
  <1>2. CASE MatchPong(w)
    <2>1. /\ ActorTypes' /\ at[w] = "match" /\ at'[w] = "idle"
          /\ \A b \in Actors \ {w} : at'[b] = at[b] /\ job'[b] = job[b]
      BY <1>0, <1>2, GotoFacts DEF MatchPong
    <2>2. UNCHANGED <<storeVars, acceptor>> /\ More /\ Undisturbed
      BY <1>2, <2>1 DEF MatchPong, More, storeVars, Undisturbed, Waiting
    <2>3. Peer(w) \in Peers /\ Peer(w) \in everPong
      BY <1>0, <2>1 DEF JobInv, BondInv
    <2>4. /\ queue' \in Seq(Request)
          /\ verdict' \in [Actors -> {"none", "ok", "failed"}]
          /\ QueueInv' /\ VerdictInv' /\ table' \subseteq everPong
          /\ failureMap' \in [Peers -> Nat] /\ marks' \in [Peers -> Nat]
      BY <1>2, <2>2, <2>3, MatchStep DEF MatchPong
    <2>5. JobInv' /\ BondInv'
      BY <1>0, <2>1, <2>2, MoveStep
    <2>6. TypeOK' /\ StoreInv'
      BY <2>1, <2>2, <2>4 DEF TypeOK, ActorTypes, StoreInv, storeVars
    <2> QED BY <2>4, <2>5, <2>6
  <1>3. CASE markFault(w)
    <2>1. UNCHANGED <<storeVars, table, awaitVars, acceptor>> /\ More /\ at[w] = "swap"
      BY <1>3 DEF markFault, More, storeVars
    <2>2. /\ ActorTypes' /\ at'[w] \in {"swap", "faulty"} /\ job'[w] = job[w]
          /\ \A b \in Actors \ {w} : at'[b] = at[b] /\ job'[b] = job[b]
          /\ failureMap' \in [Peers -> Nat] /\ marks' \in [Peers -> Nat]
      <3>1. CASE failureMap[Peer(w)] = loaded[w]
        <4>1. /\ failureMap' = [failureMap EXCEPT ![Peer(w)] = @ + 1]
              /\ marks' = [marks EXCEPT ![Peer(w)] = @ + 1]
              /\ Goto(w, "faulty")
          BY <1>3, <3>1 DEF markFault
        <4>2. failureMap' \in [Peers -> Nat] /\ marks' \in [Peers -> Nat]
          <5>1. /\ failureMap \in [Peers -> Nat] /\ marks \in [Peers -> Nat]
                /\ Peer(w) \in Peers
            BY <1>0, <2>1 DEF TypeOK, JobInv
          <5> QED BY <4>1, <5>1
        <4> QED BY <1>0, <4>1, <4>2, GotoFacts
      <3>2. CASE failureMap[Peer(w)] # loaded[w]
        <4>1. /\ loaded' = [loaded EXCEPT ![w] = failureMap[Peer(w)]]
              /\ UNCHANGED <<faultVars, at, job>>
          BY <1>3, <3>2 DEF markFault
        <4>2. failureMap[Peer(w)] \in Nat
          BY <1>0, <2>1 DEF JobInv, TypeOK
        <4> QED BY <2>1, <4>1, <4>2 DEF TypeOK, ActorTypes, faultVars
      <3> QED BY <3>1, <3>2
    <2>3. QueueInv' /\ VerdictInv'
      BY <1>0, <2>1, <2>2, QuietStep DEF Undisturbed, Waiting
    <2>4. JobInv' /\ BondInv'
      <3>1. job[w].peer \in Peers
        BY <1>0, <2>1 DEF JobInv, Peer
      <3> QED BY <1>0, <2>1, <2>2, <3>1, MoveStep
    <2>5. TypeOK' /\ StoreInv'
      BY <2>1, <2>2 DEF TypeOK, ActorTypes, StoreInv, storeVars, awaitVars
    <2> QED BY <2>3, <2>4, <2>5
  <1>4. CASE isFaulty(w)
    <2>1. UNCHANGED <<storeVars, faultVars, table, acceptor>> /\ More /\ at[w] = "faulty"
      BY <1>4 DEF isFaulty, More, storeVars
    <2>2. Peer(w) \in Peers
      BY <1>0, <2>1 DEF JobInv
    <2>3. CASE Goto(w, "idle") /\ UNCHANGED awaitVars
      <3>1. /\ ActorTypes' /\ at'[w] = "idle"
            /\ \A b \in Actors \ {w} : at'[b] = at[b] /\ job'[b] = job[b]
        BY <1>0, <2>3, GotoFacts
      <3>2. QueueInv' /\ VerdictInv'
        BY <1>0, <2>1, <2>3, <3>1, QuietStep DEF Undisturbed, Waiting
      <3>3. JobInv' /\ BondInv'
        BY <1>0, <2>1, <3>1, MoveStep
      <3>4. TypeOK' /\ StoreInv'
        BY <2>1, <2>3, <3>1 DEF TypeOK, ActorTypes, StoreInv, storeVars, awaitVars, faultVars
      <3> QED BY <3>2, <3>3, <3>4
    <2>4. CASE Send(w, "ping", Peer(w), "clear", "await")
      <3>1. /\ queue' \in Seq(Request) /\ QueueInv' /\ VerdictInv'
            /\ verdict' = verdict /\ ActorTypes' /\ at'[w] \in {"await", "idle"}
            /\ at'[w] = "await" => job'[w].peer = Peer(w)
            /\ \A b \in Actors \ {w} : at'[b] = at[b] /\ job'[b] = job[b]
        BY <1>0, <2>1, <2>2, <2>4, SendStep DEF Waiting
      <3>2. JobInv' /\ BondInv'
        BY <1>0, <2>1, <2>2, <3>1, MoveStep
      <3>3. TypeOK' /\ StoreInv'
        BY <2>1, <3>1 DEF TypeOK, ActorTypes, StoreInv, storeVars, faultVars
      <3> QED BY <3>1, <3>2, <3>3
    <2> QED BY <1>4, <2>3, <2>4 DEF isFaulty
  <1>5. CASE WorkerEnds(w)
    <2>1. /\ UNCHANGED <<storeVars, faultVars, table, awaitVars, acceptor>>
          /\ More /\ at[w] = "idle"
      BY <1>5 DEF WorkerEnds, More, storeVars
    <2>2. /\ ActorTypes' /\ at'[w] = "gone"
          /\ \A b \in Actors \ {w} : at'[b] = at[b] /\ job'[b] = job[b]
      BY <1>0, <1>5, GotoFacts DEF WorkerEnds
    <2>3. QueueInv' /\ VerdictInv'
      BY <1>0, <2>1, <2>2, QuietStep DEF Undisturbed, Waiting
    <2>4. JobInv' /\ BondInv'
      BY <1>0, <2>1, <2>2, MoveStep
    <2>5. TypeOK' /\ StoreInv'
      BY <2>1, <2>2 DEF TypeOK, ActorTypes, StoreInv, storeVars, awaitVars, faultVars
    <2> QED BY <2>3, <2>4, <2>5
  <1> QED BY <1>1, <1>2, <1>3, <1>4, <1>5 DEF Worker
(* Every packet that the listener hands to a worker keeps the invariant. *)
LEMMA ListenStep ==
    ASSUME Inv, NEW w \in Workers, NEW p \in Peers, selectReactor(w, p)
    PROVE  Inv'
  <1> USE DEF Inv
  <1>0. w \in Actors /\ ActorTypes /\ {"match", "swap", "await"} \subseteq Locations
    BY DEF Actors, TypeOK, ActorTypes, Locations
  <1>1. CASE HandlePing(w, p)
    <2>1. /\ at[w] = "idle" /\ acceptor' \in {"new", "running", "done"} /\ More
          /\ UNCHANGED <<pongs, everPong, faultVars>>
          /\ pings' \subseteq everPing' /\ everPing' \subseteq Peers
      BY <1>1 DEF HandlePing, Take, TypeOK, StoreInv, More
    <2>2. CASE UNCHANGED <<awaitVars, actorVars>> /\ table' \in {table, table \cup {p}}
                    /\ (table' # table => p \in pongs)
      <3>1. QueueInv' /\ VerdictInv'
        BY <2>1, <2>2, QuietStep DEF Undisturbed, actorVars
      <3>2. JobInv' /\ BondInv'
        BY <2>1, <2>2 DEF JobInv, BondInv, Peer, actorVars
      <3>3. TypeOK' /\ StoreInv'
        BY <2>1, <2>2 DEF TypeOK, StoreInv, actorVars, awaitVars, faultVars
      <3> QED BY <3>1, <3>2, <3>3
    <2>3. CASE Send(w, "ping", p, "seen", "await") /\ UNCHANGED table
      <3>1. /\ queue' \in Seq(Request) /\ QueueInv' /\ VerdictInv'
            /\ verdict' = verdict /\ ActorTypes' /\ at'[w] \in {"await", "idle"}
            /\ at'[w] = "await" => job'[w].peer = p
            /\ \A b \in Actors \ {w} : at'[b] = at[b] /\ job'[b] = job[b]
        BY <1>0, <2>1, <2>3, SendStep DEF Waiting
      <3>2. JobInv' /\ BondInv'
        BY <1>0, <2>1, <3>1, MoveStep
      <3>3. TypeOK' /\ StoreInv'
        BY <2>1, <2>3, <3>1 DEF TypeOK, ActorTypes, StoreInv, faultVars
      <3> QED BY <3>1, <3>2, <3>3
    <2> QED BY <1>1, <2>2, <2>3 DEF HandlePing, awaitVars
  <1>2. CASE Serve(w)
    <2>1. /\ UNCHANGED <<storeVars, faultVars, table, awaitVars, actorVars>> /\ More
          /\ acceptor' \in {"new", "running", "done"}
      BY <1>2 DEF Serve, Take, TypeOK, More, storeVars
    <2>2. QueueInv' /\ VerdictInv'
      BY <2>1, QuietStep DEF Undisturbed, actorVars
    <2>3. JobInv' /\ BondInv'
      BY <2>1 DEF JobInv, BondInv, Peer, actorVars, storeVars
    <2>4. TypeOK' /\ StoreInv'
      BY <2>1 DEF TypeOK, StoreInv, actorVars, awaitVars, faultVars, storeVars
    <2> QED BY <2>2, <2>3, <2>4
  <1>3. CASE VerifyENRRequest(w, p)
    <2>1. /\ UNCHANGED <<storeVars, faultVars, table, awaitVars>> /\ More
          /\ at[w] = "idle" /\ acceptor' \in {"new", "running", "done"}
      BY <1>3 DEF VerifyENRRequest, Take, TypeOK, More, storeVars
    <2>2. /\ ActorTypes' /\ at'[w] = "swap" /\ job'[w].peer = p
          /\ \A b \in Actors \ {w} : at'[b] = at[b] /\ job'[b] = job[b]
      <3>1. failureMap[p] \in Nat
        BY DEF TypeOK
      <3> QED BY <1>0, <1>3, <3>1 DEF VerifyENRRequest, ActorTypes
    <2>3. QueueInv' /\ VerdictInv'
      BY <1>0, <2>1, <2>2, QuietStep DEF Undisturbed, Waiting
    <2>4. JobInv' /\ BondInv'
      BY <1>0, <2>1, <2>2, MoveStep
    <2>5. TypeOK' /\ StoreInv'
      BY <2>1, <2>2 DEF TypeOK, ActorTypes, StoreInv, storeVars, awaitVars, faultVars
    <2> QED BY <2>3, <2>4, <2>5
  <1>4. ASSUME NEW t \in Pending("ping", p) \cup {"late"}, VerifyPong(w, p, t)
        PROVE  Inv'
    <2>1. /\ UNCHANGED <<pings, everPing, faultVars, table, awaitVars>> /\ More
          /\ at[w] = "idle" /\ acceptor' \in {"new", "running", "done"}
          /\ pongs' \subseteq everPong' /\ everPong' \subseteq Peers /\ p \in everPong'
      BY <1>4 DEF VerifyPong, Take, TypeOK, StoreInv, More
    <2>2. /\ ActorTypes' /\ at'[w] = "match" /\ job'[w].peer = p
          /\ \A b \in Actors \ {w} : at'[b] = at[b] /\ job'[b] = job[b]
      <3>1. t \in Actors \cup {"none", "late"}
        BY <1>4 DEF Pending
      <3>2. "match" \in Locations /\ Start(w, "match", p, t)
        BY <1>0, <1>4 DEF VerifyPong
      <3>3. /\ ActorTypes' /\ at'[w] = "match" /\ job'[w] = [peer |-> p, tok |-> t]
            /\ \A b \in Actors \ {w} : at'[b] = at[b] /\ job'[b] = job[b]
        BY <1>0, <3>1, <3>2, StartFacts, Zenon
      <3> QED BY <3>3
    <2>3. QueueInv' /\ VerdictInv'
      BY <1>0, <2>1, <2>2, QuietStep DEF Undisturbed, Waiting
    <2>4. JobInv' /\ BondInv'
      BY <1>0, <2>1, <2>2, MoveStep
    <2>5. TypeOK' /\ StoreInv'
      BY <2>1, <2>2 DEF TypeOK, ActorTypes, StoreInv, More, awaitVars, faultVars
    <2> QED BY <2>3, <2>4, <2>5
  <1>5. ASSUME NEW t, HandleReply(w, p, t) PROVE Inv'
    <2>1. /\ UNCHANGED <<storeVars, actorVars>> /\ More /\ Undisturbed
          /\ acceptor' \in {"new", "running", "done"}
      BY <1>5 DEF HandleReply, Take, TypeOK, More, storeVars, Undisturbed, actorVars
    <2>2. /\ queue' \in Seq(Request)
          /\ verdict' \in [Actors -> {"none", "ok", "failed"}]
          /\ QueueInv' /\ VerdictInv' /\ table' \subseteq everPong
          /\ failureMap' \in [Peers -> Nat] /\ marks' \in [Peers -> Nat]
      BY <1>5, <2>1, MatchStep DEF HandleReply
    <2>3. JobInv' /\ BondInv'
      BY <2>1 DEF JobInv, BondInv, Peer, actorVars, storeVars
    <2>4. TypeOK' /\ StoreInv'
      BY <2>1, <2>2 DEF TypeOK, StoreInv, actorVars, storeVars
    <2> QED BY <2>2, <2>3, <2>4
  <1> QED BY <1>1, <1>2, <1>3, <1>4, <1>5 DEF selectReactor

(* Every step of a caller keeps the invariant: what a request goes out     *)
(* with is what the caller found stored at two earlier moments.            *)
LEMMA CallerStep ==
    ASSUME Inv, NEW c \in Callers,
           Caller(c) \/ \E p \in Peers : TryBond(c, p) \/ Ping(c, p)
    PROVE  Inv'
  <1> USE DEF Inv
  <1>0. /\ c \in Actors /\ ActorTypes
        /\ {"idle", "pinging", "bonded", "asleep", "asking"} \subseteq Locations
    BY DEF Actors, TypeOK, ActorTypes, Locations
  <1>1. UNCHANGED <<storeVars, faultVars, table, acceptor>> /\ More
    BY DEF Caller, TryBond, Ping, TryBondPinged, MakeRequest, Sleep, BondFailure,
           RequestReturns, CallerFrame, More, storeVars
  (* A caller sends and waits, or failed to send. *)
  <1>2. ASSUME NEW kind \in {"ping", "request"}, NEW p \in Peers,
               NEW waiting \in {"pinging", "asking"}, at[c] \notin Waiting,
               kind = "request" => p \in everPing /\ p \in everPong,
               waiting = "pinging" => kind = "ping",
               Send(c, kind, p, "none", waiting)
        PROVE  Inv'
    <2>1. /\ queue' \in Seq(Request) /\ QueueInv' /\ VerdictInv'
          /\ verdict' = verdict /\ ActorTypes' /\ at'[c] \in {waiting, "idle"}
          /\ at'[c] = waiting => job'[c].peer = p
          /\ \A b \in Actors \ {c} : at'[b] = at[b] /\ job'[b] = job[b]
      BY <1>0, <1>1, <1>2, SendStep DEF Waiting, storeVars
    <2>2. JobInv' /\ BondInv'
      BY <1>0, <1>1, <2>1, MoveStep
    <2>3. TypeOK' /\ StoreInv'
      BY <1>1, <2>1 DEF TypeOK, ActorTypes, StoreInv, storeVars, faultVars
    <2> QED BY <2>1, <2>2, <2>3
  (* A caller moves on without a request and without a verdict. *)
  <1>3. ASSUME at[c] \notin Waiting, at'[c] \notin Waiting, ActorTypes', UNCHANGED awaitVars,
               \A b \in Actors \ {c} : at'[b] = at[b] /\ job'[b] = job[b],
               at'[c] # "idle" => job'[c].peer \in Peers /\ job'[c].peer \in everPong
        PROVE  Inv'
    <2>1. QueueInv' /\ VerdictInv'
      BY <1>0, <1>1, <1>3, QuietStep DEF Undisturbed
    <2>2. JobInv' /\ BondInv'
      BY <1>0, <1>1, <1>3, MoveStep DEF storeVars
    <2>3. TypeOK' /\ StoreInv'
      BY <1>1, <1>3 DEF TypeOK, ActorTypes, StoreInv, storeVars, faultVars, awaitVars
    <2> QED BY <2>1, <2>2, <2>3
  (* A caller reads its verdict. *)
  <1>4. ASSUME NEW v \in {"ok", "failed"}, Returned(c, v), NEW to \in {"idle", "bonded"},
               Goto(c, to), to = "bonded" => v = "ok" /\ at[c] = "pinging"
        PROVE  Inv'
    <2>1. /\ ActorTypes' /\ at'[c] = to /\ (to # "idle" => job'[c] = job[c])
          /\ \A b \in Actors \ {c} : at'[b] = at[b] /\ job'[b] = job[b]
      BY <1>0, <1>4, GotoFacts
    <2>2. /\ queue' = queue /\ QueueInv' /\ VerdictInv'
          /\ verdict' \in [Actors -> {"none", "ok", "failed"}]
      BY <1>0, <1>1, <1>4, <2>1, ReturnStep DEF storeVars
    <2>3. to = "bonded" => job[c].peer \in Peers /\ job[c].peer \in everPong
      BY <1>0, <1>4 DEF Returned, VerdictInv, JobInv, Peer
    <2>4. JobInv' /\ BondInv'
      BY <1>0, <1>1, <2>1, <2>3, MoveStep DEF storeVars
    <2>5. TypeOK' /\ StoreInv'
      BY <1>1, <2>1, <2>2 DEF TypeOK, ActorTypes, StoreInv, storeVars, faultVars
    <2> QED BY <2>2, <2>4, <2>5
  <1>5. ASSUME NEW p \in Peers, Ping(c, p) PROVE Inv'
    BY <1>2, <1>5 DEF Ping, Waiting
  <1>6. ASSUME NEW p \in Peers, TryBond(c, p) PROVE Inv'
    <2>1. at[c] = "idle" /\ at[c] \notin Waiting
      BY <1>6 DEF TryBond, Waiting
    <2>2. CASE p \in pongs /\ Start(c, "bonded", p, "none") /\ UNCHANGED awaitVars
      <3>1. /\ ActorTypes' /\ at'[c] = "bonded" /\ job'[c] = [peer |-> p, tok |-> "none"]
            /\ \A b \in Actors \ {c} : at'[b] = at[b] /\ job'[b] = job[b]
        <4>1. "none" \in Actors \cup {"none", "late"} /\ "bonded" \in Locations
          BY <1>0
        <4> QED BY <1>0, <2>2, <4>1, StartFacts, Zenon
      <3>2. job'[c].peer \in Peers /\ job'[c].peer \in everPong /\ "bonded" \notin Waiting
        BY <2>2, <3>1 DEF StoreInv, Waiting
      <3> QED BY <1>3, <2>1, <2>2, <3>1, <3>2
    <2>3. CASE Send(c, "ping", p, "none", "pinging")
      BY <1>2, <2>1, <2>3
    <2> QED BY <1>6, <2>2, <2>3 DEF TryBond
  <1>7. CASE TryBondPinged(c)
    BY <1>4, <1>7 DEF TryBondPinged
  <1>8. CASE MakeRequest(c)
    <2>1. /\ at[c] \notin Waiting /\ Peer(c) \in Peers
          /\ Peer(c) \in everPing /\ Peer(c) \in everPong
      BY <1>0, <1>8 DEF MakeRequest, Waiting, JobInv, BondInv, StoreInv
    <2>2. Send(c, "request", Peer(c), "none", "asking")
      BY <1>8 DEF MakeRequest
    <2> QED BY <1>2, <2>1, <2>2
  <1>9. CASE Sleep(c) \/ BondFailure(c)
    <2>1. /\ at[c] \in {"bonded", "asleep"} /\ at[c] \notin Waiting
          /\ job[c].peer \in Peers /\ job[c].peer \in everPong /\ UNCHANGED awaitVars
      BY <1>0, <1>9 DEF Sleep, BondFailure, Waiting, JobInv, BondInv, Peer
    <2>2. PICK to \in {"asleep", "idle"} : Goto(c, to)
      BY <1>9 DEF Sleep, BondFailure
    <2>3. /\ ActorTypes' /\ at'[c] = to /\ (to # "idle" => job'[c] = job[c])
          /\ \A b \in Actors \ {c} : at'[b] = at[b] /\ job'[b] = job[b]
      BY <1>0, <2>2, GotoFacts
    <2> QED BY <1>3, <2>1, <2>3 DEF Waiting
  <1>10. CASE RequestReturns(c)
    BY <1>4, <1>10 DEF RequestReturns
  <1> QED BY <1>5, <1>6, <1>7, <1>8, <1>9, <1>10 DEF Caller
-----------------------------------------------------------------------------
(* Everything starts within the invariant. *)
LEMMA InitInv == Init => Inv
  <1> SUFFICES ASSUME Init PROVE Inv
    OBVIOUS
  <1>1. TypeOK
    BY DEF Init, TypeOK, NoJob, Locations
  <1> QED BY <1>1 DEF Init, Inv, JobInv, StoreInv, BondInv, QueueInv, VerdictInv

(* Every step keeps the invariant. *)
LEMMA InvStep == Inv /\ [Next]_vars => Inv'
  <1> SUFFICES ASSUME Inv, [Next]_vars PROVE Inv'
    OBVIOUS
  <1>1. ASSUME NEW w \in Workers, Worker(w) \/ WorkerEnds(w) \/ Listen(w) PROVE Inv'
    BY <1>1, WorkerStep, ListenStep DEF Listen
  <1>2. ASSUME NEW c \in Callers,
               Caller(c) \/ \E p \in Peers : TryBond(c, p) \/ Ping(c, p)
        PROVE  Inv'
    BY <1>2, CallerStep
  <1>3. ASSUME NEW i \in 1 .. Len(queue), CheckDeadlines(i) PROVE Inv'
    <2>1. /\ UNCHANGED <<storeVars, faultVars, table, actorVars, acceptor>>
          /\ More /\ Undisturbed /\ Settle(i, "failed")
      BY <1>3 DEF CheckDeadlines, More, Undisturbed, storeVars, actorVars
    <2>2. /\ queue' \in Seq(Request)
          /\ verdict' \in [Actors -> {"none", "ok", "failed"}]
          /\ QueueInv' /\ VerdictInv'
      BY <2>1, SettleStep
    <2> QED BY <2>1, <2>2 DEF Inv, TypeOK, JobInv, StoreInv, BondInv, Peer, storeVars,
                              faultVars, actorVars
  <1>4. CASE UNCHANGED <<everPing, everPong, faultVars, table, awaitVars, actorVars>>
             /\ pings' \subseteq pings /\ pongs' \subseteq pongs
             /\ acceptor' \in {"new", "running", "done"}
    <2>1. More /\ Undisturbed /\ UNCHANGED awaitVars
      BY <1>4 DEF More, Undisturbed, actorVars
    <2>2. QueueInv' /\ VerdictInv'
      BY <2>1, QuietStep
    <2> QED BY <1>4, <2>2 DEF Inv, TypeOK, JobInv, StoreInv, BondInv, Peer, awaitVars,
                              faultVars, actorVars
  <1>5. Stop \/ (\E p \in Peers : PongAges(p) \/ PingAges(p)) \/ UNCHANGED vars => Inv'
    BY <1>4 DEF Stop, PongAges, PingAges, vars, storeVars, Inv, TypeOK
  <1> QED BY <1>1, <1>2, <1>3, <1>5 DEF Next

(* The inductive invariant holds throughout. *)
LEMMA Invariance == Spec => []Inv
  BY InitInv, InvStep, PTL DEF Spec

(* For any number of peers, workers and callers the state keeps its types: *)
(* a worker or caller that is at work has a peer of the network in hand.   *)
THEOREM TypeCorrect == Spec => [](TypeOK /\ JobInv)
  <1>1. Inv => TypeOK /\ JobInv
    BY DEF Inv
  <1> QED BY Invariance, <1>1, PTL

(* For any number of peers, workers and callers, findnode and ENR requests *)
(* only go to peers that pinged us and sent us a pong (tryBond).           *)
THEOREM OnlyBondedAreAsked == Spec => []RequestsAreBonded
  <1>1. Inv => RequestsAreBonded
    BY DEF Inv, QueueInv, Entry, RequestsAreBonded
  <1> QED BY Invariance, <1>1, PTL

(* For any number of peers, workers and callers, whoever enters the table  *)
(* has sent us a pong (HandlePingRequest and its callback).                *)
THEOREM TableIsAnswered == Spec => []OnlyAnsweredEnterTable
  <1>1. Inv => OnlyAnsweredEnterTable
    BY DEF Inv, StoreInv, OnlyAnsweredEnterTable
  <1> QED BY Invariance, <1>1, PTL

(* For any number of workers that mark and clear at once, the fault count  *)
(* of a sender is the number of its marks since the last clear             *)
(* (markFault, clearFault).                                                *)
THEOREM NoMarkIsLost == Spec => []FaultsAreCounted
  <1>1. Init => FaultsAreCounted
    BY DEF Init, FaultsAreCounted
  <1>2. FaultsAreCounted /\ [Next]_vars => FaultsAreCounted'
    <2> SUFFICES ASSUME FaultsAreCounted, [Next]_vars PROVE FaultsAreCounted'
      OBVIOUS
    <2> USE DEF FaultsAreCounted, faultVars
    <2>1. CASE UNCHANGED faultVars
      BY <2>1
    <2>2. ASSUME NEW kind, NEW p, NEW t, MatchResponse(kind, p, t)
          PROVE  FaultsAreCounted'
      BY <2>2 DEF MatchResponse, Callback
    <2>3. ASSUME NEW w \in Workers, Worker(w) PROVE FaultsAreCounted'
      <3>1. CASE markFault(w)
        BY <3>1 DEF markFault
      <3> QED BY <2>1, <2>2, <2>3, <3>1 DEF Worker, PingBackReturns, MatchPong, isFaulty
    <2>4. ASSUME NEW w \in Workers, NEW p \in Peers, selectReactor(w, p)
          PROVE  FaultsAreCounted'
      <3>1. ASSUME NEW t, HandleReply(w, p, t) PROVE FaultsAreCounted'
        BY <2>2, <3>1 DEF HandleReply
      <3> QED BY <2>1, <2>4, <3>1 DEF selectReactor, HandlePing, Serve,
                                      VerifyENRRequest, VerifyPong
    <2>5. ASSUME NEW c \in Callers,
                 Caller(c) \/ \E p \in Peers : TryBond(c, p) \/ Ping(c, p)
          PROVE  UNCHANGED faultVars
      BY <2>5 DEF Caller, TryBond, Ping, TryBondPinged, MakeRequest, Sleep,
                  BondFailure, RequestReturns, CallerFrame
    <2>6. ASSUME NEW w \in Workers, WorkerEnds(w) PROVE UNCHANGED faultVars
      BY <2>6 DEF WorkerEnds
    <2>7. ASSUME NEW i, CheckDeadlines(i) PROVE UNCHANGED faultVars
      BY <2>7 DEF CheckDeadlines
    <2>8. Stop \/ (\E p \in Peers : PongAges(p) \/ PingAges(p)) \/ UNCHANGED vars
             => UNCHANGED faultVars
      BY DEF Stop, PongAges, PingAges, vars
    <2> QED BY <2>1, <2>3, <2>4, <2>5, <2>6, <2>7, <2>8 DEF Next, Listen
  <1> QED BY <1>1, <1>2, PTL DEF Spec
=============================================================================
