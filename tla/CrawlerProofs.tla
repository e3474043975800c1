--------------------------- MODULE CrawlerProofs ---------------------------
(***************************************************************************)
(* Proofs about the crawler's loop and its workers, for any peers,         *)
(* neighbours, client information, workers and pauses.                     *)
(***************************************************************************)
EXTENDS Crawler, FiniteSetTheorems, TLAPS

(* A thread is at a place of its own code and has one peer at most; the    *)
(* loop holds entries only until it published them, a worker a neighbour   *)
(* only until it listed it.                                                *)
LoopPlaces == {"tick", "enqueue", "load", "swap", "push", "entries", "publish"}
WorkPlaces == {"idle", "load", "swap", "query", "compare", "store", "hook", "announce",
               "bump", "ask", "mark", "count", "list"}

PlaceInv ==
    /\ pc[Loop] \in LoopPlaces /\ \A w \in Workers : pc[w] \in WorkPlaces
    /\ \A t \in Threads : \A p, q \in peer[t] : p = q

HandInv ==
    /\ pc[Loop] # "publish" => entries = << >>
    /\ \A w \in Workers : pc[w] \notin {"count", "list"} => marking[w] = {}
    /\ \A w \in Workers : \A m, n \in marking[w] : m = n

(* What a worker stores and announces is information, ... *)
NewsInv ==
    \A w \in Workers :
        /\ pc[w] \in {"compare", "store", "announce"} => news[w] \in Infos
        /\ pc[w] = "hook" => \A p \in peer[w] : info[p] \in Infos

(* ... and what is stored was announced, or some worker is still to read   *)
(* it, or has read it and is about to announce it.                         *)
InfoInv ==
    \A p \in Peers :
        \/ info[p] = None \/ info[p] \in announced[p]
        \/ \E w \in Workers :
              /\ p \in peer[w]
              /\ pc[w] = "hook" \/ (pc[w] = "announce" /\ news[w] = info[p])

(* A counter holds the time of its last bump or a later one, until the     *)
(* pause is over: a refresh stores seconds, which are less.                *)
BumpInv ==
    \A c \in Counters :
        \/ bumpedAt[c] = 0 \/ last[c] >= bumpedAt[c]
        \/ now - bumpedAt[c] >= Frequency[c[2]]

(* The workers that stored a neighbour and have not listed it. *)
Holders(p, n) == {w \in Workers : p \in peer[w] /\ n \in marking[w]}

OnceInv ==
    /\ \A p \in Peers, n \in Neighbours : IsFiniteSet(Holders(p, n))
    /\ PublishedOnce

Inv == TypeOK /\ PlaceInv /\ HandInv /\ NewsInv /\ InfoInv /\ BumpInv /\ OnceInv

-----------------------------------------------------------------------------
(* Types. *)

(* The loop is no worker, and each peer has its two counters. *)
LEMMA ThreadFacts ==
    /\ Loop \in Threads /\ Loop \notin Workers /\ \A w \in Workers : w \in Threads
    /\ \A t \in Threads : t = Loop \/ t \in Workers
    /\ \A p \in Peers : <<p, "find">> \in Counters /\ <<p, "info">> \in Counters
  BY CrawlerAssumption DEF Threads, Counters, Kinds

(* Times are numbers, in milliseconds as in seconds. *)
LEMMA UnixType ==
    ASSUME TypeOK
    PROVE  Unix \in Nat /\ now \in Nat /\ last \in [Counters -> Nat] /\ loaded \in [Threads -> Nat]
           /\ bumpedAt \in [Counters -> Nat]
  <1>1. now \in Nat /\ Second \in Nat \ {0}
    BY CrawlerAssumption DEF TypeOK
  <1>2. now \div Second \in Nat
    <2>1. ASSUME NEW m \in Nat, NEW k \in Nat \ {0} PROVE m \div k \in Nat
      OBVIOUS
    <2> QED BY <1>1, <2>1, Zenon
  <1> QED BY <1>1, <1>2 DEF TypeOK, Unix

(* What CanRefresh does to a counter and to its thread. *)
Refreshed(t, yes, no) ==
    /\ loaded' \in [Threads -> Nat] /\ last' \in [Counters -> Nat]
    /\ allowedAt' \in [Counters -> Nat] /\ bumpedAt' = bumpedAt
    /\ pc[t] \in {"load", "swap"}
    /\ \E to \in {yes, no, "load", "swap"} : pc' = [pc EXCEPT ![t] = to]

(* Both steps of CanRefresh are of that form. *)
LEMMA RefreshFacts ==
    ASSUME TypeOK, NEW t \in Threads, NEW c \in Counters, NEW yes, NEW no,
           CanRefresh(t, c, yes, no)
    PROVE  Refreshed(t, yes, no)
  <1>1. CASE pc[t] = "load" /\ Load(t, c)
    BY <1>1 DEF Load, Goto, TypeOK, Refreshed
  <1>2. CASE pc[t] = "swap" /\ Allowed(t, c) /\ Goto(t, yes)
    BY <1>2, UnixType DEF Allowed, Goto, TypeOK, Refreshed
  <1>3. CASE /\ pc[t] = "swap"
             /\ \/ TooEarly(t, c) /\ Goto(t, no)
                \/ ~ TooEarly(t, c) /\ last[c] # loaded[t] /\ Goto(t, "load")
             /\ loaded' = [loaded EXCEPT ![t] = 0]
             /\ UNCHANGED <<last, allowedAt, bumpedAt>>
    BY <1>3 DEF Goto, TypeOK, Refreshed
  <1> QED BY <1>1, <1>2, <1>3 DEF CanRefresh

(* A bump writes the counter and nothing else. *)
LEMMA BumpFacts ==
    ASSUME TypeOK, NEW c \in Counters, Bump(c)
    PROVE  /\ loaded' = loaded /\ allowedAt' = allowedAt
           /\ last' \in [Counters -> Nat] /\ bumpedAt' \in [Counters -> Nat]
  BY UnixType DEF Bump, TypeOK

(* How often a neighbour is in a list. *)
LEMMA AmongFacts ==
    ASSUME NEW s \in Seq(Neighbours), NEW n
    PROVE  /\ Among(n, s) \in Nat /\ Among(n, << >>) = 0
           /\ \A m \in Neighbours :
                 Among(n, Append(s, m)) = Among(n, s) + (IF m = n THEN 1 ELSE 0)
  <1> DEFINE At(q) == {i \in DOMAIN q : q[i] = n}
  <1>1. IsFiniteSet(At(s))
    <2>1. DOMAIN s = 1 .. Len(s) /\ Len(s) \in Nat
      OBVIOUS
    <2>2. IsFiniteSet(1 .. Len(s))
      BY <2>1, FS_Interval
    <2> QED BY <2>1, <2>2, FS_Subset
  <1>2. Among(n, s) \in Nat
    BY <1>1, FS_CardinalityType DEF Among
  <1>3. Among(n, << >>) = 0
    <2>1. At(<< >>) = {}
      OBVIOUS
    <2> QED BY <2>1, FS_EmptySet DEF Among
  <1>4. ASSUME NEW m \in Neighbours
        PROVE  Among(n, Append(s, m)) = Among(n, s) + (IF m = n THEN 1 ELSE 0)
    <2> DEFINE k == Len(s) + 1
               q == Append(s, m)
    <2>1. /\ k \notin 1 .. Len(s) /\ DOMAIN q = 1 .. k /\ 1 .. k = (1 .. Len(s)) \cup {k}
          /\ q[k] = m /\ \A i \in 1 .. Len(s) : q[i] = s[i]
      OBVIOUS
    <2>2. DOMAIN s = 1 .. Len(s)
      OBVIOUS
    <2> HIDE DEF k, q
    <2>3. CASE m = n
      <3>1. At(q) = At(s) \cup {k} /\ k \notin At(s)
        BY <2>1, <2>2, <2>3
      <3>2. Cardinality(At(q)) = Cardinality(At(s)) + 1
        <4> DEFINE A == At(s)
        <4> HIDE DEF A, At
        <4> QED BY <1>1, <3>1, FS_AddElement DEF A
      <3> QED BY <2>3, <3>2 DEF Among, q
    <2>4. CASE m # n
      <3>1. At(q) = At(s)
        BY <2>1, <2>2, <2>4
      <3>2. Among(n, q) = Among(n, s)
        BY <3>1 DEF Among
      <3> QED BY <1>2, <2>4, <3>2 DEF q
    <2> QED BY <2>3, <2>4
  <1> QED BY <1>2, <1>3, <1>4

(* Every step keeps the types; an announcement is information by NewsInv. *)
LEMMA TypeStep ==
    ASSUME TypeOK, NewsInv, [Next]_vars
    PROVE  TypeOK'
  <1> USE ThreadFacts
  <1>1. ASSUME NEW p \in Peers, NewPeer(p) PROVE TypeOK'
    BY <1>1 DEF NewPeer, TypeOK, counterVars, nodeVars, infoVars
  <1>2. CASE Dequeue
    BY <1>2 DEF Dequeue, Goto, TypeOK, counterVars, nodeVars, infoVars
  <1>3. CASE Enqueue
    <2>1. PICK p \in peer[Loop] : buffer' = Append(buffer, p)
      BY <1>3 DEF Enqueue
    <2>2. buffer' \in Seq(Peers)
      BY <2>1 DEF TypeOK
    <2> QED BY <1>3, <2>2 DEF Enqueue, Goto, TypeOK, counterVars, nodeVars, infoVars
  <1>4. CASE RefreshFind
    <2>1. PICK p \in peer[Loop] : CanRefresh(Loop, <<p, "find">>, "push", "entries")
      BY <1>4 DEF RefreshFind
    <2> DEFINE c == <<p, "find">>
    <2>2. c \in Counters
      BY DEF TypeOK
    <2> HIDE DEF c
    <2>3. Refreshed(Loop, "push", "entries")
      <3>1. CanRefresh(Loop, c, "push", "entries") /\ Loop \in Threads
        BY <2>1 DEF c
      <3> QED BY <2>2, <3>1, RefreshFacts, Zenon
    <2> QED BY <1>4, <2>3 DEF RefreshFind, Refreshed, TypeOK, nodeVars, infoVars
  <1>5. CASE NewEntries
    BY <1>5 DEF NewEntries, Goto, TypeOK, counterVars, infoVars
  <1>6. CASE PublishNodeStats
    <2>1. PICK p \in peer[Loop] :
             published' = [published EXCEPT ![p] = [n \in Neighbours |-> @[n] + Among(n, entries)]]
      BY <1>6 DEF PublishNodeStats
    <2>2. p \in Peers /\ entries \in Seq(Neighbours)
      BY DEF TypeOK
    <2>3. [n \in Neighbours |-> published[p][n] + Among(n, entries)] \in [Neighbours -> Nat]
      <3>1. \A n \in Neighbours : published[p][n] \in Nat /\ Among(n, entries) \in Nat
        BY <2>2, AmongFacts DEF TypeOK
      <3> QED BY <3>1
    <2>4. published' \in [Peers -> [Neighbours -> Nat]]
      BY <2>1, <2>2, <2>3 DEF TypeOK
    <2> QED BY <1>6, <2>4 DEF PublishNodeStats, Goto, TypeOK, counterVars, infoVars
  <1>7. ASSUME NEW w \in Workers, Push(w) PROVE TypeOK'
    BY <1>7 DEF Push, TypeOK, counterVars, nodeVars, infoVars
  <1>8. ASSUME NEW w \in Workers, RefreshInfo(w) PROVE TypeOK'
    <2>1. PICK p \in peer[w] : CanRefresh(w, <<p, "info">>, "query", "ask")
      BY <1>8 DEF RefreshInfo
    <2> DEFINE c == <<p, "info">>
    <2>2. c \in Counters
      BY DEF TypeOK
    <2> HIDE DEF c
    <2>3. Refreshed(w, "query", "ask")
      <3>1. CanRefresh(w, c, "query", "ask") /\ w \in Threads
        BY <2>1 DEF c
      <3> QED BY <2>2, <3>1, RefreshFacts, Zenon
    <2>4. PICK to \in {"query", "ask", "load", "swap"} : pc' = [pc EXCEPT ![w] = to]
      BY <2>3 DEF Refreshed
    <2>5. /\ loaded' \in [Threads -> Nat] /\ last' \in [Counters -> Nat]
          /\ allowedAt' \in [Counters -> Nat] /\ bumpedAt' = bumpedAt
      BY <2>3 DEF Refreshed
    <2> QED BY <1>8, <2>4, <2>5 DEF RefreshInfo, TypeOK, nodeVars, infoVars
  <1>9. ASSUME NEW w \in Workers, Query(w) \/ Compare(w) \/ Store(w) \/ Hook(w) PROVE TypeOK'
    <2>1. CASE Query(w)
      <3>1. news' \in [Workers -> Infos \cup {None}]
        BY <2>1 DEF Query, TypeOK
      <3>2. pc' = [pc EXCEPT ![w] = "compare"] \/ pc' = [pc EXCEPT ![w] = "bump"]
        BY <2>1 DEF Query, Goto
      <3> QED BY <2>1, <3>1, <3>2 DEF Query, TypeOK, counterVars, nodeVars
    <2>2. CASE Compare(w)
      BY <2>2 DEF Compare, Goto, TypeOK, counterVars, nodeVars, infoVars
    <2>3. CASE Store(w)
      BY <2>3 DEF Store, Goto, TypeOK, counterVars, nodeVars
    <2>4. CASE Hook(w)
      BY <2>4 DEF Hook, Goto, TypeOK, counterVars, nodeVars
    <2> QED BY <1>9, <2>1, <2>2, <2>3, <2>4
  <1>10. ASSUME NEW w \in Workers, Announce(w) PROVE TypeOK'
    <2>1. news[w] \in Infos
      BY <1>10 DEF Announce, NewsInv
    <2> QED BY <1>10, <2>1 DEF Announce, Goto, TypeOK, counterVars, nodeVars
  <1>11. ASSUME NEW w \in Workers, BumpInfo(w) PROVE TypeOK'
    <2>1. PICK p \in peer[w] : Bump(<<p, "info">>)
      BY <1>11 DEF BumpInfo
    <2>2. /\ loaded' = loaded /\ allowedAt' = allowedAt
          /\ last' \in [Counters -> Nat] /\ bumpedAt' \in [Counters -> Nat]
      BY <2>1, BumpFacts DEF TypeOK
    <2> QED BY <1>11, <2>2 DEF BumpInfo, Goto, TypeOK, nodeVars
  <1>12. ASSUME NEW w \in Workers, Ask(w) PROVE TypeOK'
    <2>1. PICK p \in peer[w], S \in SUBSET Neighbours :
             Bump(<<p, "find">>) /\ found' = [found EXCEPT ![w] = S]
      BY <1>12 DEF Ask
    <2>2. /\ loaded' = loaded /\ allowedAt' = allowedAt
          /\ last' \in [Counters -> Nat] /\ bumpedAt' \in [Counters -> Nat]
      BY <2>1, BumpFacts DEF TypeOK
    <2>3. found' \in [Workers -> SUBSET Neighbours]
      BY <2>1 DEF TypeOK
    <2> QED BY <1>12, <2>2, <2>3 DEF Ask, Goto, TypeOK, infoVars
  <1>13. ASSUME NEW w \in Workers, Mark(w) PROVE TypeOK'
    <2>1. PICK n \in found[w], p \in peer[w] :
             /\ found' = [found EXCEPT ![w] = @ \ {n}]
             /\ known' = [known EXCEPT ![p] = @ \cup {n}]
             /\ IF n \in known[p]
                THEN Goto(w, "mark") /\ UNCHANGED marking
                ELSE Goto(w, "count") /\ marking' = [marking EXCEPT ![w] = {n}]
      BY <1>13 DEF Mark
    <2>2. n \in Neighbours /\ p \in Peers
      BY DEF TypeOK
    <2>3. /\ found' \in [Workers -> SUBSET Neighbours] /\ known' \in [Peers -> SUBSET Neighbours]
          /\ marking' \in [Workers -> SUBSET Neighbours]
      <3>0. /\ found \in [Workers -> SUBSET Neighbours] /\ known \in [Peers -> SUBSET Neighbours]
            /\ marking \in [Workers -> SUBSET Neighbours]
        BY DEF TypeOK
      <3>1. found' \in [Workers -> SUBSET Neighbours]
        BY <2>1, <3>0
      <3>2. known' \in [Peers -> SUBSET Neighbours]
        BY <2>1, <2>2, <3>0
      <3>3. marking' = marking \/ marking' = [marking EXCEPT ![w] = {n}]
        BY <2>1
      <3>4. marking' \in [Workers -> SUBSET Neighbours]
        BY <2>2, <3>0, <3>3
      <3> QED BY <3>1, <3>2, <3>4
    <2>4. pc' = [pc EXCEPT ![w] = "mark"] \/ pc' = [pc EXCEPT ![w] = "count"]
      BY <2>1 DEF Goto
    <2> QED BY <1>13, <2>3, <2>4 DEF Mark, TypeOK, counterVars, infoVars
  <1>14. ASSUME NEW w \in Workers, Count(w) \/ List(w) \/ Finish(w) PROVE TypeOK'
    <2>1. CASE Count(w)
      BY <2>1 DEF Count, Goto, TypeOK, counterVars, infoVars
    <2>2. CASE List(w)
      BY <2>2, SMTT(30) DEF List, Goto, TypeOK, counterVars, infoVars
    <2>3. CASE Finish(w)
      BY <2>3 DEF Finish, Goto, TypeOK, counterVars, nodeVars, infoVars
    <2> QED BY <1>14, <2>1, <2>2, <2>3
  <1>15. CASE Advance
    BY <1>15, CrawlerAssumption, SMTT(30) DEF Advance, TypeOK, counterVars, nodeVars, infoVars
  <1>16. CASE UNCHANGED vars
    BY <1>16 DEF vars, TypeOK, counterVars, nodeVars, infoVars
  <1> QED BY <1>1, <1>2, <1>3, <1>4, <1>5, <1>6, <1>7, <1>8, <1>9, <1>10, <1>11, <1>12,
             <1>13, <1>14, <1>15, <1>16 DEF Next, RunLoop, OnData

-----------------------------------------------------------------------------
(* Where the threads are. *)

Moves(t, S) == \E to \in S : pc' = [pc EXCEPT ![t] = to]

(* A worker's step moves the worker only, and drops its peer at the end. *)
LEMMA WorkerMoves ==
    ASSUME TypeOK, NEW w \in Workers, OnData(w)
    PROVE  /\ Moves(w, WorkPlaces)
           /\ peer' = peer \/ peer' = [peer EXCEPT ![w] = {}]
  <1>1. CASE RefreshInfo(w)
    <2>1. PICK p \in peer[w] : CanRefresh(w, <<p, "info">>, "query", "ask")
      BY <1>1 DEF RefreshInfo
    <2> DEFINE c == <<p, "info">>
    <2>2. c \in Counters /\ w \in Threads
      BY ThreadFacts DEF TypeOK
    <2>3. CanRefresh(w, c, "query", "ask")
      BY <2>1
    <2> HIDE DEF c
    <2>4. Refreshed(w, "query", "ask")
      BY <2>2, <2>3, RefreshFacts, Zenon
    <2>5. PICK to \in {"query", "ask", "load", "swap"} : pc' = [pc EXCEPT ![w] = to]
      BY <2>4 DEF Refreshed
    <2>6. to \in WorkPlaces /\ peer' = peer
      BY <1>1 DEF WorkPlaces, RefreshInfo
    <2> QED BY <2>5, <2>6 DEF Moves
  <1>2. CASE Query(w) \/ Compare(w) \/ Store(w) \/ Hook(w) \/ Announce(w)
    <2>1. /\ peer' = peer
          /\ \E to \in {"compare", "bump", "store", "hook", "announce"} : pc' = [pc EXCEPT ![w] = to]
      BY <1>2 DEF Query, Compare, Store, Hook, Announce, Goto
    <2> QED BY <2>1 DEF Moves, WorkPlaces
  <1>3. CASE BumpInfo(w) \/ Ask(w) \/ Mark(w) \/ Count(w) \/ List(w)
    <2>1. /\ peer' = peer
          /\ \E to \in {"ask", "mark", "count", "list"} : pc' = [pc EXCEPT ![w] = to]
      BY <1>3 DEF BumpInfo, Ask, Mark, Count, List, Goto
    <2> QED BY <2>1 DEF Moves, WorkPlaces
  <1>4. CASE Finish(w)
    BY <1>4 DEF Finish, Goto, Moves, WorkPlaces
  <1> QED BY <1>1, <1>2, <1>3, <1>4 DEF OnData

(* The loop's step moves the loop, and takes one peer at a time. *)
LEMMA LoopMoves ==
    ASSUME TypeOK, Dequeue \/ Enqueue \/ RefreshFind \/ NewEntries \/ PublishNodeStats
    PROVE  /\ Moves(Loop, LoopPlaces)
           /\ peer' = peer \/ peer' = [peer EXCEPT ![Loop] = {Head(buffer)}]
  <1>1. CASE RefreshFind
    <2>1. PICK p \in peer[Loop] : CanRefresh(Loop, <<p, "find">>, "push", "entries")
      BY <1>1 DEF RefreshFind
    <2> DEFINE c == <<p, "find">>
    <2>2. c \in Counters /\ Loop \in Threads
      BY ThreadFacts DEF TypeOK
    <2>3. CanRefresh(Loop, c, "push", "entries")
      BY <2>1
    <2> HIDE DEF c
    <2>4. Refreshed(Loop, "push", "entries")
      BY <2>2, <2>3, RefreshFacts, Zenon
    <2>5. PICK to \in {"push", "entries", "load", "swap"} : pc' = [pc EXCEPT ![Loop] = to]
      BY <2>4 DEF Refreshed
    <2>6. to \in LoopPlaces /\ peer' = peer
      BY <1>1 DEF LoopPlaces, RefreshFind
    <2> QED BY <2>5, <2>6 DEF Moves
  <1>2. CASE Dequeue
    BY <1>2 DEF Dequeue, Goto, Moves, LoopPlaces
  <1>3. CASE Enqueue \/ NewEntries \/ PublishNodeStats
    <2>1. /\ peer' = peer
          /\ \E to \in {"load", "tick", "publish"} : pc' = [pc EXCEPT ![Loop] = to]
      BY <1>3 DEF Enqueue, NewEntries, PublishNodeStats, Goto
    <2> QED BY <2>1 DEF Moves, LoopPlaces
  <1> QED BY <1>1, <1>2, <1>3

(* So each thread stays in its own code. *)
LEMMA PlaceStep ==
    ASSUME TypeOK, PlaceInv, [Next]_vars
    PROVE  PlaceInv'
  <1>0. pc \in [Threads -> LoopPlaces \cup WorkPlaces] /\ peer \in [Threads -> SUBSET Peers]
    BY DEF TypeOK, LoopPlaces, WorkPlaces
  <1>1. CASE UNCHANGED <<pc, peer>>
    BY <1>1 DEF PlaceInv
  <1>2. ASSUME NEW w \in Workers, OnData(w) PROVE PlaceInv'
    <2>1. Moves(w, WorkPlaces) /\ (peer' = peer \/ peer' = [peer EXCEPT ![w] = {}])
      BY <1>2, WorkerMoves
    <2> QED BY <1>0, <2>1, ThreadFacts DEF PlaceInv, Moves
  <1>3. CASE Dequeue \/ Enqueue \/ RefreshFind \/ NewEntries \/ PublishNodeStats
    <2>1. /\ Moves(Loop, LoopPlaces)
          /\ peer' = peer \/ peer' = [peer EXCEPT ![Loop] = {Head(buffer)}]
      BY <1>3, LoopMoves
    <2> QED BY <1>0, <2>1, ThreadFacts DEF PlaceInv, Moves
  <1>4. ASSUME NEW w \in Workers, Push(w) PROVE PlaceInv'
    <2>1. /\ pc' = [pc EXCEPT ![Loop] = "entries", ![w] = "load"]
          /\ peer' = [peer EXCEPT ![w] = peer[Loop]]
      BY <1>4 DEF Push
    <2>2. pc'[Loop] = "entries" /\ pc'[w] = "load" /\ \A x \in Workers \ {w} : pc'[x] = pc[x]
      BY <1>0, <2>1, ThreadFacts
    <2>3. "entries" \in LoopPlaces /\ "load" \in WorkPlaces
      BY DEF LoopPlaces, WorkPlaces
    <2>4. \A t \in Threads : \A p, q \in peer'[t] : p = q
      BY <1>0, <2>1, ThreadFacts DEF PlaceInv
    <2> QED BY <2>2, <2>3, <2>4 DEF PlaceInv
  <1>5. ASSUME NEW p \in Peers, NewPeer(p) PROVE PlaceInv'
    BY <1>1, <1>5 DEF NewPeer
  <1>6. CASE Advance
    BY <1>1, <1>6 DEF Advance
  <1>7. CASE UNCHANGED vars
    BY <1>1, <1>7 DEF vars
  <1> QED BY <1>2, <1>3, <1>4, <1>5, <1>6, <1>7 DEF Next, RunLoop

(* What the threads hold.                                                  *)
LEMMA HandStep ==
    ASSUME TypeOK, PlaceInv, HandInv, [Next]_vars
    PROVE  HandInv'
  <1> DEFINE LoopPart == pc[Loop] # "publish" => entries = << >>
             WorkPart == /\ \A w \in Workers : pc[w] \notin {"count", "list"} => marking[w] = {}
                         /\ \A w \in Workers : \A m, n \in marking[w] : m = n
  <1>0. /\ pc \in [Threads -> LoopPlaces \cup WorkPlaces]
        /\ marking \in [Workers -> SUBSET Neighbours]
    BY DEF TypeOK, LoopPlaces, WorkPlaces
  <1>1. CASE UNCHANGED <<pc, entries, marking>>
    BY <1>1 DEF HandInv
  <1>2. ASSUME UNCHANGED marking, \A x \in Workers : pc'[x] = pc[x] \/ pc[x] \notin {"count", "list"}
        PROVE  WorkPart'
    BY <1>2 DEF HandInv
  <1>3. CASE Dequeue \/ Enqueue \/ RefreshFind \/ NewEntries \/ PublishNodeStats
    <2>1. Moves(Loop, LoopPlaces)
      BY <1>3, LoopMoves
    <2>2. \A x \in Workers : pc'[x] = pc[x]
      BY <1>0, <2>1, ThreadFacts DEF Moves
    <2>3. UNCHANGED marking
      BY <1>3 DEF Dequeue, Enqueue, RefreshFind, NewEntries, PublishNodeStats, nodeVars
    <2>4. WorkPart'
      BY <1>2, <2>2, <2>3
    <2>5. LoopPart'
      <3>1. CASE Dequeue
        BY <3>1 DEF Dequeue, nodeVars, HandInv
      <3>2. CASE Enqueue
        BY <3>2 DEF Enqueue, nodeVars, HandInv
      <3>3. CASE RefreshFind
        BY <3>3 DEF RefreshFind, nodeVars, HandInv, CanRefresh
      <3>4. CASE NewEntries
        <4>1. PICK p \in peer[Loop] :
                 /\ entries' = fresh[p]
                 /\ pc' = [pc EXCEPT ![Loop] = IF fresh[p] = << >> THEN "tick" ELSE "publish"]
          BY <3>4 DEF NewEntries, Goto
        <4> QED BY <1>0, <4>1, ThreadFacts
      <3>5. CASE PublishNodeStats
        BY <3>5 DEF PublishNodeStats
      <3> QED BY <1>3, <3>1, <3>2, <3>3, <3>4, <3>5
    <2> QED BY <2>4, <2>5 DEF HandInv
  <1>4. ASSUME NEW w \in Workers, Push(w) PROVE HandInv'
    <2>1. /\ pc[Loop] = "push" /\ pc[w] = "idle" /\ UNCHANGED <<entries, marking>>
          /\ pc' = [pc EXCEPT ![Loop] = "entries", ![w] = "load"]
      BY <1>4 DEF Push, nodeVars
    <2>2. \A x \in Workers : pc'[x] = pc[x] \/ pc[x] \notin {"count", "list"}
      BY <1>0, <2>1, ThreadFacts
    <2>3. WorkPart'
      BY <1>2, <2>1, <2>2
    <2> QED BY <2>1, <2>3 DEF HandInv
  <1>5. ASSUME NEW w \in Workers, OnData(w) PROVE HandInv'
    <2>1. Moves(w, WorkPlaces)
      BY <1>5, WorkerMoves
    <2>2. pc'[Loop] = pc[Loop] /\ \A x \in Workers : x # w => pc'[x] = pc[x]
      BY <1>0, <2>1, ThreadFacts DEF Moves
    <2>3. UNCHANGED entries
      BY <1>5 DEF OnData, RefreshInfo, Query, Compare, Store, Hook, Announce, BumpInfo, Ask,
                  Mark, Count, List, Finish, nodeVars
    <2>4. LoopPart'
      BY <2>2, <2>3 DEF HandInv
    <2>5. CASE Mark(w)
      <3>1. PICK n \in found[w], p \in peer[w] :
               IF n \in known[p]
               THEN pc' = [pc EXCEPT ![w] = "mark"] /\ UNCHANGED marking
               ELSE pc' = [pc EXCEPT ![w] = "count"] /\ marking' = [marking EXCEPT ![w] = {n}]
        BY <2>5 DEF Mark, Goto
      <3>2. pc[w] = "mark" /\ marking[w] = {}
        BY <2>5 DEF Mark, HandInv
      <3>3. CASE UNCHANGED marking
        BY <1>2, <2>2, <2>4, <3>2, <3>3 DEF HandInv
      <3>4. CASE pc' = [pc EXCEPT ![w] = "count"] /\ marking' = [marking EXCEPT ![w] = {n}]
        <4>1. /\ pc'[w] = "count" /\ marking'[w] = {n}
              /\ \A x \in Workers : x # w => marking'[x] = marking[x]
          BY <1>0, <3>4, ThreadFacts
        <4> QED BY <2>2, <2>4, <4>1 DEF HandInv
      <3> QED BY <3>1, <3>3, <3>4
    <2>6. CASE Count(w)
      <3>1. pc[w] = "count" /\ pc' = [pc EXCEPT ![w] = "list"] /\ UNCHANGED marking
        BY <2>6 DEF Count, Goto
      <3>2. pc'[w] = "list"
        BY <1>0, <3>1, ThreadFacts
      <3> QED BY <2>2, <2>4, <3>1, <3>2 DEF HandInv
    <2>7. CASE List(w)
      <3>1. marking' = [marking EXCEPT ![w] = {}]
        BY <2>7 DEF List
      <3>2. marking'[w] = {} /\ \A x \in Workers : x # w => marking'[x] = marking[x]
        BY <1>0, <3>1
      <3> QED BY <2>2, <2>4, <3>2 DEF HandInv
    <2>8. CASE /\ UNCHANGED marking
               /\ pc[w] \notin {"count", "list"}
      BY <1>2, <2>2, <2>4, <2>8 DEF HandInv
    <2>9. ASSUME ~ Mark(w), ~ Count(w), ~ List(w)
          PROVE  UNCHANGED marking /\ pc[w] \notin {"count", "list"}
      BY <1>5, <2>9 DEF OnData, RefreshInfo, CanRefresh, Query, Compare, Store, Hook, Announce,
                        BumpInfo, Ask, Finish, nodeVars
    <2> QED BY <2>5, <2>6, <2>7, <2>8, <2>9
  <1>6. ASSUME NEW p \in Peers, NewPeer(p) PROVE HandInv'
    BY <1>1, <1>6 DEF NewPeer, nodeVars
  <1>7. CASE Advance
    BY <1>1, <1>7 DEF Advance, nodeVars
  <1>8. CASE UNCHANGED vars
    BY <1>1, <1>8 DEF vars, nodeVars
  <1> QED BY <1>3, <1>4, <1>5, <1>6, <1>7, <1>8 DEF Next, RunLoop

-----------------------------------------------------------------------------
(* The counters. *)

Rested(c) == bumpedAt[c] = 0 \/ now - bumpedAt[c] >= Frequency[c[2]]

(* CanRefresh says yes only when the pause after a bump is over: the value  *)
(* it compares is still the one it tested.                                 *)
LEMMA AllowedIsRested ==
    ASSUME TypeOK, BumpInv, NEW t \in Threads, NEW c \in Counters, Allowed(t, c)
    PROVE  Rested(c)
  <1>1. now \in Nat /\ last[c] \in Nat /\ loaded[t] \in Nat /\ bumpedAt[c] \in Nat
    BY UnixType
  <1>2. Frequency[c[2]] \in Nat
    BY CrawlerAssumption DEF Counters
  <1>3. ~ (now - loaded[t] < Frequency[c[2]]) /\ last[c] = loaded[t]
    BY DEF Allowed, TooEarly
  <1>4. \/ bumpedAt[c] = 0 \/ last[c] >= bumpedAt[c]
        \/ now - bumpedAt[c] >= Frequency[c[2]]
    BY DEF BumpInv
  <1> DEFINE F == Frequency[c[2]]
  <1> HIDE DEF F
  <1>5. bumpedAt[c] = 0 \/ now - bumpedAt[c] >= F
    BY <1>1, <1>2, <1>3, <1>4 DEF F
  <1> QED BY <1>5 DEF Rested, F

(* So a refresh, which may set the counter back, keeps the invariant, ... *)
LEMMA RefreshKeepsBump ==
    ASSUME TypeOK, BumpInv, NEW t \in Threads, NEW d \in Counters, NEW yes, NEW no,
           CanRefresh(t, d, yes, no), UNCHANGED now
    PROVE  BumpInv'
  <1>1. CASE UNCHANGED <<last, bumpedAt>>
    BY <1>1 DEF BumpInv
  <1>2. CASE Allowed(t, d)
    <2>1. /\ last' = [last EXCEPT ![d] = Unix] /\ bumpedAt' = bumpedAt
      BY <1>2 DEF Allowed
    <2>2. Rested(d)
      BY <1>2, AllowedIsRested
    <2>3. \A c \in Counters : c # d => last'[c] = last[c]
      BY <2>1 DEF TypeOK
    <2> QED BY <2>1, <2>2, <2>3 DEF BumpInv, Rested
  <1> QED BY <1>1, <1>2 DEF CanRefresh, Load

(* ... and a bump establishes it. *)
LEMMA BumpKeepsBump ==
    ASSUME TypeOK, BumpInv, NEW d \in Counters, Bump(d), UNCHANGED now
    PROVE  BumpInv'
  <1>1. last' = [last EXCEPT ![d] = now] /\ bumpedAt' = [bumpedAt EXCEPT ![d] = now]
    BY DEF Bump
  <1>2. /\ last'[d] = now /\ bumpedAt'[d] = now /\ now \in Nat
        /\ \A c \in Counters : c # d => last'[c] = last[c] /\ bumpedAt'[c] = bumpedAt[c]
    BY <1>1, UnixType
  <1>3. last'[d] >= bumpedAt'[d]
    BY <1>2
  <1> QED BY <1>2, <1>3 DEF BumpInv

(* Every step keeps the invariant of the counters. *)
LEMMA CounterStep ==
    ASSUME TypeOK, BumpInv, [Next]_vars
    PROVE  BumpInv'
  <1>1. CASE UNCHANGED <<now, last, bumpedAt>>
    BY <1>1 DEF BumpInv
  <1>2. CASE RefreshFind
    <2>1. PICK p \in peer[Loop] : CanRefresh(Loop, <<p, "find">>, "push", "entries")
      BY <1>2 DEF RefreshFind
    <2>2. <<p, "find">> \in Counters /\ Loop \in Threads /\ UNCHANGED now
      BY <1>2, ThreadFacts DEF TypeOK, RefreshFind
    <2> QED BY <2>1, <2>2, RefreshKeepsBump, Zenon
  <1>3. ASSUME NEW w \in Workers, RefreshInfo(w) PROVE BumpInv'
    <2>1. PICK p \in peer[w] : CanRefresh(w, <<p, "info">>, "query", "ask")
      BY <1>3 DEF RefreshInfo
    <2>2. <<p, "info">> \in Counters /\ w \in Threads /\ UNCHANGED now
      BY <1>3, ThreadFacts DEF TypeOK, RefreshInfo
    <2> QED BY <2>1, <2>2, RefreshKeepsBump, Zenon
  <1>4. ASSUME NEW w \in Workers, BumpInfo(w) \/ Ask(w) PROVE BumpInv'
    <2>1. PICK p \in peer[w] : Bump(<<p, "info">>) \/ Bump(<<p, "find">>)
      BY <1>4 DEF BumpInfo, Ask
    <2>2. /\ <<p, "info">> \in Counters /\ <<p, "find">> \in Counters /\ w \in Threads
          /\ UNCHANGED now
      BY <1>4, ThreadFacts DEF TypeOK, BumpInfo, Ask
    <2> QED BY <2>1, <2>2, BumpKeepsBump, Zenon
  <1>5. CASE Advance
    <2>1. now' = now + 1 /\ UNCHANGED <<last, bumpedAt>>
      BY <1>5 DEF Advance, counterVars
    <2> SUFFICES ASSUME NEW c \in Counters
                 PROVE  \/ bumpedAt[c] = 0 \/ last[c] >= bumpedAt[c]
                        \/ now' - bumpedAt[c] >= Frequency[c[2]]
      BY <2>1 DEF BumpInv
    <2>2. now \in Nat /\ last[c] \in Nat /\ bumpedAt[c] \in Nat
      BY UnixType
    <2>3. Frequency[c[2]] \in Nat
      BY CrawlerAssumption DEF Counters
    <2>4. \/ bumpedAt[c] = 0 \/ last[c] >= bumpedAt[c]
          \/ now - bumpedAt[c] >= Frequency[c[2]]
      BY DEF BumpInv
    <2> DEFINE F == Frequency[c[2]]
    <2> HIDE DEF F
    <2>5. bumpedAt[c] = 0 \/ last[c] >= bumpedAt[c] \/ now' - bumpedAt[c] >= F
      BY <2>1, <2>2, <2>3, <2>4 DEF F
    <2> QED BY <2>5 DEF F
  <1>6. ASSUME NEW p \in Peers, NewPeer(p) PROVE BumpInv'
    BY <1>1, <1>6 DEF NewPeer, counterVars
  <1>7. CASE Dequeue \/ Enqueue \/ NewEntries \/ PublishNodeStats
    BY <1>1, <1>7 DEF Dequeue, Enqueue, NewEntries, PublishNodeStats, counterVars
  <1>8. ASSUME NEW w \in Workers, Push(w) PROVE BumpInv'
    BY <1>1, <1>8 DEF Push, counterVars
  <1>9. ASSUME NEW w \in Workers,
               Query(w) \/ Compare(w) \/ Store(w) \/ Hook(w) \/ Announce(w)
               \/ Mark(w) \/ Count(w) \/ List(w) \/ Finish(w)
        PROVE  BumpInv'
    BY <1>1, <1>9 DEF Query, Compare, Store, Hook, Announce, Mark, Count, List, Finish, counterVars
  <1>10. CASE UNCHANGED vars
    BY <1>1, <1>10 DEF vars, counterVars
  <1> QED BY <1>2, <1>3, <1>4, <1>5, <1>6, <1>7, <1>8, <1>9, <1>10 DEF Next, RunLoop, OnData

(* A thread that comes out of CanRefresh with yes was allowed to. *)
LEMMA RefreshIsAllowed ==
    ASSUME TypeOK, PlaceInv, Next, NEW t \in Threads, NEW c \in Counters, Refreshes(t, c)
    PROVE  Allowed(t, c)
  <1>0. /\ pc \in [Threads -> LoopPlaces \cup WorkPlaces] /\ pc[t] = "swap"
        /\ pc'[t] # pc[t] /\ pc'[t] = (IF t = Loop THEN "push" ELSE "query")
        /\ c[1] \in peer[t] /\ c[2] = IF t = Loop THEN "find" ELSE "info"
    BY DEF TypeOK, LoopPlaces, WorkPlaces, Refreshes
  <1>1. c = <<c[1], c[2]>>
    BY DEF Counters
  <1>2. \A p \in peer[t] : p = c[1]
    BY <1>0 DEF PlaceInv
  <1>3. ASSUME NEW w \in Workers, OnData(w) PROVE w = t
    <2>1. Moves(w, WorkPlaces)
      BY <1>3, WorkerMoves
    <2> QED BY <1>0, <2>1, ThreadFacts DEF Moves
  <1>4. ASSUME Dequeue \/ Enqueue \/ RefreshFind \/ NewEntries \/ PublishNodeStats PROVE t = Loop
    <2>1. Moves(Loop, LoopPlaces)
      BY <1>4, LoopMoves
    <2> QED BY <1>0, <2>1, ThreadFacts DEF Moves
  <1>5. ASSUME NEW w \in Workers, Push(w) PROVE FALSE
    BY <1>0, <1>5, ThreadFacts DEF Push
  <1>6. ASSUME NEW p \in Peers, NewPeer(p) PROVE FALSE
    BY <1>0, <1>6 DEF NewPeer
  <1>7. ~ Advance
    BY <1>0 DEF Advance
  <1>8. CASE t = Loop
    <2>1. RefreshFind
      BY <1>0, <1>3, <1>5, <1>6, <1>7, <1>8, ThreadFacts
         DEF Next, RunLoop, Dequeue, Enqueue, NewEntries, PublishNodeStats
    <2>2. CanRefresh(Loop, c, "push", "entries")
      BY <1>0, <1>1, <1>2, <1>8, <2>1 DEF RefreshFind
    <2>3. pc[Loop] = "swap" /\ pc'[Loop] = "push"
      BY <1>0, <1>8
    <2>4. ~ Goto(Loop, "entries") /\ ~ Goto(Loop, "load")
      BY <1>0, <2>3, ThreadFacts DEF Goto
    <2> QED BY <1>8, <2>2, <2>3, <2>4 DEF CanRefresh
  <1>9. CASE t \in Workers
    <2>0. t # Loop
      BY <1>9, ThreadFacts
    <2>1. OnData(t)
      BY <1>3, <1>4, <1>5, <1>6, <1>7, <2>0 DEF Next, RunLoop
    <2>2. RefreshInfo(t)
      BY <1>0, <2>1 DEF OnData, Query, Compare, Store, Hook, Announce, BumpInfo, Ask, Mark,
                        Count, List, Finish
    <2>3. CanRefresh(t, c, "query", "ask")
      BY <1>0, <1>1, <1>2, <2>0, <2>2 DEF RefreshInfo
    <2>4. pc[t] = "swap" /\ pc'[t] = "query"
      BY <1>0, <2>0
    <2>5. ~ Goto(t, "ask") /\ ~ Goto(t, "load")
      BY <1>0, <2>4 DEF Goto
    <2> QED BY <2>3, <2>4, <2>5 DEF CanRefresh
  <1> QED BY <1>8, <1>9, ThreadFacts

-----------------------------------------------------------------------------
(* Client information. *)

Telling == {"compare", "store", "hook", "announce"}

(* Steps of workers that do not handle information, and of the loop. *)
Quiet ==
    /\ UNCHANGED <<news, info, announced>>
    /\ \A x \in Workers : \/ pc'[x] = pc[x] /\ peer'[x] = peer[x]
                          \/ pc[x] \notin Telling /\ pc'[x] \notin Telling

(* Such a step keeps what is said of information. *)
LEMMA QuietNews ==
    ASSUME TypeOK, NewsInv, InfoInv, Quiet
    PROVE  NewsInv' /\ InfoInv'
  <1>1. NewsInv'
    BY DEF NewsInv, Quiet, Telling
  <1>2. ASSUME NEW p \in Peers
        PROVE  \/ info[p] = None \/ info[p] \in announced[p]
               \/ \E w \in Workers :
                     /\ p \in peer'[w]
                     /\ pc'[w] = "hook" \/ (pc'[w] = "announce" /\ news[w] = info[p])
    BY DEF InfoInv, Telling, Quiet
  <1> QED BY <1>1, <1>2 DEF InfoInv, Quiet

(* The step of worker w that goes to one place, the others standing still. *)
LEMMA OneMoves ==
    ASSUME TypeOK, NEW w \in Workers, NEW to, Goto(w, to)
    PROVE  pc'[w] = to /\ \A x \in Workers : x # w => pc'[x] = pc[x]
  BY ThreadFacts DEF TypeOK, Goto

(* What is stored comes to be announced by the last worker that stored it. *)
LEMMA NewsStep ==
    ASSUME TypeOK, PlaceInv, NewsInv, InfoInv, [Next]_vars
    PROVE  NewsInv' /\ InfoInv'
  <1>0. /\ pc \in [Threads -> LoopPlaces \cup WorkPlaces] /\ peer \in [Threads -> SUBSET Peers]
        /\ news \in [Workers -> Infos \cup {None}] /\ info \in [Peers -> Infos \cup {None}]
        /\ announced \in [Peers -> SUBSET Infos]
    BY DEF TypeOK, LoopPlaces, WorkPlaces
  <1>1. CASE Dequeue \/ Enqueue \/ RefreshFind \/ NewEntries \/ PublishNodeStats
    <2>1. /\ Moves(Loop, LoopPlaces)
          /\ peer' = peer \/ peer' = [peer EXCEPT ![Loop] = {Head(buffer)}]
      BY <1>1, LoopMoves
    <2>2. \A x \in Workers : pc'[x] = pc[x] /\ peer'[x] = peer[x]
      BY <1>0, <2>1, ThreadFacts DEF Moves
    <2>3. UNCHANGED infoVars
      BY <1>1 DEF Dequeue, Enqueue, RefreshFind, NewEntries, PublishNodeStats
    <2>9. Quiet
      BY <2>2, <2>3 DEF Quiet, infoVars
    <2> QED BY <2>9, QuietNews
  <1>2. ASSUME NEW w \in Workers, Push(w) PROVE NewsInv' /\ InfoInv'
    <2>1. /\ pc' = [pc EXCEPT ![Loop] = "entries", ![w] = "load"] /\ pc[w] = "idle"
          /\ peer' = [peer EXCEPT ![w] = peer[Loop]] /\ UNCHANGED infoVars
      BY <1>2 DEF Push
    <2>2. /\ pc[w] \notin Telling /\ pc'[w] \notin Telling
          /\ \A x \in Workers : x # w => pc'[x] = pc[x] /\ peer'[x] = peer[x]
      BY <1>0, <2>1, ThreadFacts DEF Telling
    <2>9. Quiet
      BY <2>1, <2>2 DEF Quiet, infoVars
    <2> QED BY <2>9, QuietNews
  <1>3. ASSUME NEW w \in Workers, RefreshInfo(w) PROVE NewsInv' /\ InfoInv'
    <2>1. PICK p \in peer[w] : CanRefresh(w, <<p, "info">>, "query", "ask")
      BY <1>3 DEF RefreshInfo
    <2>2. /\ pc[w] \in {"load", "swap"} /\ peer' = peer /\ UNCHANGED infoVars
          /\ \E to \in {"query", "ask", "load", "swap"} : Goto(w, to)
      BY <1>3, <2>1 DEF RefreshInfo, CanRefresh, Load
    <2>3. /\ pc[w] \notin Telling /\ pc'[w] \notin Telling
          /\ \A x \in Workers : x # w => pc'[x] = pc[x]
      BY <2>2, OneMoves DEF Telling
    <2>9. Quiet
      BY <2>2, <2>3 DEF Quiet, infoVars
    <2> QED BY <2>9, QuietNews
  <1>4. ASSUME NEW w \in Workers, Ask(w) \/ Mark(w) \/ Count(w) \/ List(w) \/ Finish(w)
        PROVE  NewsInv' /\ InfoInv'
    <2>1. /\ pc[w] \in {"ask", "mark", "count", "list"} /\ UNCHANGED infoVars
          /\ \E to \in {"mark", "count", "list", "idle"} : Goto(w, to)
          /\ peer' = peer \/ peer' = [peer EXCEPT ![w] = {}]
      BY <1>4 DEF Ask, Mark, Count, List, Finish
    <2>2. /\ pc[w] \notin Telling /\ pc'[w] \notin Telling
          /\ \A x \in Workers : x # w => pc'[x] = pc[x] /\ peer'[x] = peer[x]
      BY <1>0, <2>1, OneMoves, ThreadFacts DEF Telling
    <2>9. Quiet
      BY <2>1, <2>2 DEF Quiet, infoVars
    <2> QED BY <2>9, QuietNews
  <1>5. ASSUME NEW w \in Workers, Query(w) PROVE NewsInv' /\ InfoInv'
    <2>1. /\ pc[w] = "query" /\ UNCHANGED <<peer, info, announced>>
          /\ \/ \E i \in Infos : news' = [news EXCEPT ![w] = i] /\ Goto(w, "compare")
             \/ UNCHANGED news /\ Goto(w, "bump")
      BY <1>5 DEF Query
    <2>2. \A x \in Workers : x # w => pc'[x] = pc[x] /\ news'[x] = news[x]
      BY <1>0, <2>1, OneMoves
    <2>3. pc'[w] = "bump" \/ (pc'[w] = "compare" /\ news'[w] \in Infos)
      BY <1>0, <2>1, OneMoves
    <2>4. NewsInv'
      BY <2>1, <2>2, <2>3 DEF NewsInv
    <2>5. InfoInv'
      BY <2>1, <2>2 DEF InfoInv
    <2> QED BY <2>4, <2>5
  <1>6. ASSUME NEW w \in Workers, Compare(w) PROVE NewsInv' /\ InfoInv'
    <2>1. /\ pc[w] = "compare" /\ UNCHANGED <<peer, news, info, announced>>
          /\ Goto(w, "bump") \/ Goto(w, "store")
      BY <1>6 DEF Compare, infoVars
    <2>2. pc'[w] \in {"bump", "store"} /\ \A x \in Workers : x # w => pc'[x] = pc[x]
      BY <2>1, OneMoves
    <2>3. NewsInv'
      BY <2>1, <2>2 DEF NewsInv
    <2>4. InfoInv'
      BY <2>1, <2>2 DEF InfoInv
    <2> QED BY <2>3, <2>4
  <1>7. ASSUME NEW w \in Workers, Store(w) PROVE NewsInv' /\ InfoInv'
    <2>1. PICK p \in peer[w] : info' = [info EXCEPT ![p] = news[w]]
      BY <1>7 DEF Store
    <2>2. pc[w] = "store" /\ Goto(w, "hook") /\ UNCHANGED <<peer, news, announced>>
      BY <1>7 DEF Store
    <2>3. p \in Peers /\ news[w] \in Infos
      BY <1>0, <2>2, ThreadFacts DEF NewsInv
    <2>4. info'[p] = news[w] /\ \A q \in Peers : q # p => info'[q] = info[q]
      BY <1>0, <2>1, <2>3
    <2>5. pc'[w] = "hook" /\ \A x \in Workers : x # w => pc'[x] = pc[x]
      BY <2>2, OneMoves
    <2>6. \A x \in Workers : peer[x] \subseteq Peers
      BY <1>0, ThreadFacts
    <2>7. \A q \in peer[w] : q = p
      BY ThreadFacts DEF PlaceInv
    <2>8. NewsInv'
      BY <2>2, <2>3, <2>4, <2>5, <2>6, <2>7 DEF NewsInv
    <2>9. InfoInv'
      BY <2>2, <2>4, <2>5 DEF InfoInv
    <2> QED BY <2>8, <2>9
  <1>8. ASSUME NEW w \in Workers, Hook(w) PROVE NewsInv' /\ InfoInv'
    <2>1. PICK p \in peer[w] : news' = [news EXCEPT ![w] = info[p]]
      BY <1>8 DEF Hook
    <2>2. pc[w] = "hook" /\ Goto(w, "announce") /\ UNCHANGED <<peer, info, announced>>
      BY <1>8 DEF Hook
    <2>3. info[p] \in Infos /\ \A q \in peer[w] : q = p
      BY <2>2, ThreadFacts DEF NewsInv, PlaceInv
    <2>4. news'[w] = info[p] /\ \A x \in Workers : x # w => news'[x] = news[x]
      BY <1>0, <2>1
    <2>5. pc'[w] = "announce" /\ \A x \in Workers : x # w => pc'[x] = pc[x]
      BY <2>2, OneMoves
    <2>6. NewsInv'
      BY <2>2, <2>3, <2>4, <2>5 DEF NewsInv
    <2>7. InfoInv'
      BY <2>2, <2>3, <2>4, <2>5 DEF InfoInv
    <2> QED BY <2>6, <2>7
  <1>9. ASSUME NEW w \in Workers, Announce(w) PROVE NewsInv' /\ InfoInv'
    <2>1. PICK p \in peer[w] : announced' = [announced EXCEPT ![p] = @ \cup {news[w]}]
      BY <1>9 DEF Announce
    <2>2. pc[w] = "announce" /\ Goto(w, "bump") /\ UNCHANGED <<peer, news, info>>
      BY <1>9 DEF Announce
    <2>3. p \in Peers /\ \A q \in peer[w] : q = p
      BY <1>0, ThreadFacts DEF PlaceInv
    <2>4. /\ news[w] \in announced'[p]
          /\ \A q \in Peers : announced[q] \subseteq announced'[q]
      BY <1>0, <2>1, <2>3
    <2>5. pc'[w] = "bump" /\ \A x \in Workers : x # w => pc'[x] = pc[x]
      BY <2>2, OneMoves
    <2>6. NewsInv'
      BY <2>2, <2>5 DEF NewsInv
    <2>7. InfoInv'
      BY <2>2, <2>3, <2>4, <2>5 DEF InfoInv
    <2> QED BY <2>6, <2>7
  <1>10. ASSUME NEW w \in Workers, BumpInfo(w) PROVE NewsInv' /\ InfoInv'
    <2>1. /\ pc[w] = "bump" /\ Goto(w, "ask") /\ UNCHANGED <<peer, info, announced>>
          /\ news' = [news EXCEPT ![w] = None]
      BY <1>10 DEF BumpInfo
    <2>2. /\ pc'[w] = "ask" /\ \A x \in Workers : x # w => pc'[x] = pc[x] /\ news'[x] = news[x]
      BY <1>0, <2>1, OneMoves
    <2>3. NewsInv'
      BY <2>1, <2>2 DEF NewsInv
    <2>4. InfoInv'
      BY <2>1, <2>2 DEF InfoInv
    <2> QED BY <2>3, <2>4
  <1>11. CASE UNCHANGED <<pc, peer, infoVars>>
    <2>1. Quiet
      BY <1>11 DEF Quiet, infoVars
    <2> QED BY <2>1, QuietNews
  <1>12. ASSUME NEW p \in Peers, NewPeer(p) PROVE NewsInv' /\ InfoInv'
    BY <1>11, <1>12 DEF NewPeer
  <1>13. CASE Advance
    BY <1>11, <1>13 DEF Advance
  <1>14. CASE UNCHANGED vars
    BY <1>11, <1>14 DEF vars
  <1> QED BY <1>1, <1>2, <1>3, <1>4, <1>5, <1>6, <1>7, <1>8, <1>9, <1>10, <1>12, <1>13,
             <1>14 DEF Next, RunLoop, OnData

-----------------------------------------------------------------------------
(* Neighbours. *)

(* Where a neighbour of a peer can be, and how often it is there. *)
Taken(p, n) == IF p \in peer[Loop] THEN Among(n, entries) ELSE 0
Total(p, n) ==
    Among(n, fresh[p]) + published[p][n] + Taken(p, n) + Cardinality(Holders(p, n))
Once(p, n) ==
    IsFiniteSet(Holders(p, n)) /\ Total(p, n) = IF n \in known[p] THEN 1 ELSE 0

(* PublishedOnce in these terms. *)
LEMMA OnceMeans ==
    OnceInv <=> \A p \in Peers, n \in Neighbours : Once(p, n)
  BY DEF OnceInv, PublishedOnce, Once, Total, Taken, Holders

(* The same after a step. *)
LEMMA OnceNext ==
    ASSUME \A p \in Peers, n \in Neighbours :
              /\ IsFiniteSet(Holders(p, n)')
              /\ Among(n, fresh'[p]) + published'[p][n]
                 + (IF p \in peer'[Loop] THEN Among(n, entries') ELSE 0)
                 + Cardinality(Holders(p, n)') = IF n \in known'[p] THEN 1 ELSE 0
    PROVE  OnceInv'
  BY DEF OnceInv, PublishedOnce, Holders, Among

(* The summands are numbers. *)
LEMMA TotalFacts ==
    ASSUME TypeOK, OnceInv, NEW p \in Peers, NEW n \in Neighbours
    PROVE  /\ Once(p, n)
           /\ Among(n, fresh[p]) \in Nat /\ published[p][n] \in Nat
           /\ Among(n, entries) \in Nat /\ Cardinality(Holders(p, n)) \in Nat
           /\ Among(n, << >>) = 0
           /\ fresh[p] \in Seq(Neighbours) /\ entries \in Seq(Neighbours)
  <1>1. fresh[p] \in Seq(Neighbours) /\ entries \in Seq(Neighbours) /\ published[p][n] \in Nat
    BY DEF TypeOK
  <1>2. Once(p, n)
    BY OnceMeans
  <1>3. Cardinality(Holders(p, n)) \in Nat
    BY <1>2, FS_CardinalityType DEF Once
  <1>4. Among(n, fresh[p]) \in Nat /\ Among(n, entries) \in Nat /\ Among(n, << >>) = 0
    BY <1>1, AmongFacts
  <1> QED BY <1>1, <1>2, <1>3, <1>4

(* A step that moves no neighbour: peers change only in empty hands. *)
Still ==
    /\ UNCHANGED <<fresh, published, entries, known, marking>>
    /\ \A x \in Workers : peer'[x] = peer[x] \/ marking[x] = {}
    /\ peer'[Loop] = peer[Loop] \/ entries = << >>

(* Such a step keeps every neighbour where it is. *)
LEMMA StillOnce ==
    ASSUME TypeOK, OnceInv, Still
    PROVE  OnceInv'
  <1> SUFFICES ASSUME NEW p \in Peers, NEW n \in Neighbours
               PROVE  /\ IsFiniteSet(Holders(p, n)')
                      /\ Among(n, fresh'[p]) + published'[p][n]
                         + (IF p \in peer'[Loop] THEN Among(n, entries') ELSE 0)
                         + Cardinality(Holders(p, n)') = IF n \in known'[p] THEN 1 ELSE 0
    BY OnceNext
  <1>1. Holders(p, n)' = Holders(p, n)
    BY DEF Holders, Still
  <1>2. (IF p \in peer'[Loop] THEN Among(n, entries') ELSE 0) = Taken(p, n)
    BY TotalFacts DEF Taken, Still
  <1>3. fresh' = fresh /\ published' = published /\ known' = known
    BY DEF Still
  <1>4. Once(p, n)
    BY TotalFacts
  <1> QED BY <1>1, <1>2, <1>3, <1>4 DEF Once, Total

(* NewEntries takes the list of a peer. *)
LEMMA EntriesOnce ==
    ASSUME TypeOK, PlaceInv, HandInv, OnceInv, NewEntries
    PROVE  OnceInv'
  <1>1. PICK r \in peer[Loop] : entries' = fresh[r] /\ fresh' = [fresh EXCEPT ![r] = << >>]
    BY DEF NewEntries
  <1>2. UNCHANGED <<peer, published, known, marking>> /\ entries = << >>
    BY DEF NewEntries, HandInv
  <1>3. r \in Peers /\ \A q \in peer[Loop] : q = r
    BY ThreadFacts DEF TypeOK, PlaceInv
  <1> SUFFICES ASSUME NEW p \in Peers, NEW n \in Neighbours
               PROVE  /\ IsFiniteSet(Holders(p, n)')
                      /\ Among(n, fresh'[p]) + published'[p][n]
                         + (IF p \in peer'[Loop] THEN Among(n, entries') ELSE 0)
                         + Cardinality(Holders(p, n)') = IF n \in known'[p] THEN 1 ELSE 0
    BY OnceNext
  <1>4. Holders(p, n)' = Holders(p, n)
    BY <1>2 DEF Holders
  <1>5. /\ Once(p, n) /\ Among(n, fresh[p]) \in Nat /\ published[p][n] \in Nat
        /\ Cardinality(Holders(p, n)) \in Nat /\ Among(n, << >>) = 0
    BY TotalFacts
  <1>6. Taken(p, n) = 0
    BY <1>2, <1>5 DEF Taken
  <1>7. CASE p = r
    <2>1. fresh'[p] = << >> /\ entries' = fresh[p] /\ p \in peer'[Loop]
      BY <1>1, <1>2, <1>3, <1>7 DEF TypeOK
    <2> QED BY <1>2, <1>4, <1>5, <1>6, <2>1 DEF Once, Total
  <1>8. CASE p # r
    <2>1. fresh'[p] = fresh[p] /\ p \notin peer'[Loop]
      BY <1>1, <1>2, <1>3, <1>8 DEF TypeOK
    <2> QED BY <1>2, <1>4, <1>5, <1>6, <2>1 DEF Once, Total
  <1> QED BY <1>7, <1>8

(* The loop publishes what it took. *)
LEMMA PublishOnce ==
    ASSUME TypeOK, PlaceInv, OnceInv, PublishNodeStats
    PROVE  OnceInv'
  <1>1. PICK r \in peer[Loop] :
           published' = [published EXCEPT ![r] = [n \in Neighbours |-> @[n] + Among(n, entries)]]
    BY DEF PublishNodeStats
  <1>2. UNCHANGED <<peer, fresh, known, marking>> /\ entries' = << >>
    BY DEF PublishNodeStats
  <1>3. r \in Peers /\ \A q \in peer[Loop] : q = r
    BY ThreadFacts DEF TypeOK, PlaceInv
  <1> SUFFICES ASSUME NEW p \in Peers, NEW n \in Neighbours
               PROVE  /\ IsFiniteSet(Holders(p, n)')
                      /\ Among(n, fresh'[p]) + published'[p][n]
                         + (IF p \in peer'[Loop] THEN Among(n, entries') ELSE 0)
                         + Cardinality(Holders(p, n)') = IF n \in known'[p] THEN 1 ELSE 0
    BY OnceNext
  <1>4. Holders(p, n)' = Holders(p, n)
    BY <1>2 DEF Holders
  <1>5. /\ Once(p, n) /\ Among(n, fresh[p]) \in Nat /\ published[p][n] \in Nat
        /\ Among(n, entries) \in Nat
        /\ Cardinality(Holders(p, n)) \in Nat /\ Among(n, << >>) = 0
    BY TotalFacts
  <1>6. published \in [Peers -> [Neighbours -> Nat]]
    BY DEF TypeOK
  <1>7. CASE p = r
    <2>1. published'[p][n] = published[p][n] + Among(n, entries)
      BY <1>1, <1>3, <1>6, <1>7
    <2>2. Taken(p, n) = Among(n, entries)
      BY <1>7 DEF Taken
    <2> QED BY <1>2, <1>4, <1>5, <2>1, <2>2 DEF Once, Total
  <1>8. CASE p # r
    <2>1. published'[p] = published[p] /\ p \notin peer[Loop]
      BY <1>1, <1>3, <1>6, <1>8
    <2> QED BY <1>2, <1>4, <1>5, <2>1 DEF Once, Total, Taken
  <1> QED BY <1>7, <1>8

(* A worker stores a neighbour: LoadOrStore lets one worker have it. *)
LEMMA MarkOnce ==
    ASSUME TypeOK, PlaceInv, HandInv, OnceInv, NEW w \in Workers, Mark(w)
    PROVE  OnceInv'
  <1>1. PICK m \in found[w], r \in peer[w] :
           /\ known' = [known EXCEPT ![r] = @ \cup {m}]
           /\ IF m \in known[r] THEN UNCHANGED marking
              ELSE marking' = [marking EXCEPT ![w] = {m}]
    BY DEF Mark
  <1>2. UNCHANGED <<peer, fresh, entries, published>> /\ marking[w] = {}
    BY DEF Mark, HandInv
  <1>3. r \in Peers /\ m \in Neighbours /\ \A q \in peer[w] : q = r
    BY ThreadFacts DEF TypeOK, PlaceInv
  <1>4. known \in [Peers -> SUBSET Neighbours] /\ marking \in [Workers -> SUBSET Neighbours]
    BY DEF TypeOK
  <1>5. CASE m \in known[r]
    <2>1. known' = known
      BY <1>1, <1>3, <1>4, <1>5
    <2>2. Still
      BY <1>1, <1>2, <1>5, <2>1 DEF Still
    <2> QED BY <2>2, StillOnce
  <1>6. CASE m \notin known[r]
    <2> SUFFICES ASSUME NEW p \in Peers, NEW n \in Neighbours
                 PROVE  /\ IsFiniteSet(Holders(p, n)')
                        /\ Among(n, fresh'[p]) + published'[p][n]
                           + (IF p \in peer'[Loop] THEN Among(n, entries') ELSE 0)
                           + Cardinality(Holders(p, n)') = IF n \in known'[p] THEN 1 ELSE 0
      BY OnceNext
    <2>1. marking'[w] = {m} /\ \A x \in Workers : x # w => marking'[x] = marking[x]
      BY <1>1, <1>4, <1>6
    <2>2. /\ Once(p, n) /\ Among(n, fresh[p]) \in Nat /\ published[p][n] \in Nat
          /\ Among(n, entries) \in Nat /\ Cardinality(Holders(p, n)) \in Nat
      BY TotalFacts
    <2>3. CASE p = r /\ n = m
      <3>1. Holders(p, n)' = Holders(p, n) \cup {w} /\ w \notin Holders(p, n)
        BY <1>2, <2>1, <2>3 DEF Holders
      <3>2. /\ IsFiniteSet(Holders(p, n)')
            /\ Cardinality(Holders(p, n)') = Cardinality(Holders(p, n)) + 1
        <4> DEFINE H == Holders(p, n)
        <4>1. IsFiniteSet(H) /\ w \notin H /\ Holders(p, n)' = H \cup {w}
          BY <2>2, <3>1 DEF Once
        <4> HIDE DEF H
        <4>2. IsFiniteSet(H \cup {w}) /\ Cardinality(H \cup {w}) = Cardinality(H) + 1
          BY <4>1, FS_AddElement
        <4> QED BY <4>1, <4>2 DEF H
      <3>3. n \in known'[p] /\ n \notin known[p]
        BY <1>1, <1>3, <1>4, <1>6, <2>3
      <3> QED BY <1>2, <2>2, <3>2, <3>3 DEF Once, Total, Taken
    <2>4. CASE ~ (p = r /\ n = m)
      <3>1. Holders(p, n)' = Holders(p, n)
        <4>1. \A x \in Workers : p \in peer[x] => (n \in marking'[x] <=> n \in marking[x])
          BY <1>2, <1>3, <2>1, <2>4
        <4> QED BY <1>2, <4>1 DEF Holders
      <3>2. n \in known'[p] <=> n \in known[p]
        BY <1>1, <1>3, <1>4, <2>4
      <3> QED BY <1>2, <2>2, <3>1, <3>2 DEF Once, Total, Taken
    <2> QED BY <2>3, <2>4
  <1> QED BY <1>5, <1>6

(* A worker lists the neighbour it has. *)
LEMMA ListOnce ==
    ASSUME TypeOK, PlaceInv, HandInv, OnceInv, NEW w \in Workers, List(w)
    PROVE  OnceInv'
  <1>1. PICK m \in marking[w], r \in peer[w] : fresh' = [fresh EXCEPT ![r] = Append(@, m)]
    BY DEF List
  <1>2. UNCHANGED <<peer, known, entries, published>> /\ marking' = [marking EXCEPT ![w] = {}]
    BY DEF List
  <1>3. /\ r \in Peers /\ m \in Neighbours /\ \A q \in peer[w] : q = r
        /\ \A n \in marking[w] : n = m
    BY ThreadFacts DEF TypeOK, PlaceInv, HandInv
  <1>4. marking'[w] = {} /\ \A x \in Workers : x # w => marking'[x] = marking[x]
    BY <1>2 DEF TypeOK
  <1> SUFFICES ASSUME NEW p \in Peers, NEW n \in Neighbours
               PROVE  /\ IsFiniteSet(Holders(p, n)')
                      /\ Among(n, fresh'[p]) + published'[p][n]
                         + (IF p \in peer'[Loop] THEN Among(n, entries') ELSE 0)
                         + Cardinality(Holders(p, n)') = IF n \in known'[p] THEN 1 ELSE 0
    BY OnceNext
  <1>5. /\ Once(p, n) /\ Among(n, fresh[p]) \in Nat /\ published[p][n] \in Nat
        /\ Among(n, entries) \in Nat /\ Cardinality(Holders(p, n)) \in Nat
        /\ fresh[p] \in Seq(Neighbours)
    BY TotalFacts
  <1>6. fresh'[p] = IF p = r THEN Append(fresh[p], m) ELSE fresh[p]
    BY <1>1, <1>3 DEF TypeOK
  <1>7. Among(n, fresh'[p]) = Among(n, fresh[p]) + (IF p = r /\ n = m THEN 1 ELSE 0)
    <2>1. Among(n, Append(fresh[p], m)) = Among(n, fresh[p]) + (IF m = n THEN 1 ELSE 0)
      BY <1>3, <1>5, AmongFacts
    <2> QED BY <1>5, <1>6, <2>1
  <1>8. CASE p = r /\ n = m
    <2>1. Holders(p, n)' = Holders(p, n) \ {w} /\ w \in Holders(p, n)
      BY <1>2, <1>4, <1>8 DEF Holders
    <2>2. /\ IsFiniteSet(Holders(p, n)')
          /\ Cardinality(Holders(p, n)') = Cardinality(Holders(p, n)) - 1
      <3> DEFINE H == Holders(p, n)
      <3>1. IsFiniteSet(H) /\ w \in H /\ Holders(p, n)' = H \ {w}
        BY <1>5, <2>1 DEF Once
      <3> HIDE DEF H
      <3>2. IsFiniteSet(H \ {w}) /\ Cardinality(H \ {w}) = Cardinality(H) - 1
        BY <3>1, FS_RemoveElement
      <3> QED BY <3>1, <3>2 DEF H
    <2>3. /\ (IF p \in peer'[Loop] THEN Among(n, entries') ELSE 0) = Taken(p, n)
          /\ published'[p][n] = published[p][n] /\ known'[p] = known[p]
      BY <1>2 DEF Taken
    <2>4. Taken(p, n) \in Nat
      BY <1>5 DEF Taken
    <2>5. Among(n, fresh'[p]) = Among(n, fresh[p]) + 1
      BY <1>7, <1>8
    <2>6. (Among(n, fresh[p]) + 1) + published[p][n] + Taken(p, n)
          + (Cardinality(Holders(p, n)) - 1) = IF n \in known[p] THEN 1 ELSE 0
      <3> DEFINE a == Among(n, fresh[p])
                 b == published[p][n]
                 c == Taken(p, n)
                 d == Cardinality(Holders(p, n))
                 k == IF n \in known[p] THEN 1 ELSE 0
      <3>1. a \in Nat /\ b \in Nat /\ c \in Nat /\ d \in Nat /\ a + b + c + d = k
        BY <1>5, <2>4 DEF Once, Total
      <3> HIDE DEF a, b, c, d, k
      <3>2. (a + 1) + b + c + (d - 1) = k
        BY <3>1
      <3> QED BY <3>2 DEF a, b, c, d, k
    <2>7. Among(n, fresh'[p]) + published'[p][n]
          + (IF p \in peer'[Loop] THEN Among(n, entries') ELSE 0)
          + Cardinality(Holders(p, n)')
          = (Among(n, fresh[p]) + 1) + published[p][n] + Taken(p, n)
            + (Cardinality(Holders(p, n)) - 1)
      BY <2>2, <2>3, <2>5, Zenon
    <2> QED BY <2>2, <2>3, <2>6, <2>7, Zenon
  <1>9. CASE ~ (p = r /\ n = m)
    <2>1. Holders(p, n)' = Holders(p, n)
      <3>1. \A x \in Workers : p \in peer[x] => (n \in marking'[x] <=> n \in marking[x])
        BY <1>3, <1>4, <1>9
      <3> QED BY <1>2, <3>1 DEF Holders
    <2>2. Among(n, fresh'[p]) = Among(n, fresh[p])
      BY <1>5, <1>7, <1>9
    <2> QED BY <1>2, <1>5, <2>1, <2>2 DEF Once, Total, Taken
  <1> QED BY <1>8, <1>9

(* Every step keeps each neighbour in one place. *)
LEMMA OnceStep ==
    ASSUME TypeOK, PlaceInv, HandInv, OnceInv, [Next]_vars
    PROVE  OnceInv'
  <1>0. peer \in [Threads -> SUBSET Peers]
    BY DEF TypeOK
  <1>1. ASSUME NEW p \in Peers, NewPeer(p) PROVE Still
    BY <1>1 DEF NewPeer, Still, nodeVars
  <1>2. ASSUME Dequeue PROVE Still
    <2>1. /\ peer' = [peer EXCEPT ![Loop] = {Head(buffer)}] /\ entries = << >>
          /\ UNCHANGED <<fresh, published, entries, known, marking>>
      BY <1>2 DEF Dequeue, HandInv, nodeVars
    <2>2. \A x \in Workers : peer'[x] = peer[x]
      BY <1>0, <2>1, ThreadFacts
    <2> QED BY <2>1, <2>2 DEF Still
  <1>3. ASSUME Enqueue \/ RefreshFind PROVE Still
    BY <1>3 DEF Enqueue, RefreshFind, Still, nodeVars
  <1>4. ASSUME NEW w \in Workers, Push(w) PROVE Still
    <2>1. /\ peer' = [peer EXCEPT ![w] = peer[Loop]] /\ marking[w] = {}
          /\ UNCHANGED <<fresh, published, entries, known, marking>>
      BY <1>4 DEF Push, HandInv, nodeVars
    <2>2. peer'[Loop] = peer[Loop] /\ \A x \in Workers : x # w => peer'[x] = peer[x]
      BY <1>0, <2>1, ThreadFacts
    <2> QED BY <2>1, <2>2 DEF Still
  <1>5. ASSUME NEW w \in Workers,
               RefreshInfo(w) \/ Query(w) \/ Compare(w) \/ Store(w) \/ Hook(w) \/ Announce(w)
               \/ BumpInfo(w) \/ Ask(w) \/ Count(w)
        PROVE  Still
    BY <1>5 DEF RefreshInfo, Query, Compare, Store, Hook, Announce, BumpInfo, Ask, Count,
                Still, nodeVars
  <1>6. ASSUME NEW w \in Workers, Finish(w) PROVE Still
    <2>1. /\ peer' = [peer EXCEPT ![w] = {}] /\ marking[w] = {}
          /\ UNCHANGED <<fresh, published, entries, known, marking>>
      BY <1>6 DEF Finish, HandInv, nodeVars
    <2>2. peer'[Loop] = peer[Loop] /\ \A x \in Workers : x # w => peer'[x] = peer[x]
      BY <1>0, <2>1, ThreadFacts
    <2> QED BY <2>1, <2>2 DEF Still
  <1>7. ASSUME Advance \/ UNCHANGED vars PROVE Still
    BY <1>7 DEF Advance, vars, Still, nodeVars
  <1>8. ASSUME NEW w \in Workers, OnData(w) PROVE OnceInv'
    BY <1>5, <1>6, <1>8, StillOnce, MarkOnce, ListOnce DEF OnData
  <1> QED BY <1>1, <1>2, <1>3, <1>4, <1>7, <1>8, StillOnce, EntriesOnce, PublishOnce
          DEF Next, RunLoop

-----------------------------------------------------------------------------
(* The invariant. *)

(* The crawler starts within the invariant. *)
LEMMA InitInv ==
    Init => Inv
  <1> SUFFICES ASSUME Init PROVE Inv
    OBVIOUS
  <1> USE ThreadFacts
  <1>1. TypeOK
    <2>1. now \in Start .. MaxNow
      BY CrawlerAssumption DEF Init
    <2>2. << >> \in Seq(Peers) /\ << >> \in Seq(Neighbours)
      OBVIOUS
    <2> QED BY <2>1, <2>2 DEF Init, TypeOK
  <1>2. PlaceInv
    BY DEF Init, PlaceInv, LoopPlaces, WorkPlaces
  <1>3. HandInv
    BY DEF Init, HandInv
  <1>4. NewsInv
    BY DEF Init, NewsInv
  <1>5. InfoInv /\ BumpInv
    BY DEF Init, InfoInv, BumpInv
  <1>6. OnceInv
    <2> SUFFICES ASSUME NEW p \in Peers, NEW n \in Neighbours PROVE Once(p, n)
      BY OnceMeans
    <2>1. Holders(p, n) = {}
      BY DEF Init, Holders
    <2>2. IsFiniteSet(Holders(p, n)) /\ Cardinality(Holders(p, n)) = 0
      BY <2>1, FS_EmptySet
    <2>3. fresh[p] = << >> /\ published[p][n] = 0 /\ peer[Loop] = {} /\ known[p] = {}
      BY DEF Init
    <2>4. Among(n, << >>) = 0
      BY AmongFacts, << >> \in Seq(Neighbours)
    <2> QED BY <2>2, <2>3, <2>4 DEF Once, Total, Taken
  <1> QED BY <1>1, <1>2, <1>3, <1>4, <1>5, <1>6 DEF Inv

(* Types, places, hands, information, counters and neighbours: what holds  *)
(* in every state of the loop and its workers.                             *)
THEOREM CrawlerInvariant ==
    Spec => []Inv
  <1>1. Inv /\ [Next]_vars => Inv'
    BY TypeStep, PlaceStep, HandStep, NewsStep, CounterStep, OnceStep DEF Inv
  <1> QED BY <1>1, InitInv, PTL DEF Spec

(* MarkPeerNode, NewEntries and the loop publish a neighbour of a peer     *)
(* once, however many workers find it at the same time.                    *)
THEOREM NeighboursAreNewOnce ==
    Spec => []PublishedOnce
  <1>1. Inv => PublishedOnce
    BY DEF Inv, OnceInv
  <1> QED BY <1>1, CrawlerInvariant, PTL

(* Two workers may store a peer's information in either order: the one     *)
(* that is left is announced, by the worker that stored it or by another   *)
(* that read it in its hook.                                               *)
THEOREM InformationIsAnnounced ==
    Spec => []StoredIsAnnounced
  <1>1. Inv => StoredIsAnnounced
    BY DEF Inv, InfoInv, StoredIsAnnounced
  <1> QED BY <1>1, CrawlerInvariant, PTL

(* CanRefresh keeps the pause after a bump, though it stores seconds where *)
(* it reads milliseconds, and though a bump may come between its load and  *)
(* its compare-and-swap.                                                   *)
THEOREM PauseAfterBump ==
    Spec => BumpHoldsOff
  <1>1. ASSUME Inv, [Next]_vars
        PROVE  [\A t \in Threads, c \in Counters :
                  Refreshes(t, c) /\ bumpedAt[c] > 0
                  => now - bumpedAt[c] >= Frequency[c[2]]]_vars
    <2> SUFFICES ASSUME Next, NEW t \in Threads, NEW c \in Counters, Refreshes(t, c), bumpedAt[c] > 0
                 PROVE  now - bumpedAt[c] >= Frequency[c[2]]
      BY <1>1
    <2>1. Allowed(t, c)
      BY <1>1, RefreshIsAllowed DEF Inv
    <2>2. Rested(c)
      BY <1>1, <2>1, AllowedIsRested DEF Inv
    <2>3. bumpedAt[c] # 0
      OBVIOUS
    <2> QED BY <2>2, <2>3 DEF Rested
  <1> QED BY <1>1, CrawlerInvariant, PTL DEF Spec, BumpHoldsOff
=============================================================================
