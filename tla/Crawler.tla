------------------------------- MODULE Crawler ------------------------------
(***************************************************************************)
(* The crawler's round robin over its peers: crawler/crawler/crawler.go    *)
(* (Crawl, loop), buffer.go, crawlerProc.go (OnData) and peer.go.          *)
(*                                                                         *)
(* At every tick the loop takes the next peer from the buffer, hands it to *)
(* a worker if its find counter allows, and publishes the neighbours that  *)
(* were found since its last turn.  A worker queries the peer's client     *)
(* information if the info counter allows, asks for neighbours and marks   *)
(* them.  Several workers may have the same peer at once.                  *)
(*                                                                         *)
(* The success and failure totals of a counter are statistics and left     *)
(* out; LastAttempt, which decides what a peer is asked and when, is not.  *)
(***************************************************************************)
EXTENDS Integers, Sequences, FiniteSets

CONSTANTS
    Peers, Neighbours, Infos, Workers,
    None,           \* no client information yet
    Start, MaxNow,  \* the clock at the start, and its bound, in milliseconds
    Second,         \* milliseconds in a second
    Frequency       \* Frequency[k]: pause a counter of kind k is made with

Kinds == {"find", "info"}
Counters == Peers \X Kinds
Loop == "loop"
Threads == Workers \cup {Loop}

ASSUME CrawlerAssumption ==
    /\ Start \in Nat /\ MaxNow \in Nat /\ Start <= MaxNow /\ Second \in Nat \ {0}
    /\ Frequency \in [Kinds -> Nat]
    /\ None \notin Infos /\ Loop \notin Workers

VARIABLES
    now,        \* time.Now, in milliseconds
    coming,     \* peers the seeker has not delivered yet
    buffer,     \* crawler.buffer
    pc, peer,   \* where a thread is, and the peers (at most one) it works on
    loaded,     \* lastUnix in a thread's CanRefresh, 0 outside of it
    last,       \* LastAttempt of a counter
    found,      \* neighbours a worker has still to mark
    marking,    \* neighbours (at most one) a worker stored and has not listed
    known,      \* Peer.Peers
    amount,     \* Peer.peersAmount
    fresh,      \* Peer.fresh
    entries,    \* what NewEntries returned to the loop
    news,       \* client information a worker holds
    info,       \* Peer.info
    published,  \* history: how often a neighbour of a peer was published
    announced,  \* history: client information published for a peer
    allowedAt,  \* history: when CanRefresh last allowed a refresh
    bumpedAt    \* history: when the counter was last bumped

counterVars == <<loaded, last, allowedAt, bumpedAt>>
nodeVars == <<found, marking, known, amount, fresh, entries, published>>
infoVars == <<news, info, announced>>
vars == <<now, coming, buffer, pc, peer, counterVars, nodeVars, infoVars>>

TypeOK ==
    /\ now \in Start .. MaxNow
    /\ coming \subseteq Peers /\ buffer \in Seq(Peers)
    /\ pc \in [Threads -> {"tick", "enqueue", "idle", "load", "swap", "push",
                           "entries", "publish", "query", "compare", "store", "hook",
                           "announce", "bump", "ask", "mark", "count", "list"}]
    /\ peer \in [Threads -> SUBSET Peers]
    /\ loaded \in [Threads -> Nat] /\ last \in [Counters -> Nat]
    /\ found \in [Workers -> SUBSET Neighbours]
    /\ marking \in [Workers -> SUBSET Neighbours]
    /\ known \in [Peers -> SUBSET Neighbours] /\ amount \in [Peers -> Nat]
    /\ fresh \in [Peers -> Seq(Neighbours)] /\ entries \in Seq(Neighbours)
    /\ news \in [Workers -> Infos \cup {None}] /\ info \in [Peers -> Infos \cup {None}]
    /\ published \in [Peers -> [Neighbours -> Nat]]
    /\ announced \in [Peers -> SUBSET Infos]
    /\ allowedAt \in [Counters -> Nat] /\ bumpedAt \in [Counters -> Nat]

Init ==
    /\ now = Start /\ coming = Peers /\ buffer = << >>
    /\ pc = [t \in Threads |-> IF t = Loop THEN "tick" ELSE "idle"]
    /\ peer = [t \in Threads |-> {}]
    /\ loaded = [t \in Threads |-> 0] /\ last = [c \in Counters |-> 0]
    /\ found = [w \in Workers |-> {}] /\ marking = [w \in Workers |-> {}]
    /\ known = [p \in Peers |-> {}] /\ amount = [p \in Peers |-> 0]
    /\ fresh = [p \in Peers |-> << >>] /\ entries = << >>
    /\ news = [w \in Workers |-> None] /\ info = [p \in Peers |-> None]
    /\ published = [p \in Peers |-> [n \in Neighbours |-> 0]]
    /\ announced = [p \in Peers |-> {}]
    /\ allowedAt = [c \in Counters |-> 0] /\ bumpedAt = [c \in Counters |-> 0]

Goto(t, to) == pc' = [pc EXCEPT ![t] = to]

-----------------------------------------------------------------------------
(* QueryCounter. *)

(* time.Now().Unix(): CanRefresh stores seconds and reads milliseconds. *)
Unix == now \div Second

(* LastAttempt.Load(). *)
Load(t, c) ==
    /\ loaded' = [loaded EXCEPT ![t] = last[c]]
    /\ Goto(t, "swap")
    /\ UNCHANGED <<last, allowedAt, bumpedAt>>

TooEarly(t, c) == now - loaded[t] < Frequency[c[2]]

(* Defective CanRefresh: it stores without comparing. *)
AllowedBlindly(t, c) ==
    /\ ~ TooEarly(t, c)
    /\ last' = [last EXCEPT ![c] = Unix]
    /\ allowedAt' = [allowedAt EXCEPT ![c] = now]
    /\ loaded' = [loaded EXCEPT ![t] = 0]
    /\ UNCHANGED bumpedAt

(* The comparison succeeds and the refresh is allowed. *)
Allowed(t, c) ==
    /\ ~ TooEarly(t, c) /\ last[c] = loaded[t]
    /\ last' = [last EXCEPT ![c] = Unix]
    /\ allowedAt' = [allowedAt EXCEPT ![c] = now]
    /\ loaded' = [loaded EXCEPT ![t] = 0]
    /\ UNCHANGED bumpedAt

(* CanRefresh: yes goes on at one place, no at another, and a counter that *)
(* changed meanwhile is loaded again.                                      *)
CanRefresh(t, c, yes, no) ==
    \/ pc[t] = "load" /\ Load(t, c)
    \/ pc[t] = "swap" /\ Allowed(t, c) /\ Goto(t, yes)
    \/ /\ pc[t] = "swap"
       /\ \/ TooEarly(t, c) /\ Goto(t, no)
          \/ ~ TooEarly(t, c) /\ last[c] # loaded[t] /\ Goto(t, "load")
       /\ loaded' = [loaded EXCEPT ![t] = 0]
       /\ UNCHANGED <<last, allowedAt, bumpedAt>>

Bump(c) ==
    /\ last' = [last EXCEPT ![c] = now]
    /\ bumpedAt' = [bumpedAt EXCEPT ![c] = now]
    /\ UNCHANGED <<loaded, allowedAt>>

-----------------------------------------------------------------------------
(* Crawl: a delivered peer joins the buffer. *)
NewPeer(p) ==
    /\ p \in coming
    /\ coming' = coming \ {p} /\ buffer' = Append(buffer, p)
    /\ UNCHANGED <<now, pc, peer, counterVars, nodeVars, infoVars>>

(* The loop. *)
Dequeue ==
    /\ pc[Loop] = "tick" /\ buffer # << >>
    /\ buffer' = Tail(buffer) /\ peer' = [peer EXCEPT ![Loop] = {Head(buffer)}]
    /\ Goto(Loop, "enqueue")
    /\ UNCHANGED <<now, coming, counterVars, nodeVars, infoVars>>

Enqueue ==
    /\ pc[Loop] = "enqueue"
    /\ \E p \in peer[Loop] : buffer' = Append(buffer, p)
    /\ Goto(Loop, "load")
    /\ UNCHANGED <<now, coming, peer, counterVars, nodeVars, infoVars>>

(* Defective loop: a peer that is not refreshed loses its turn. *)
RefreshFindSkips ==
    /\ \E p \in peer[Loop] : CanRefresh(Loop, <<p, "find">>, "push", "tick")
    /\ UNCHANGED <<now, coming, buffer, peer, nodeVars, infoVars>>

RefreshFind ==
    /\ \E p \in peer[Loop] : CanRefresh(Loop, <<p, "find">>, "push", "entries")
    /\ UNCHANGED <<now, coming, buffer, peer, nodeVars, infoVars>>

(* iterator.Push waits for a worker. *)
Push(w) ==
    /\ pc[Loop] = "push" /\ pc[w] = "idle"
    /\ pc' = [pc EXCEPT ![Loop] = "entries", ![w] = "load"]
    /\ peer' = [peer EXCEPT ![w] = peer[Loop]]
    /\ UNCHANGED <<now, coming, buffer, counterVars, nodeVars, infoVars>>

(* Defective NewEntries: the list is not emptied. *)
NewEntriesKept ==
    /\ pc[Loop] = "entries"
    /\ \E p \in peer[Loop] :
          /\ entries' = fresh[p]
          /\ Goto(Loop, IF fresh[p] = << >> THEN "tick" ELSE "publish")
    /\ UNCHANGED <<now, coming, buffer, peer, counterVars, infoVars, found, marking,
                   known, amount, fresh, published>>

NewEntries ==
    /\ pc[Loop] = "entries"
    /\ \E p \in peer[Loop] :
          /\ entries' = fresh[p]
          /\ fresh' = [fresh EXCEPT ![p] = << >>]
          /\ Goto(Loop, IF fresh[p] = << >> THEN "tick" ELSE "publish")
    /\ UNCHANGED <<now, coming, buffer, peer, counterVars, infoVars, found, marking,
                   known, amount, published>>

(* How often n is among the entries. *)
Among(n, s) == Cardinality({i \in DOMAIN s : s[i] = n})

PublishNodeStats ==
    /\ pc[Loop] = "publish"
    /\ \E p \in peer[Loop] :
          published' = [published EXCEPT ![p] =
              [n \in Neighbours |-> @[n] + Among(n, entries)]]
    /\ entries' = << >>
    /\ Goto(Loop, "tick")
    /\ UNCHANGED <<now, coming, buffer, peer, counterVars, infoVars, found, marking,
                   known, amount, fresh>>

-----------------------------------------------------------------------------
(* OnData: first the client information. *)

RefreshInfo(w) ==
    /\ \E p \in peer[w] : CanRefresh(w, <<p, "info">>, "query", "ask")
    /\ UNCHANGED <<now, coming, buffer, peer, nodeVars, infoVars>>

(* Query answers with some information, or fails. *)
Query(w) ==
    /\ pc[w] = "query"
    /\ \/ \E i \in Infos : news' = [news EXCEPT ![w] = i] /\ Goto(w, "compare")
       \/ UNCHANGED news /\ Goto(w, "bump")
    /\ UNCHANGED <<now, coming, buffer, peer, counterVars, nodeVars, info, announced>>

(* UpdateInfo: nothing happens when the information is the one stored. *)
Compare(w) ==
    /\ pc[w] = "compare"
    /\ \E p \in peer[w] : Goto(w, IF info[p] = news[w] THEN "bump" ELSE "store")
    /\ UNCHANGED <<now, coming, buffer, peer, counterVars, nodeVars, infoVars>>

Store(w) ==
    /\ pc[w] = "store"
    /\ \E p \in peer[w] : info' = [info EXCEPT ![p] = news[w]]
    /\ Goto(w, "hook")
    /\ UNCHANGED <<now, coming, buffer, peer, counterVars, nodeVars, news, announced>>

(* Defective hook: only the first information of a peer is announced. *)
HookOnce(w) ==
    /\ pc[w] = "hook"
    /\ \E p \in peer[w] : Goto(w, IF announced[p] = {} THEN "announce" ELSE "bump")
    /\ UNCHANGED <<now, coming, buffer, peer, counterVars, nodeVars, infoVars>>

(* infoHook reads the peer's information and publishes what it read. *)
Hook(w) ==
    /\ pc[w] = "hook"
    /\ \E p \in peer[w] : news' = [news EXCEPT ![w] = info[p]]
    /\ Goto(w, "announce")
    /\ UNCHANGED <<now, coming, buffer, peer, counterVars, nodeVars, info, announced>>

Announce(w) ==
    /\ pc[w] = "announce"
    /\ \E p \in peer[w] : announced' = [announced EXCEPT ![p] = @ \cup {news[w]}]
    /\ Goto(w, "bump")
    /\ UNCHANGED <<now, coming, buffer, peer, counterVars, nodeVars, news, info>>

BumpInfo(w) ==
    /\ pc[w] = "bump"
    /\ \E p \in peer[w] : Bump(<<p, "info">>)
    /\ news' = [news EXCEPT ![w] = None]
    /\ Goto(w, "ask")
    /\ UNCHANGED <<now, coming, buffer, peer, nodeVars, info, announced>>

(* Then the neighbours: AskForRandomNodes returns some, or fails, which is *)
(* bumped twice and leaves nothing to mark.                                *)
Ask(w) ==
    /\ pc[w] = "ask"
    /\ \E p \in peer[w], S \in SUBSET Neighbours :
          /\ Bump(<<p, "find">>)
          /\ found' = [found EXCEPT ![w] = S]
    /\ Goto(w, "mark")
    /\ UNCHANGED <<now, coming, buffer, peer, infoVars, marking, known, amount,
                   fresh, entries, published>>

(* MarkPeerNode: LoadOrStore, then the counter, then the list. *)
Mark(w) ==
    /\ pc[w] = "mark" /\ found[w] # {}
    /\ \E n \in found[w], p \in peer[w] :
          /\ found' = [found EXCEPT ![w] = @ \ {n}]
          /\ known' = [known EXCEPT ![p] = @ \cup {n}]
          /\ IF n \in known[p]
             THEN Goto(w, "mark") /\ UNCHANGED marking
             ELSE Goto(w, "count") /\ marking' = [marking EXCEPT ![w] = {n}]
    /\ UNCHANGED <<now, coming, buffer, peer, counterVars, infoVars, amount, fresh,
                   entries, published>>

Count(w) ==
    /\ pc[w] = "count"
    /\ \E p \in peer[w] : amount' = [amount EXCEPT ![p] = @ + 1]
    /\ Goto(w, "list")
    /\ UNCHANGED <<now, coming, buffer, peer, counterVars, infoVars, found, marking,
                   known, fresh, entries, published>>

(* The node is listed, and pinged by a goroutine of its own. *)
List(w) ==
    /\ pc[w] = "list"
    /\ \E n \in marking[w], p \in peer[w] : fresh' = [fresh EXCEPT ![p] = Append(@, n)]
    /\ marking' = [marking EXCEPT ![w] = {}]
    /\ Goto(w, "mark")
    /\ UNCHANGED <<now, coming, buffer, peer, counterVars, infoVars, found, known,
                   amount, entries, published>>

(* All nodes are marked and the pings have returned. *)
Finish(w) ==
    /\ pc[w] = "mark" /\ found[w] = {}
    /\ peer' = [peer EXCEPT ![w] = {}]
    /\ Goto(w, "idle")
    /\ UNCHANGED <<now, coming, buffer, counterVars, nodeVars, infoVars>>

Advance ==
    /\ now < MaxNow
    /\ now' = now + 1
    /\ UNCHANGED <<coming, buffer, pc, peer, counterVars, nodeVars, infoVars>>

-----------------------------------------------------------------------------
RunLoop ==
    \/ Dequeue \/ Enqueue \/ RefreshFind \/ NewEntries \/ PublishNodeStats
    \/ \E w \in Workers : Push(w)

OnData(w) ==
    \/ RefreshInfo(w) \/ Query(w) \/ Compare(w) \/ Store(w) \/ Hook(w) \/ Announce(w)
    \/ BumpInfo(w) \/ Ask(w) \/ Mark(w) \/ Count(w) \/ List(w) \/ Finish(w)

Next ==
    \/ \E p \in Peers : NewPeer(p)
    \/ RunLoop
    \/ \E w \in Workers : OnData(w)
    \/ Advance

Spec == Init /\ [][Next]_vars

(* The ticker fires, the loop and the workers run, queries and pings       *)
(* return and time passes; the seeker need not deliver anything.           *)
FairSpec ==
    /\ Spec
    /\ WF_vars(RunLoop) /\ WF_vars(Advance)
    /\ \A w \in Workers : WF_vars(OnData(w))

-----------------------------------------------------------------------------
(* Properties. *)

(* A neighbour of a peer is published once: it is in exactly one of the    *)
(* workers' hands, the list of new entries, the loop's hands and the       *)
(* published ones, however many workers mark it at the same time.          *)
PublishedOnce ==
    \A p \in Peers, n \in Neighbours :
        LET listed == Among(n, fresh[p]) + published[p][n]
            taken == IF p \in peer[Loop] THEN Among(n, entries) ELSE 0
            held == Cardinality({w \in Workers : p \in peer[w] /\ n \in marking[w]})
        IN  listed + taken + held = IF n \in known[p] THEN 1 ELSE 0

(* Once no worker is busy with a peer's information, what is stored for it *)
(* was published, whatever the order in which workers stored it.           *)
StoredIsAnnounced ==
    \A p \in Peers :
        info[p] = None \/ info[p] \in announced[p]
        \/ \E w \in Workers : p \in peer[w] /\ pc[w] \in {"hook", "announce"}

(* CanRefresh returns true to thread t, for the counter c. *)
Refreshes(t, c) ==
    /\ pc[t] = "swap" /\ pc'[t] = (IF t = Loop THEN "push" ELSE "query")
    /\ c[1] \in peer[t] /\ c[2] = IF t = Loop THEN "find" ELSE "info"

(* No refresh is allowed within a counter's pause after it was bumped,     *)
(* even if the bump comes between the load and the swap of CanRefresh.     *)
BumpHoldsOff ==
    [][\A t \in Threads, c \in Counters :
          Refreshes(t, c) /\ bumpedAt[c] > 0
          => now - bumpedAt[c] >= Frequency[c[2]]]_vars

(* "atomically does refresh and return true if success" (peer.go:26): two  *)
(* refreshes are at least the counter's pause apart.                       *)
RefreshesAreSpaced ==
    [][\A t \in Threads, c \in Counters :
          Refreshes(t, c) /\ allowedAt[c] > 0
          => now - allowedAt[c] >= Frequency[c[2]]]_vars

(* Every neighbour that a worker marked is published in the end.  The loop *)
(* does not end in this model; at its end what is still listed is lost.    *)
MarkedIsPublished ==
    \A p \in Peers, n \in Neighbours : n \in known[p] ~> published[p][n] > 0
=============================================================================
