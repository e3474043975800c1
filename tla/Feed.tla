-------------------------------- MODULE Feed --------------------------------
(***************************************************************************)
(* The event feed: crawler/events/feed.go and channel.go.                  *)
(*                                                                         *)
(* Send starts a goroutine that takes the feed's read lock and hands the   *)
(* event to every listener, over unbuffered channels as SubscribeNodeEvents*)
(* makes them.  Subscribe, Unsubscribe and Stop take the write lock; the   *)
(* latter two close the listeners' channels while they hold it.  Send      *)
(* reads the counter of listeners without the lock, and may do so while    *)
(* the map and the counter disagree.                                       *)
(*                                                                         *)
(* A listener in Drains keeps reading until its channel is closed, and     *)
(* another goroutine unsubscribes it (TestFeedUnsubscribe).  Any other     *)
(* stops reading and then unsubscribes itself (the seeker's eventLoop).    *)
(***************************************************************************)
EXTENDS Integers, FiniteSets

CONSTANTS
    Listeners,  \* the channels that subscribe
    Events,     \* the events sent, each by its own goroutine
    Drains      \* listeners that read until their channel is closed

ASSUME FeedAssumption == Drains \subseteq Listeners /\ IsFiniteSet(Listeners)

(* The threads that take the write lock. *)
Writers == ({"sub", "unsub"} \X Listeners) \cup {<<"stop">>}
NoOne == <<"none">>

VARIABLES
    listeners,  \* Feed.listeners
    subs,       \* Feed.subs
    stopped,    \* Feed.stopped
    closed,     \* listeners whose channel is closed
    done,       \* listeners whose wrappedChan.done is set
    reading,    \* listeners whose goroutine reads the channel
    writer,     \* the thread that announced itself in RWMutex.Lock, or NoOne
    locked,     \* the writer holds the lock
    readers,    \* send goroutines that hold the read lock
    spc,        \* where the send goroutine of an event is
    left,       \* left[e]: listeners the loop of send has not handled yet
    target,     \* target[e]: the listeners (at most one) being sent to
    wpc,        \* where a writer is
    due,        \* history: the subscribed listeners when an event was sent
    got         \* history: the listeners an event was handed to

lock == <<writer, locked, readers>>
history == <<due, got>>
senders == <<spc, left, target, history>>
vars == <<listeners, subs, stopped, closed, done, reading, writer, locked,
          readers, spc, left, target, wpc, history>>

TypeOK ==
    /\ listeners \subseteq Listeners /\ subs \in Nat /\ stopped \in BOOLEAN
    /\ closed \subseteq Listeners /\ done \subseteq Listeners
    /\ reading \subseteq Listeners
    /\ writer \in Writers \cup {NoOne} /\ locked \in BOOLEAN
    /\ readers \subseteq Events
    /\ spc \in [Events -> {"new", "rlock", "blocked", "loop", "enter",
                           "sending", "exit"}]
    /\ left \in [Events -> SUBSET Listeners]
    /\ target \in [Events -> SUBSET Listeners]
    /\ wpc \in [Writers -> {"new", "lock", "wait", "body", "half", "unlock", "exit"}]
    /\ due \in [Events -> SUBSET Listeners] /\ got \in [Events -> SUBSET Listeners]

Init ==
    /\ listeners = {} /\ subs = 0 /\ stopped = FALSE
    /\ closed = {} /\ done = {} /\ reading = {}
    /\ writer = NoOne /\ locked = FALSE /\ readers = {}
    /\ spc = [e \in Events |-> "new"]
    /\ left = [e \in Events |-> {}] /\ target = [e \in Events |-> {}]
    /\ wpc = [w \in Writers |-> "new"]
    /\ due = [e \in Events |-> {}] /\ got = [e \in Events |-> {}]

-----------------------------------------------------------------------------
(* sync.RWMutex: an announced writer keeps new readers out, waits for the  *)
(* present ones, and on Unlock lets in those that came meanwhile.          *)

Announce(w) ==
    /\ wpc[w] = "lock" /\ writer = NoOne
    /\ writer' = w
    /\ wpc' = [wpc EXCEPT ![w] = "wait"]
    /\ UNCHANGED <<listeners, subs, stopped, closed, done, reading, locked,
                   readers, senders>>

Lock(w) ==
    /\ wpc[w] = "wait" /\ readers = {}
    /\ locked' = TRUE
    /\ wpc' = [wpc EXCEPT ![w] = "body"]
    /\ UNCHANGED <<listeners, subs, stopped, closed, done, reading, writer,
                   readers, senders>>

Unlock(w) ==
    /\ wpc[w] = "unlock"
    /\ LET blocked == {e \in Events : spc[e] = "blocked"}
       IN  /\ readers' = readers \cup blocked
           /\ spc' = [e \in Events |-> IF e \in blocked THEN "loop" ELSE spc[e]]
           /\ left' = [e \in Events |-> IF e \in blocked THEN listeners ELSE left[e]]
    /\ writer' = NoOne /\ locked' = FALSE
    /\ wpc' = [wpc EXCEPT ![w] = "exit"]
    /\ UNCHANGED <<listeners, subs, stopped, closed, done, reading, target,
                   history>>

(* Defective send: it does not take the read lock. *)
RLockSkipped(e) ==
    /\ spc[e] = "rlock"
    /\ spc' = [spc EXCEPT ![e] = "loop"]
    /\ left' = [left EXCEPT ![e] = listeners]
    /\ UNCHANGED <<listeners, subs, stopped, closed, done, reading, lock, target,
                   wpc, history>>

RLock(e) ==
    /\ spc[e] = "rlock"
    /\ IF writer = NoOne
       THEN /\ readers' = readers \cup {e}
            /\ spc' = [spc EXCEPT ![e] = "loop"]
            /\ left' = [left EXCEPT ![e] = listeners]
       ELSE spc' = [spc EXCEPT ![e] = "blocked"] /\ UNCHANGED <<readers, left>>
    /\ UNCHANGED <<listeners, subs, stopped, closed, done, reading, writer,
                   locked, target, wpc, history>>

-----------------------------------------------------------------------------
(* Calls that take the write lock.                                         *)

Call(w) == wpc' = [wpc EXCEPT ![w] = "lock"]
Halve(w) == wpc' = [wpc EXCEPT ![w] = "half"]
Finish(w) == wpc' = [wpc EXCEPT ![w] = "unlock"]

CallSubscribe(l) ==
    /\ wpc[<<"sub", l>>] = "new"
    /\ Call(<<"sub", l>>)
    /\ UNCHANGED <<listeners, subs, stopped, closed, done, reading, lock, senders>>

(* Subscribe registers the channel and then counts it; a stopped feed      *)
(* returns an empty subscription.                                          *)
Subscribe(l) ==
    /\ wpc[<<"sub", l>>] = "body"
    /\ IF stopped THEN Finish(<<"sub", l>>) /\ UNCHANGED listeners
       ELSE Halve(<<"sub", l>>) /\ listeners' = listeners \cup {l}
    /\ UNCHANGED <<subs, stopped, closed, done, reading, lock, senders>>

(* Defective Subscribe: the listener is not counted. *)
SubscribeUncounted(l) ==
    /\ wpc[<<"sub", l>>] = "half"
    /\ reading' = reading \cup {l}
    /\ Finish(<<"sub", l>>)
    /\ UNCHANGED <<listeners, subs, stopped, closed, done, lock, senders>>

SubscribeCounts(l) ==
    /\ wpc[<<"sub", l>>] = "half"
    /\ subs' = subs + 1
    /\ reading' = reading \cup {l}
    /\ Finish(<<"sub", l>>)
    /\ UNCHANGED <<listeners, stopped, closed, done, lock, senders>>

(* A reader that does not drain is not reading any more when it unsubscribes. *)
CallUnsubscribe(l) ==
    /\ l \in reading /\ wpc[<<"unsub", l>>] = "new"
    /\ Call(<<"unsub", l>>)
    /\ reading' = IF l \in Drains THEN reading ELSE reading \ {l}
    /\ UNCHANGED <<listeners, subs, stopped, closed, done, lock, senders>>

Tasks(l) == {e \in Events : spc[e] = "sending" /\ l \in target[e]}

(* Defective Close: the channel stays open. *)
CloseNot(S) ==
    /\ \A l \in S \ done : Tasks(l) = {}
    /\ done' = done \cup S
    /\ UNCHANGED closed

(* wrappedChan.Close, for the channels S: done is set, the pending sends   *)
(* are waited for and the channel is closed.                               *)
Close(S) ==
    /\ \A l \in S \ done : Tasks(l) = {}
    /\ closed' = closed \cup (S \ done)
    /\ done' = done \cup S

(* Unsubscribe counts the listener out and then removes and closes it. *)
Unsubscribe(l) ==
    /\ wpc[<<"unsub", l>>] = "body"
    /\ IF l \in listeners
       THEN Halve(<<"unsub", l>>) /\ subs' = subs - 1
       ELSE Finish(<<"unsub", l>>) /\ UNCHANGED subs
    /\ UNCHANGED <<listeners, stopped, closed, done, reading, lock, senders>>

UnsubscribeRemoves(l) ==
    /\ wpc[<<"unsub", l>>] = "half"
    /\ listeners' = listeners \ {l} /\ Close({l})
    /\ Finish(<<"unsub", l>>)
    /\ UNCHANGED <<subs, stopped, reading, lock, senders>>

CallStop ==
    /\ ~ stopped
    /\ stopped' = TRUE
    /\ Call(<<"stop">>)
    /\ UNCHANGED <<listeners, subs, closed, done, reading, lock, senders>>

Stop ==
    /\ wpc[<<"stop">>] = "body"
    /\ Close(listeners)
    /\ listeners' = {}
    /\ Finish(<<"stop">>)
    /\ UNCHANGED <<subs, stopped, reading, lock, senders>>

-----------------------------------------------------------------------------
(* Send and its goroutine.                                                 *)

(* The subscribed listeners: registered and counted. *)
Members ==
    {l \in listeners : wpc[<<"sub", l>>] # "half" /\ wpc[<<"unsub", l>>] # "half"}

Send(e) ==
    /\ spc[e] = "new"
    /\ IF subs = 0
       THEN spc' = [spc EXCEPT ![e] = "exit"] /\ UNCHANGED due
       ELSE /\ spc' = [spc EXCEPT ![e] = "rlock"]
            /\ due' = [due EXCEPT ![e] = Members]
    /\ UNCHANGED <<listeners, subs, stopped, closed, done, reading, lock, left,
                   target, wpc, got>>

(* The next listener of the loop; a channel that is done is skipped. *)
Visit(e, l) ==
    /\ spc[e] = "loop" /\ l \in left[e]
    /\ left' = [left EXCEPT ![e] = @ \ {l}]
    /\ IF l \in done THEN UNCHANGED <<spc, target>>
       ELSE /\ spc' = [spc EXCEPT ![e] = "enter"]
            /\ target' = [target EXCEPT ![e] = {l}]
    /\ UNCHANGED <<listeners, subs, stopped, closed, done, reading, lock, wpc, history>>

(* tasks.Add(1), between the test of done and the send. *)
Enter(e) ==
    /\ spc[e] = "enter"
    /\ spc' = [spc EXCEPT ![e] = "sending"]
    /\ UNCHANGED <<listeners, subs, stopped, closed, done, reading, lock, left,
                   target, wpc, history>>

(* The rendezvous of the sender and the reader. *)
Deliver(e) ==
    /\ spc[e] = "sending" /\ target[e] \subseteq reading \ closed
    /\ spc' = [spc EXCEPT ![e] = "loop"]
    /\ target' = [target EXCEPT ![e] = {}]
    /\ got' = [got EXCEPT ![e] = @ \cup target[e]]
    /\ UNCHANGED <<listeners, subs, stopped, closed, done, reading, lock, left, wpc, due>>

(* Defective send: the read lock is never released. *)
RUnlockForgotten(e) ==
    /\ spc[e] = "loop" /\ left[e] = {}
    /\ spc' = [spc EXCEPT ![e] = "exit"]
    /\ UNCHANGED <<listeners, subs, stopped, closed, done, reading, lock, left,
                   target, wpc, history>>

RUnlock(e) ==
    /\ spc[e] = "loop" /\ left[e] = {}
    /\ readers' = readers \ {e}
    /\ spc' = [spc EXCEPT ![e] = "exit"]
    /\ UNCHANGED <<listeners, subs, stopped, closed, done, reading, writer,
                   locked, left, target, wpc, history>>

(* A draining reader sees the closed channel and ends. *)
ReadClosed(l) ==
    /\ l \in reading \cap closed
    /\ reading' = reading \ {l}
    /\ UNCHANGED <<listeners, subs, stopped, closed, done, lock, senders, wpc>>

-----------------------------------------------------------------------------
WriterStep(w) == Announce(w) \/ Lock(w) \/ Unlock(w)
ListenerStep(l) ==
    Subscribe(l) \/ SubscribeCounts(l) \/ Unsubscribe(l) \/ UnsubscribeRemoves(l)
    \/ ReadClosed(l)
SenderStep(e) ==
    RLock(e) \/ (\E l \in left[e] : Visit(e, l)) \/ Enter(e) \/ Deliver(e) \/ RUnlock(e)

Next ==
    \/ \E w \in Writers : WriterStep(w)
    \/ \E l \in Listeners : ListenerStep(l) \/ CallSubscribe(l) \/ CallUnsubscribe(l)
    \/ \E e \in Events : SenderStep(e) \/ Send(e)
    \/ CallStop \/ Stop

Spec == Init /\ [][Next]_vars

(* Every goroutine that can run eventually runs; nobody has to call the    *)
(* feed.                                                                   *)
FairSpec ==
    /\ Spec
    /\ \A w \in Writers : WF_vars(WriterStep(w))
    /\ \A l \in Listeners : WF_vars(ListenerStep(l))
    /\ \A e \in Events : WF_vars(SenderStep(e))
    /\ WF_vars(Stop)

-----------------------------------------------------------------------------
(* Properties. *)

(* No goroutine sends on a closed channel, which would panic: a sender     *)
(* that passed the test of done finishes before the channel is closed.     *)
NoSendOnClosed ==
    \A e \in Events : spc[e] \in {"enter", "sending"} => target[e] \cap closed = {}

(* The counter Send tests never hides a subscribed listener, also while    *)
(* Subscribe or Unsubscribe is between the map and the counter, so no      *)
(* event is dropped while somebody is subscribed.                          *)
SubsCountsListeners ==
    /\ subs >= Cardinality(Members)
    /\ ~ stopped => subs = Cardinality(Members)

(* What the feed shows of itself.  A listener joins when it is counted and *)
(* leaves when it is counted out.  An event under way is open from Send,   *)
(* which starts its goroutine, until the goroutine gives the lock back.    *)
FeedPromise == INSTANCE Broadcast WITH
    members <- Members,
    stage <- [e \in Events |-> CASE spc[e] = "new" -> "new"
                                 [] spc[e] = "exit" -> "over"
                                 [] OTHER -> "open"]

(* The feed keeps the promise of module Broadcast: Send, which looks at    *)
(* the counter without the lock, and its goroutine, which walks over the   *)
(* listeners while others wait to change them, miss nobody who stays       *)
(* subscribed, hand an event to nobody twice and to nobody who left.       *)
KeepsFeedPromise == FeedPromise!Spec

(* Every started call comes back: each send goroutine ends and each        *)
(* Subscribe, Unsubscribe and Stop returns.                                *)
EveryCallReturns ==
    /\ \A e \in Events : spc[e] # "new" ~> spc[e] = "exit"
    /\ \A w \in Writers : wpc[w] # "new" ~> wpc[w] = "exit"

(* A listener that drains its channel is told of its unsubscription. *)
UnsubscribedReaderEnds ==
    \A l \in Listeners : wpc[<<"unsub", l>>] = "lock" ~> l \notin reading
=============================================================================
