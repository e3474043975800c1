--------------------------- MODULE FeedPoolProofs ---------------------------
(***************************************************************************)
(* Proofs about Feed, for every finite set of listeners and every set of   *)
(* events, and about Pool, which sends its finished jobs through a feed,   *)
(* for every set of jobs and every target.                                 *)
(***************************************************************************)
EXTENDS Feed, Pool, FiniteSetTheorems, SequenceTheorems, TLAPS

-----------------------------------------------------------------------------
(* The feed. *)

(* The two kinds of threads of a listener, Stop and NoOne are different. *)
LEMMA WriterFacts ==
    /\ <<"stop">> \in Writers /\ NoOne \notin Writers
    /\ \A l \in Listeners :
          /\ <<"sub", l>> \in Writers /\ <<"unsub", l>> \in Writers
          /\ <<"sub", l>> # <<"stop">> /\ <<"unsub", l>> # <<"stop">>
          /\ \A k \in Listeners : /\ <<"sub", l>> # <<"unsub", k>>
                                  /\ <<"sub", l>> = <<"sub", k>> => l = k
                                  /\ <<"unsub", l>> = <<"unsub", k>> => l = k
  BY DEF Writers, NoOne

(* All of the type invariant but the counter, whose sign depends on        *)
(* SubsCountsListeners.                                                    *)
Types ==
    /\ listeners \subseteq Listeners /\ stopped \in BOOLEAN
    /\ closed \subseteq Listeners /\ done \subseteq Listeners
    /\ reading \subseteq Listeners
    /\ writer \in Writers \cup {NoOne} /\ locked \in BOOLEAN
    /\ readers \subseteq Events
    /\ spc \in [Events -> {"new", "rlock", "blocked", "loop", "enter",
                           "sending", "exit"}]
    /\ left \in [Events -> SUBSET Listeners]
    /\ target \in [Events -> SUBSET Listeners]
    /\ wpc \in [Writers -> {"new", "lock", "wait", "body", "half", "unlock", "exit"}]

(* The read-write lock: a thread in its critical section is the announced  *)
(* writer and no send goroutine holds the read lock.                       *)
LockInv ==
    \A w \in Writers :
        /\ wpc[w] \in {"wait", "body", "half", "unlock"} => writer = w
        /\ wpc[w] \in {"body", "half", "unlock"} => readers = {}

(* A send goroutine in its loop holds the read lock and is on its way      *)
(* through listeners that are still registered.                            *)
SendInv ==
    \A e \in Events :
        /\ spc[e] \in {"loop", "enter", "sending"} =>
              e \in readers /\ left[e] \subseteq listeners /\ target[e] \subseteq listeners
        /\ spc[e] \notin {"enter", "sending"} => target[e] = {}

(* A listener is registered once, and not after its channel was closed;    *)
(* one between the map and the counter is registered.                      *)
ListenerInv ==
    /\ listeners \cap closed = {}
    /\ \A l \in listeners \cup closed : wpc[<<"sub", l>>] \in {"half", "unlock", "exit"}
    /\ \A l \in Listeners :
          wpc[<<"sub", l>>] = "half" \/ wpc[<<"unsub", l>>] = "half" => l \in listeners

(* Only Stop runs the body of stop. *)
StopInv == wpc[<<"stop">>] # "new" => stopped

Inv == Types /\ LockInv /\ SendInv /\ ListenerInv /\ StopInv

(* The feed starts within the invariant. *)
LEMMA InitInv == Init => Inv
  BY WriterFacts DEF Init, Inv, Types, LockInv, SendInv, ListenerInv, StopInv

(* Every step keeps the invariant. *)
LEMMA InvStep == ASSUME Inv, [Next]_vars PROVE Inv'
  <1> USE WriterFacts
  <1>0. Types /\ LockInv /\ SendInv /\ ListenerInv /\ StopInv
    BY DEF Inv
  <1>1. ASSUME NEW w \in Writers, Announce(w) PROVE Inv'
    <2>1. Types'
      BY <1>0, <1>1 DEF Announce, senders, Types
    <2>2. LockInv'
      BY <1>0, <1>1 DEF Announce, senders, LockInv
    <2>3. SendInv'
      BY <1>0, <1>1 DEF Announce, senders, SendInv
    <2>4. ListenerInv'
      BY <1>0, <1>1 DEF Announce, senders, ListenerInv
    <2>5. StopInv'
      BY <1>0, <1>1 DEF Announce, senders, StopInv, Types
    <2> QED BY <2>1, <2>2, <2>3, <2>4, <2>5 DEF Inv
  <1>2. ASSUME NEW w \in Writers, Lock(w) PROVE Inv'
    <2>1. Types'
      BY <1>0, <1>2 DEF Lock, senders, Types
    <2>2. LockInv'
      BY <1>0, <1>2 DEF Lock, senders, LockInv
    <2>3. SendInv'
      BY <1>0, <1>2 DEF Lock, senders, SendInv
    <2>4. ListenerInv'
      BY <1>0, <1>2 DEF Lock, senders, ListenerInv
    <2>5. StopInv'
      BY <1>0, <1>2 DEF Lock, senders, StopInv, Types
    <2> QED BY <2>1, <2>2, <2>3, <2>4, <2>5 DEF Inv
  <1>3. ASSUME NEW w \in Writers, Unlock(w) PROVE Inv'
    <2>1. Types'
      BY <1>0, <1>3 DEF Unlock, Types
    <2>2. LockInv'
      BY <1>0, <1>3 DEF Unlock, LockInv, Types
    <2>3. SendInv'
      BY <1>0, <1>3 DEF Unlock, SendInv
    <2>4. ListenerInv'
      BY <1>0, <1>3 DEF Unlock, ListenerInv
    <2>5. StopInv'
      BY <1>0, <1>3 DEF Unlock, StopInv, Types
    <2> QED BY <2>1, <2>2, <2>3, <2>4, <2>5 DEF Inv
  <1>4. ASSUME NEW e \in Events, RLock(e) PROVE Inv'
    <2>1. Types'
      BY <1>0, <1>4 DEF RLock, Types
    <2>2. LockInv'
      BY <1>0, <1>4 DEF RLock, LockInv
    <2>3. SendInv'
      BY <1>0, <1>4 DEF RLock, SendInv, Types
    <2>4. ListenerInv'
      BY <1>0, <1>4 DEF RLock, ListenerInv
    <2>5. StopInv'
      BY <1>0, <1>4 DEF RLock, StopInv, Types
    <2> QED BY <2>1, <2>2, <2>3, <2>4, <2>5 DEF Inv
  <1>5. ASSUME NEW l \in Listeners, CallSubscribe(l) PROVE Inv'
    <2>1. Types'
      BY <1>0, <1>5 DEF CallSubscribe, Call, lock, senders, Types
    <2>2. LockInv'
      BY <1>0, <1>5 DEF CallSubscribe, Call, lock, senders, LockInv
    <2>3. SendInv'
      BY <1>0, <1>5 DEF CallSubscribe, Call, lock, senders, SendInv
    <2>4. ListenerInv'
      BY <1>0, <1>5 DEF CallSubscribe, Call, lock, senders, ListenerInv
    <2>5. StopInv'
      BY <1>0, <1>5 DEF CallSubscribe, Call, lock, senders, StopInv, Types
    <2> QED BY <2>1, <2>2, <2>3, <2>4, <2>5 DEF Inv
  <1>6. ASSUME NEW l \in Listeners, Subscribe(l) PROVE Inv'
    <2>1. Types'
      BY <1>0, <1>6 DEF Subscribe, Halve, Finish, lock, senders, Types
    <2>2. LockInv'
      <3>1. /\ wpc[<<"sub", l>>] = "body" /\ <<"sub", l>> \in Writers
            /\ writer' = writer /\ readers' = readers
            /\ \A w \in Writers \ {<<"sub", l>>} : wpc'[w] = wpc[w]
        BY <1>0, <1>6 DEF Subscribe, Halve, Finish, lock, Types
      <3> QED BY <1>0, <3>1 DEF LockInv
    <2>3. SendInv'
      BY <1>0, <1>6 DEF Subscribe, Halve, Finish, lock, senders, SendInv, Types, LockInv
    <2>4. ListenerInv'
      BY <1>0, <1>6 DEF Subscribe, Halve, Finish, lock, senders, ListenerInv, Types
    <2>5. StopInv'
      BY <1>0, <1>6 DEF Subscribe, Halve, Finish, lock, senders, StopInv, Types
    <2> QED BY <2>1, <2>2, <2>3, <2>4, <2>5 DEF Inv
  <1>7. ASSUME NEW l \in Listeners, CallUnsubscribe(l) PROVE Inv'
    <2>1. Types'
      BY <1>0, <1>7 DEF CallUnsubscribe, Call, lock, senders, Types
    <2>2. LockInv'
      BY <1>0, <1>7 DEF CallUnsubscribe, Call, lock, senders, LockInv
    <2>3. SendInv'
      BY <1>0, <1>7 DEF CallUnsubscribe, Call, lock, senders, SendInv
    <2>4. ListenerInv'
      BY <1>0, <1>7 DEF CallUnsubscribe, Call, lock, senders, ListenerInv
    <2>5. StopInv'
      BY <1>0, <1>7 DEF CallUnsubscribe, Call, lock, senders, StopInv, Types
    <2> QED BY <2>1, <2>2, <2>3, <2>4, <2>5 DEF Inv
  <1>8. ASSUME NEW l \in Listeners, Unsubscribe(l) PROVE Inv'
    <2>1. Types'
      BY <1>0, <1>8 DEF Unsubscribe, Halve, Finish, lock, senders, Types
    <2>2. LockInv'
      <3>1. /\ wpc[<<"unsub", l>>] = "body" /\ <<"unsub", l>> \in Writers
            /\ writer' = writer /\ readers' = readers
            /\ \A w \in Writers \ {<<"unsub", l>>} : wpc'[w] = wpc[w]
        BY <1>0, <1>8 DEF Unsubscribe, Halve, Finish, lock, Types
      <3> QED BY <1>0, <3>1 DEF LockInv
    <2>3. SendInv'
      BY <1>0, <1>8 DEF Unsubscribe, Halve, Finish, lock, senders, SendInv
    <2>4. ListenerInv'
      BY <1>0, <1>8 DEF Unsubscribe, Halve, Finish, lock, senders, ListenerInv, Types
    <2>5. StopInv'
      BY <1>0, <1>8 DEF Unsubscribe, Halve, Finish, lock, senders, StopInv, Types
    <2> QED BY <2>1, <2>2, <2>3, <2>4, <2>5 DEF Inv
  <1>9. ASSUME CallStop PROVE Inv'
    <2>1. Types'
      BY <1>0, <1>9 DEF CallStop, Call, lock, senders, Types
    <2>2. LockInv'
      BY <1>0, <1>9 DEF CallStop, Call, lock, senders, LockInv
    <2>3. SendInv'
      BY <1>0, <1>9 DEF CallStop, Call, lock, senders, SendInv
    <2>4. ListenerInv'
      BY <1>0, <1>9 DEF CallStop, Call, lock, senders, ListenerInv
    <2>5. StopInv'
      BY <1>0, <1>9 DEF CallStop, Call, lock, senders, StopInv, Types
    <2> QED BY <2>1, <2>2, <2>3, <2>4, <2>5 DEF Inv
  <1>10. ASSUME Stop PROVE Inv'
    <2>1. Types'
      BY <1>0, <1>10 DEF Stop, Close, Finish, lock, senders, Types
    <2>2. LockInv'
      BY <1>0, <1>10 DEF Stop, Close, Finish, lock, senders, LockInv
    <2>3. SendInv'
      BY <1>0, <1>10 DEF Stop, Close, Finish, lock, senders, SendInv, Types, LockInv
    <2>4. ListenerInv'
      BY <1>0, <1>10 DEF Stop, Close, Finish, lock, senders, ListenerInv, LockInv, Types
    <2>5. StopInv'
      BY <1>0, <1>10 DEF Stop, Close, Finish, lock, senders, StopInv, Types
    <2> QED BY <2>1, <2>2, <2>3, <2>4, <2>5 DEF Inv
  <1>11. ASSUME NEW e \in Events, Send(e) PROVE Inv'
    <2>1. Types'
      BY <1>0, <1>11 DEF Send, lock, Types
    <2>2. LockInv'
      BY <1>0, <1>11 DEF Send, lock, LockInv
    <2>3. SendInv'
      BY <1>0, <1>11 DEF Send, lock, SendInv, Types
    <2>4. ListenerInv'
      BY <1>0, <1>11 DEF Send, lock, ListenerInv
    <2>5. StopInv'
      BY <1>0, <1>11 DEF Send, lock, StopInv, Types
    <2> QED BY <2>1, <2>2, <2>3, <2>4, <2>5 DEF Inv
  <1>12. ASSUME NEW e \in Events, NEW l \in left[e], Visit(e, l) PROVE Inv'
    <2>1. Types'
      BY <1>0, <1>12 DEF Visit, lock, Types
    <2>2. LockInv'
      BY <1>0, <1>12 DEF Visit, lock, LockInv
    <2>3. SendInv'
      BY <1>0, <1>12 DEF Visit, lock, SendInv, Types
    <2>4. ListenerInv'
      BY <1>0, <1>12 DEF Visit, lock, ListenerInv
    <2>5. StopInv'
      BY <1>0, <1>12 DEF Visit, lock, StopInv, Types
    <2> QED BY <2>1, <2>2, <2>3, <2>4, <2>5 DEF Inv
  <1>13. ASSUME NEW e \in Events, Enter(e) PROVE Inv'
    <2>1. Types'
      BY <1>0, <1>13 DEF Enter, lock, Types
    <2>2. LockInv'
      BY <1>0, <1>13 DEF Enter, lock, LockInv
    <2>3. SendInv'
      BY <1>0, <1>13 DEF Enter, lock, SendInv
    <2>4. ListenerInv'
      BY <1>0, <1>13 DEF Enter, lock, ListenerInv
    <2>5. StopInv'
      BY <1>0, <1>13 DEF Enter, lock, StopInv, Types
    <2> QED BY <2>1, <2>2, <2>3, <2>4, <2>5 DEF Inv
  <1>14. ASSUME NEW e \in Events, Deliver(e) PROVE Inv'
    <2>1. Types'
      BY <1>0, <1>14 DEF Deliver, lock, Types
    <2>2. LockInv'
      BY <1>0, <1>14 DEF Deliver, lock, LockInv
    <2>3. SendInv'
      BY <1>0, <1>14 DEF Deliver, lock, SendInv, Types
    <2>4. ListenerInv'
      BY <1>0, <1>14 DEF Deliver, lock, ListenerInv
    <2>5. StopInv'
      BY <1>0, <1>14 DEF Deliver, lock, StopInv, Types
    <2> QED BY <2>1, <2>2, <2>3, <2>4, <2>5 DEF Inv
  <1>15. ASSUME NEW e \in Events, RUnlock(e) PROVE Inv'
    <2>1. Types'
      BY <1>0, <1>15 DEF RUnlock, Types
    <2>2. LockInv'
      BY <1>0, <1>15 DEF RUnlock, LockInv
    <2>3. SendInv'
      BY <1>0, <1>15 DEF RUnlock, SendInv, Types
    <2>4. ListenerInv'
      BY <1>0, <1>15 DEF RUnlock, ListenerInv
    <2>5. StopInv'
      BY <1>0, <1>15 DEF RUnlock, StopInv, Types
    <2> QED BY <2>1, <2>2, <2>3, <2>4, <2>5 DEF Inv
  <1>16. ASSUME NEW l \in Listeners, ReadClosed(l) PROVE Inv'
    <2>1. Types'
      BY <1>0, <1>16 DEF ReadClosed, lock, senders, Types
    <2>2. LockInv'
      BY <1>0, <1>16 DEF ReadClosed, lock, senders, LockInv
    <2>3. SendInv'
      BY <1>0, <1>16 DEF ReadClosed, lock, senders, SendInv
    <2>4. ListenerInv'
      BY <1>0, <1>16 DEF ReadClosed, lock, senders, ListenerInv
    <2>5. StopInv'
      BY <1>0, <1>16 DEF ReadClosed, lock, senders, StopInv, Types
    <2> QED BY <2>1, <2>2, <2>3, <2>4, <2>5 DEF Inv
  <1>17. ASSUME NEW l \in Listeners, SubscribeCounts(l) PROVE Inv'
    <2>1. Types'
      BY <1>0, <1>17 DEF SubscribeCounts, Finish, lock, senders, Types
    <2>2. LockInv'
      BY <1>0, <1>17 DEF SubscribeCounts, Finish, lock, senders, LockInv
    <2>3. SendInv'
      BY <1>0, <1>17 DEF SubscribeCounts, Finish, lock, senders, SendInv
    <2>4. ListenerInv'
      BY <1>0, <1>17 DEF SubscribeCounts, Finish, lock, senders, ListenerInv, Types
    <2>5. StopInv'
      BY <1>0, <1>17 DEF SubscribeCounts, Finish, lock, senders, StopInv, Types
    <2> QED BY <2>1, <2>2, <2>3, <2>4, <2>5 DEF Inv
  <1>18. ASSUME NEW l \in Listeners, UnsubscribeRemoves(l) PROVE Inv'
    <2>1. Types'
      BY <1>0, <1>18 DEF UnsubscribeRemoves, Close, Finish, lock, senders, Types
    <2>2. LockInv'
      BY <1>0, <1>18 DEF UnsubscribeRemoves, Close, Finish, lock, senders, LockInv
    <2>3. SendInv'
      BY <1>0, <1>18 DEF UnsubscribeRemoves, Close, Finish, lock, senders, SendInv, Types, LockInv
    <2>4. ListenerInv'
      BY <1>0, <1>18 DEF UnsubscribeRemoves, Close, Finish, lock, senders, ListenerInv, LockInv, Types
    <2>5. StopInv'
      BY <1>0, <1>18 DEF UnsubscribeRemoves, Close, Finish, lock, senders, StopInv, Types
    <2> QED BY <2>1, <2>2, <2>3, <2>4, <2>5 DEF Inv
  <1>19. ASSUME UNCHANGED vars PROVE Inv'
    <2>1. Types'
      BY <1>0, <1>19 DEF vars, Types
    <2>2. LockInv'
      BY <1>0, <1>19 DEF vars, LockInv
    <2>3. SendInv'
      BY <1>0, <1>19 DEF vars, SendInv
    <2>4. ListenerInv'
      BY <1>0, <1>19 DEF vars, ListenerInv
    <2>5. StopInv'
      BY <1>0, <1>19 DEF vars, StopInv, Types
    <2> QED BY <2>1, <2>2, <2>3, <2>4, <2>5 DEF Inv
  <1> QED
    BY <1>1, <1>2, <1>3, <1>4, <1>5, <1>6, <1>7, <1>8, <1>9, <1>10, <1>11, <1>12, <1>13, <1>14, <1>15, <1>16, <1>17, <1>18, <1>19
    DEF Next, WriterStep, ListenerStep, SenderStep

-----------------------------------------------------------------------------
(* A writer that comes to a place other than the half way keeps everybody  *)
(* subscribed who was, if it was not half way before.                      *)
LEMMA MembersStay ==
    ASSUME Types, NEW w \in Writers, NEW p, p # "half", wpc[w] # "half",
           wpc' = [wpc EXCEPT ![w] = p], listeners' = listeners
    PROVE  Members' = Members
  <1>1. \A v \in Writers : wpc'[v] = "half" <=> wpc[v] = "half"
    BY DEF Types
  <1>2. \A l \in listeners : <<"sub", l>> \in Writers /\ <<"unsub", l>> \in Writers
    BY WriterFacts DEF Types
  <1> QED BY <1>1, <1>2 DEF Members

(* Subscribe registers a listener that does not count yet. *)
LEMMA SubscribeHides ==
    ASSUME Inv, NEW l \in Listeners, Subscribe(l)
    PROVE  Members' = Members
  <1>1. <<"sub", l>> \in Writers /\ <<"unsub", l>> \in Writers /\ Types
    BY WriterFacts DEF Inv
  <1>2. CASE stopped
    BY <1>1, <1>2, MembersStay DEF Subscribe, Finish
  <1>3. CASE ~ stopped
    <2>1. l \notin listeners /\ listeners' = listeners \cup {l} /\ listeners \subseteq Listeners
      BY <1>3 DEF Subscribe, Inv, ListenerInv, Types
    <2>2. wpc'[<<"sub", l>>] = "half"
      BY <1>1, <1>3 DEF Subscribe, Halve, Types
    <2>3. \A k \in listeners : /\ wpc'[<<"sub", k>>] = wpc[<<"sub", k>>]
                               /\ wpc'[<<"unsub", k>>] = wpc[<<"unsub", k>>]
      <3> TAKE k \in listeners
      <3>1. k \in Listeners /\ k # l
        BY <2>1
      <3>2. /\ <<"sub", k>> \in Writers /\ <<"unsub", k>> \in Writers
            /\ <<"sub", k>> # <<"sub", l>> /\ <<"unsub", k>> # <<"sub", l>>
        BY <3>1, WriterFacts
      <3> QED BY <1>1, <1>3, <3>2 DEF Subscribe, Halve, Types
    <2> QED BY <2>1, <2>2, <2>3 DEF Members
  <1> QED BY <1>2, <1>3

(* It is subscribed from the moment it is counted. *)
LEMMA SubscribeCountsJoins ==
    ASSUME Inv, NEW l \in Listeners, SubscribeCounts(l)
    PROVE  l \notin Members /\ Members' = Members \cup {l}
  <1>1. <<"sub", l>> \in Writers /\ <<"unsub", l>> \in Writers
    BY WriterFacts
  <1>2. l \in listeners /\ listeners' = listeners /\ listeners \subseteq Listeners
    BY DEF SubscribeCounts, Inv, ListenerInv, Types
  <1>3. wpc[<<"sub", l>>] = "half" /\ wpc[<<"unsub", l>>] # "half"
    BY <1>1, WriterFacts DEF SubscribeCounts, Inv, LockInv
  <1>4. /\ wpc'[<<"sub", l>>] = "unlock"
        /\ \A w \in Writers \ {<<"sub", l>>} : wpc'[w] = wpc[w]
    BY <1>1 DEF SubscribeCounts, Finish, Inv, Types
  <1>5. \A k \in listeners : /\ k # l => wpc'[<<"sub", k>>] = wpc[<<"sub", k>>]
                             /\ wpc'[<<"unsub", k>>] = wpc[<<"unsub", k>>]
    <2> TAKE k \in listeners
    <2>1. /\ <<"sub", k>> \in Writers /\ <<"unsub", k>> \in Writers
          /\ k # l => <<"sub", k>> # <<"sub", l>>
          /\ <<"unsub", k>> # <<"sub", l>>
      BY <1>2, WriterFacts
    <2> QED BY <1>4, <2>1
  <1> QED BY <1>2, <1>3, <1>4, <1>5 DEF Members

(* It leaves in the moment it is counted out. *)
LEMMA UnsubscribeLeaves ==
    ASSUME Inv, NEW l \in Listeners, Unsubscribe(l)
    PROVE  IF l \in listeners THEN l \in Members /\ Members' = Members \ {l}
                              ELSE Members' = Members
  <1>1. <<"sub", l>> \in Writers /\ <<"unsub", l>> \in Writers /\ Types
    BY WriterFacts DEF Inv
  <1>2. listeners' = listeners /\ listeners \subseteq Listeners
    BY <1>1 DEF Unsubscribe, Types
  <1>3. wpc[<<"unsub", l>>] = "body" /\ wpc[<<"sub", l>>] # "half"
    BY <1>1, WriterFacts DEF Unsubscribe, Inv, LockInv
  <1>4. CASE l \notin listeners
    BY <1>1, <1>2, <1>3, <1>4, MembersStay DEF Unsubscribe, Finish
  <1>5. CASE l \in listeners
    <2>1. /\ wpc'[<<"unsub", l>>] = "half"
          /\ \A w \in Writers \ {<<"unsub", l>>} : wpc'[w] = wpc[w]
      BY <1>1, <1>5 DEF Unsubscribe, Halve, Types
    <2>2. \A k \in listeners : /\ k # l => wpc'[<<"unsub", k>>] = wpc[<<"unsub", k>>]
                               /\ wpc'[<<"sub", k>>] = wpc[<<"sub", k>>]
      <3> TAKE k \in listeners
      <3>1. /\ <<"sub", k>> \in Writers /\ <<"unsub", k>> \in Writers
            /\ k # l => <<"unsub", k>> # <<"unsub", l>>
            /\ <<"sub", k>> # <<"unsub", l>>
        BY <1>2, WriterFacts
      <3> QED BY <2>1, <3>1
    <2>3. l \in Members /\ l \notin Members'
      BY <1>3, <1>5, <2>1 DEF Members
    <2>4. \A k \in listeners : k # l => (k \in Members' <=> k \in Members)
      BY <1>2, <2>2 DEF Members
    <2>5. Members \subseteq listeners /\ Members' \subseteq listeners
      BY <1>2 DEF Members
    <2> QED BY <1>5, <2>3, <2>4, <2>5
  <1> QED BY <1>4, <1>5

(* It is removed from the map when it does not count any more. *)
LEMMA RemovalIsHidden ==
    ASSUME Inv, NEW l \in Listeners, UnsubscribeRemoves(l)
    PROVE  Members' = Members
  <1>1. <<"unsub", l>> \in Writers /\ listeners \subseteq Listeners
    BY WriterFacts DEF Inv, Types
  <1>2. listeners' = listeners \ {l} /\ wpc[<<"unsub", l>>] = "half"
    BY DEF UnsubscribeRemoves
  <1>3. \A k \in listeners' : /\ wpc'[<<"sub", k>>] = wpc[<<"sub", k>>]
                              /\ wpc'[<<"unsub", k>>] = wpc[<<"unsub", k>>]
    <2> TAKE k \in listeners'
    <2>1. k \in Listeners /\ k # l
      BY <1>1, <1>2
    <2>2. /\ <<"sub", k>> \in Writers /\ <<"unsub", k>> \in Writers
          /\ <<"sub", k>> # <<"unsub", l>> /\ <<"unsub", k>> # <<"unsub", l>>
      BY <2>1, WriterFacts
    <2> QED BY <1>1, <2>2 DEF UnsubscribeRemoves, Finish, Inv, Types
  <1> QED BY <1>2, <1>3 DEF Members

(* Every step but the counting, the counting out and Stop keeps the        *)
(* subscribed listeners, the counter and, but for CallStop, the flag.      *)
LEMMA MembersStep ==
    ASSUME Inv, [Next]_vars
    PROVE  \/ Members' = Members /\ subs' = subs /\ (stopped' = stopped \/ CallStop)
           \/ Stop
           \/ \E l \in Listeners : SubscribeCounts(l) \/ Unsubscribe(l)
  <1>0. Types /\ <<"stop">> \in Writers
    BY WriterFacts DEF Inv
  <1>1. ASSUME NEW w \in Writers, WriterStep(w)
        PROVE  Members' = Members /\ subs' = subs /\ stopped' = stopped
    <2>1. PICK p \in {"wait", "body", "exit"} : wpc' = [wpc EXCEPT ![w] = p]
      BY <1>1 DEF WriterStep, Announce, Lock, Unlock
    <2>2. /\ wpc[w] # "half" /\ listeners' = listeners /\ subs' = subs
          /\ stopped' = stopped
      BY <1>1 DEF WriterStep, Announce, Lock, Unlock
    <2>3. p # "half"
      OBVIOUS
    <2>4. Members' = Members
      BY <1>0, <2>1, <2>2, <2>3, MembersStay
    <2> QED BY <2>2, <2>4
  <1>2. ASSUME NEW l \in Listeners, CallSubscribe(l) \/ CallUnsubscribe(l)
        PROVE  Members' = Members /\ subs' = subs /\ stopped' = stopped
    <2>1. PICK w \in {<<"sub", l>>, <<"unsub", l>>} :
              wpc[w] = "new" /\ wpc' = [wpc EXCEPT ![w] = "lock"]
      BY <1>2 DEF CallSubscribe, CallUnsubscribe, Call
    <2>2. w \in Writers
      BY WriterFacts
    <2>3. listeners' = listeners /\ subs' = subs /\ stopped' = stopped
      BY <1>2 DEF CallSubscribe, CallUnsubscribe
    <2>4. Members' = Members
      BY <1>0, <2>1, <2>2, <2>3, MembersStay
    <2> QED BY <2>3, <2>4
  <1>3. ASSUME NEW l \in Listeners, Subscribe(l) \/ UnsubscribeRemoves(l)
        PROVE  Members' = Members /\ subs' = subs /\ stopped' = stopped
    <2>1. subs' = subs /\ stopped' = stopped
      BY <1>3 DEF Subscribe, UnsubscribeRemoves
    <2> QED BY <1>3, <2>1, SubscribeHides, RemovalIsHidden
  <1>4. ASSUME CallStop
        PROVE  Members' = Members /\ subs' = subs
    <2>1. listeners' = listeners /\ subs' = subs /\ ~ stopped
          /\ wpc' = [wpc EXCEPT ![<<"stop">>] = "lock"]
      BY <1>4 DEF CallStop, Call
    <2>2. wpc[<<"stop">>] # "half"
      BY <2>1 DEF Inv, StopInv
    <2> QED BY <1>0, <2>1, <2>2, MembersStay
  <1>5. ASSUME UNCHANGED <<listeners, subs, stopped, wpc>>
        PROVE  Members' = Members /\ subs' = subs /\ stopped' = stopped
    BY <1>5 DEF Members
  <1>6. ASSUME NEW l \in Listeners, ReadClosed(l)
        PROVE  UNCHANGED <<listeners, subs, stopped, wpc>>
    BY <1>6 DEF ReadClosed
  <1>7. ASSUME NEW e \in Events, SenderStep(e) \/ Send(e)
        PROVE  UNCHANGED <<listeners, subs, stopped, wpc>>
    BY <1>7 DEF SenderStep, Send, RLock, Visit, Enter, Deliver, RUnlock
  <1>8. UNCHANGED vars => UNCHANGED <<listeners, subs, stopped, wpc>>
    BY DEF vars
  <1> QED BY <1>1, <1>2, <1>3, <1>4, <1>5, <1>6, <1>7, <1>8 DEF Next, ListenerStep

(* The counter changes with the subscribed listeners, and never behind     *)
(* their back.                                                             *)
LEMMA SubsStep ==
    ASSUME Inv, subs \in Nat, SubsCountsListeners, [Next]_vars
    PROVE  subs' \in Nat /\ SubsCountsListeners'
  <1> DEFINE M == Members
  <1>1. IsFiniteSet(M) /\ Cardinality(M) \in Nat
    <2>1. M \subseteq Listeners
      BY DEF Inv, Types, Members
    <2> QED BY <2>1, FeedAssumption, FS_Subset, FS_CardinalityType
  <1>2. ASSUME NEW l \in Listeners, SubscribeCounts(l)
        PROVE  subs' \in Nat /\ SubsCountsListeners'
    <2>1. Cardinality(Members') = Cardinality(M) + 1
      BY <1>1, <1>2, SubscribeCountsJoins, FS_AddElement
    <2>2. subs' = subs + 1 /\ stopped' = stopped
      BY <1>2 DEF SubscribeCounts
    <2> QED BY <1>1, <2>1, <2>2 DEF SubsCountsListeners
  <1>3. ASSUME NEW l \in Listeners, Unsubscribe(l)
        PROVE  subs' \in Nat /\ SubsCountsListeners'
    <2>1. CASE l \in listeners
      <3>1. l \in M /\ Members' = M \ {l}
        BY <1>3, <2>1, UnsubscribeLeaves
      <3>2. Cardinality(M \ {l}) = Cardinality(M) - 1 /\ Cardinality(M \ {l}) \in Nat
        BY <1>1, <3>1, FS_RemoveElement, FS_CardinalityType
      <3>3. subs' = subs - 1 /\ stopped' = stopped
        BY <1>3, <2>1 DEF Unsubscribe
      <3> QED BY <1>1, <3>1, <3>2, <3>3 DEF SubsCountsListeners
    <2>2. CASE l \notin listeners
      <3>1. Members' = M
        BY <1>3, <2>2, UnsubscribeLeaves
      <3>2. subs' = subs /\ stopped' = stopped
        BY <1>3, <2>2 DEF Unsubscribe
      <3> QED BY <3>1, <3>2 DEF SubsCountsListeners
    <2> QED BY <2>1, <2>2
  <1>4. CASE Stop
    <2>1. Cardinality({}) = 0
      BY FS_EmptySet
    <2>2. stopped /\ stopped' = stopped /\ subs' = subs
      BY <1>4 DEF Stop, Inv, StopInv
    <2>3. Members' = {}
      BY <1>4 DEF Stop, Members
    <2> QED BY <2>1, <2>2, <2>3 DEF SubsCountsListeners
  <1>5. ASSUME Members' = Members, subs' = subs, stopped' = stopped \/ CallStop
        PROVE  subs' \in Nat /\ SubsCountsListeners'
    <2>1. CASE stopped' = stopped
      BY <1>5, <2>1 DEF SubsCountsListeners
    <2>2. CASE CallStop
      BY <1>1, <1>5, <2>2 DEF CallStop, SubsCountsListeners
    <2> QED BY <1>5, <2>1, <2>2
  <1> QED BY <1>2, <1>3, <1>4, <1>5, MembersStep

(* At first nobody listens and nobody is counted. *)
LEMMA SubsInit == Init => subs \in Nat /\ SubsCountsListeners
  <1>1. Cardinality({}) = 0
    BY FS_EmptySet
  <1>2. Init => Members = {}
    BY DEF Init, Members
  <1> QED BY <1>1, <1>2 DEF Init, SubsCountsListeners

-----------------------------------------------------------------------------
(* The histories have their types. *)
HistoryTypes == due \in [Events -> SUBSET Listeners] /\ got \in [Events -> SUBSET Listeners]

(* A channel is done exactly when it is closed, so that no registered one  *)
(* is skipped.  A listener that an event is due to is still to be visited, *)
(* being sent to, or has it; the three are exclusive.                      *)
ServedInv ==
    /\ done = closed
    /\ \A e \in Events :
          /\ spc[e] \in {"new", "rlock", "blocked"} => left[e] = {} /\ got[e] = {}
          /\ spc[e] \in {"loop", "enter", "sending"} =>
                due[e] \cap listeners \subseteq got[e] \cup left[e] \cup target[e]
          /\ spc[e] \in {"enter", "sending"} => \E l \in Listeners : target[e] = {l}
          /\ got[e] \cap left[e] = {} /\ got[e] \cap target[e] = {}
          /\ left[e] \cap target[e] = {}

FeedInv ==
    Inv /\ subs \in Nat /\ SubsCountsListeners /\ HistoryTypes /\ ServedInv

(* A step of one event e keeps what is said of the others. *)
LEMMA SenderKeeps ==
    ASSUME ServedInv, NEW e \in Events,
           UNCHANGED <<done, closed, listeners>>,
           \A f \in Events \ {e} : /\ spc'[f] = spc[f] /\ left'[f] = left[f]
                                   /\ target'[f] = target[f]
                                   /\ due'[f] = due[f] /\ got'[f] = got[f],
           /\ spc'[e] \in {"new", "rlock", "blocked"} => left'[e] = {} /\ got'[e] = {}
           /\ spc'[e] \in {"loop", "enter", "sending"} =>
                 due'[e] \cap listeners \subseteq got'[e] \cup left'[e] \cup target'[e]
           /\ spc'[e] \in {"enter", "sending"} => \E l \in Listeners : target'[e] = {l}
           /\ got'[e] \cap left'[e] = {} /\ got'[e] \cap target'[e] = {}
           /\ left'[e] \cap target'[e] = {}
    PROVE  ServedInv'
  BY ZenonT(60) DEF ServedInv

(* While a writer is in its critical section no event is being handed out, *)
(* so that the listeners may change.                                       *)
LEMMA WriterKeeps ==
    ASSUME Inv, ServedInv, NEW w \in Writers, wpc[w] \in {"body", "half"}, done' = closed',
           UNCHANGED senders
    PROVE  ServedInv'
  <1>1. \A e \in Events : spc[e] \notin {"loop", "enter", "sending"}
    BY DEF Inv, LockInv, SendInv
  <1> QED BY <1>1 DEF senders, history, ServedInv

(* Every step of the feed keeps what is said of the histories. *)
LEMMA ServedStep ==
    ASSUME Inv, HistoryTypes, ServedInv, [Next]_vars
    PROVE  HistoryTypes' /\ ServedInv'
  <1> USE WriterFacts
  <1>0. Types /\ SendInv
    BY DEF Inv
  <1>1. CASE UNCHANGED <<listeners, done, closed, senders>>
    BY <1>1 DEF senders, history, HistoryTypes, ServedInv
  <1>2. ASSUME NEW l \in Listeners, Subscribe(l) PROVE HistoryTypes' /\ ServedInv'
    <2>1. done' = closed' /\ UNCHANGED senders /\ wpc[<<"sub", l>>] = "body"
      BY <1>2 DEF Subscribe, ServedInv
    <2> QED BY <2>1, WriterKeeps DEF senders, history, HistoryTypes
  <1>3. ASSUME NEW l \in Listeners, UnsubscribeRemoves(l) PROVE HistoryTypes' /\ ServedInv'
    <2>1. done' = closed' /\ UNCHANGED senders /\ wpc[<<"unsub", l>>] = "half"
      BY <1>3 DEF UnsubscribeRemoves, Close, ServedInv
    <2> QED BY <2>1, WriterKeeps DEF senders, history, HistoryTypes
  <1>4. CASE Stop
    <2>1. done' = closed' /\ UNCHANGED senders /\ wpc[<<"stop">>] = "body"
      BY <1>4 DEF Stop, Close, ServedInv
    <2> QED BY <2>1, WriterKeeps DEF senders, history, HistoryTypes
  <1>5. ASSUME NEW w \in Writers, Unlock(w) PROVE HistoryTypes' /\ ServedInv'
    <2>1. /\ done' = done /\ closed' = closed /\ listeners' = listeners
          /\ target' = target /\ due' = due /\ got' = got
      BY <1>5 DEF Unlock, history
    <2>2. \A e \in Events :
             IF spc[e] = "blocked" THEN spc'[e] = "loop" /\ left'[e] = listeners
             ELSE spc'[e] = spc[e] /\ left'[e] = left[e]
      BY <1>5 DEF Unlock
    <2>3. ASSUME NEW e \in Events, spc[e] = "blocked"
          PROVE  target[e] = {} /\ got[e] = {}
      BY <1>0, <2>3 DEF SendInv, ServedInv
    <2> QED BY <2>1, <2>2, <2>3, <1>0 DEF HistoryTypes, ServedInv, Types
  <1>6. ASSUME NEW e \in Events, RLock(e) PROVE HistoryTypes' /\ ServedInv'
    <2>1. /\ UNCHANGED <<done, closed, listeners>>
          /\ target' = target /\ due' = due /\ got' = got
      BY <1>6 DEF RLock, history
    <2>2. \A f \in Events \ {e} : spc'[f] = spc[f] /\ left'[f] = left[f]
      BY <1>0, <1>6 DEF RLock, Types
    <2>3. \/ spc'[e] = "loop" /\ left'[e] = listeners
          \/ spc'[e] = "blocked" /\ left'[e] = left[e]
      BY <1>0, <1>6 DEF RLock, Types
    <2>4. target[e] = {} /\ got[e] = {} /\ left[e] = {}
      BY <1>0, <1>6 DEF RLock, SendInv, ServedInv
    <2>5. ServedInv'
      BY <2>1, <2>2, <2>3, <2>4, SenderKeeps
    <2> QED BY <2>1, <2>5 DEF HistoryTypes
  <1>7. ASSUME NEW e \in Events, Send(e) PROVE HistoryTypes' /\ ServedInv'
    <2>1. /\ UNCHANGED <<done, closed, listeners>>
          /\ target' = target /\ left' = left /\ got' = got
      BY <1>7 DEF Send
    <2>0. Members \in SUBSET Listeners
      BY <1>0 DEF Members, Types
    <2>2. /\ \A f \in Events \ {e} : spc'[f] = spc[f] /\ due'[f] = due[f]
          /\ spc'[e] \in {"exit", "rlock"} /\ due' \in [Events -> SUBSET Listeners]
      BY <1>0, <1>7, <2>0 DEF Send, Types, HistoryTypes
    <2>3. target[e] = {} /\ got[e] = {} /\ left[e] = {}
      BY <1>0, <1>7 DEF Send, SendInv, ServedInv
    <2>4. ServedInv'
      BY <2>1, <2>2, <2>3, SenderKeeps
    <2> QED BY <2>1, <2>2, <2>4 DEF HistoryTypes
  <1>8. ASSUME NEW e \in Events, NEW l \in left[e], Visit(e, l)
        PROVE  HistoryTypes' /\ ServedInv'
    <2>1. /\ UNCHANGED <<done, closed, listeners>> /\ due' = due /\ got' = got
          /\ spc[e] = "loop"
      BY <1>8 DEF Visit, history
    <2>2. l \in listeners /\ l \in Listeners /\ l \notin done /\ target[e] = {}
      BY <1>0, <2>1 DEF Inv, Types, SendInv, ListenerInv, ServedInv
    <2>3. /\ \A f \in Events \ {e} : /\ spc'[f] = spc[f] /\ left'[f] = left[f]
                                     /\ target'[f] = target[f]
          /\ spc'[e] = "enter" /\ left'[e] = left[e] \ {l} /\ target'[e] = {l}
      BY <1>0, <1>8, <2>2 DEF Visit, Types
    <2>4. /\ due[e] \cap listeners \subseteq got[e] \cup left[e]
          /\ got[e] \cap left[e] = {}
      BY <2>1, <2>2 DEF ServedInv
    <2>5. ServedInv'
      BY <2>1, <2>2, <2>3, <2>4, SenderKeeps
    <2> QED BY <2>1, <2>5 DEF HistoryTypes
  <1>9. ASSUME NEW e \in Events, Enter(e) PROVE HistoryTypes' /\ ServedInv'
    <2>1. /\ UNCHANGED <<done, closed, listeners>> /\ due' = due /\ got' = got
          /\ left' = left /\ target' = target /\ spc[e] = "enter"
      BY <1>9 DEF Enter, history
    <2>2. /\ \A f \in Events \ {e} : spc'[f] = spc[f]
          /\ spc'[e] = "sending"
      BY <1>0, <1>9 DEF Enter, Types
    <2>3. /\ due[e] \cap listeners \subseteq got[e] \cup left[e] \cup target[e]
          /\ \E l \in Listeners : target[e] = {l}
          /\ got[e] \cap left[e] = {} /\ got[e] \cap target[e] = {}
          /\ left[e] \cap target[e] = {}
      BY <2>1 DEF ServedInv
    <2>4. ServedInv'
      BY <2>1, <2>2, <2>3, SenderKeeps
    <2> QED BY <2>1, <2>4 DEF HistoryTypes
  <1>10. ASSUME NEW e \in Events, Deliver(e) PROVE HistoryTypes' /\ ServedInv'
    <2>1. /\ UNCHANGED <<done, closed, listeners>> /\ due' = due
          /\ left' = left /\ spc[e] = "sending"
      BY <1>10 DEF Deliver
    <2>2. /\ \A f \in Events \ {e} : /\ spc'[f] = spc[f] /\ target'[f] = target[f]
                                     /\ got'[f] = got[f]
          /\ spc'[e] = "loop" /\ target'[e] = {} /\ got'[e] = got[e] \cup target[e]
          /\ got' \in [Events -> SUBSET Listeners]
      BY <1>0, <1>10 DEF Deliver, Types, HistoryTypes
    <2>3. /\ due[e] \cap listeners \subseteq got[e] \cup left[e] \cup target[e]
          /\ got[e] \cap left[e] = {} /\ left[e] \cap target[e] = {}
      BY <2>1 DEF ServedInv
    <2>4. ServedInv'
      BY <2>1, <2>2, <2>3, SenderKeeps
    <2> QED BY <2>1, <2>2, <2>4 DEF HistoryTypes
  <1>11. ASSUME NEW e \in Events, RUnlock(e) PROVE HistoryTypes' /\ ServedInv'
    <2>1. /\ UNCHANGED <<done, closed, listeners>> /\ due' = due /\ got' = got
          /\ left' = left /\ target' = target /\ left[e] = {} /\ spc[e] = "loop"
      BY <1>11 DEF RUnlock, history
    <2>2. /\ \A f \in Events \ {e} : spc'[f] = spc[f]
          /\ spc'[e] = "exit"
      BY <1>0, <1>11 DEF RUnlock, Types
    <2>3. target[e] = {}
      BY <1>0, <2>1 DEF SendInv
    <2>4. ServedInv'
      BY <2>1, <2>2, <2>3, SenderKeeps
    <2> QED BY <2>1, <2>4 DEF HistoryTypes
  <1>12. ASSUME NEW w \in Writers, Announce(w) \/ Lock(w)
         PROVE  UNCHANGED <<listeners, done, closed, senders>>
    BY <1>12 DEF Announce, Lock
  <1>13. ASSUME NEW l \in Listeners,
                \/ CallSubscribe(l) \/ CallUnsubscribe(l) \/ ReadClosed(l)
                \/ SubscribeCounts(l) \/ Unsubscribe(l)
         PROVE  UNCHANGED <<listeners, done, closed, senders>>
    BY <1>13 DEF CallSubscribe, CallUnsubscribe, ReadClosed, SubscribeCounts, Unsubscribe
  <1>14. CallStop => UNCHANGED <<listeners, done, closed, senders>>
    BY DEF CallStop
  <1>15. UNCHANGED vars => UNCHANGED <<listeners, done, closed, senders>>
    BY DEF vars, senders
  <1> QED BY <1>1, <1>2, <1>3, <1>4, <1>5, <1>6, <1>7, <1>8, <1>9, <1>10, <1>11,
             <1>12, <1>13, <1>14, <1>15
          DEF Next, WriterStep, ListenerStep, SenderStep

(* Everything above, along a behaviour. *)
LEMMA Invariance == Spec => []FeedInv
  <1>1. Init => FeedInv
    <2>1. Init => HistoryTypes /\ ServedInv
      BY DEF Init, HistoryTypes, ServedInv
    <2> QED BY <2>1, InitInv, SubsInit DEF FeedInv
  <1>2. FeedInv /\ [Next]_vars => FeedInv'
    BY InvStep, SubsStep, ServedStep DEF FeedInv
  <1> QED BY <1>1, <1>2, PTL DEF Spec

-----------------------------------------------------------------------------
(* The feed's state keeps its types; the counter is never negative. *)
THEOREM TypeCorrect == Spec => []TypeOK
  <1>1. FeedInv => TypeOK
    BY DEF FeedInv, Inv, Types, HistoryTypes, TypeOK
  <1> QED BY <1>1, Invariance, PTL

(* Whatever unsubscribes, stops and sends at the same time, no goroutine   *)
(* of send ever reaches a channel that Close has closed.                   *)
THEOREM NeverSendOnClosed == Spec => []NoSendOnClosed
  <1>1. FeedInv => NoSendOnClosed
    BY DEF FeedInv, Inv, SendInv, ListenerInv, NoSendOnClosed
  <1> QED BY <1>1, Invariance, PTL

(* Send drops an event only when nobody is subscribed: the counter it      *)
(* reads without the lock is never below the number of those who are, also *)
(* in the middle of Subscribe and Unsubscribe.                             *)
THEOREM SubsNeverHideListeners == Spec => []SubsCountsListeners
  <1>1. FeedInv => SubsCountsListeners
    BY DEF FeedInv
  <1> QED BY <1>1, Invariance, PTL

-----------------------------------------------------------------------------
(* The feed implements Broadcast. *)
Stage(s) == CASE s = "new" -> "new" [] s = "exit" -> "over" [] OTHER -> "open"
Stages == [e \in Events |-> Stage(spc[e])]

(* A step of the feed that moves no event from stage to stage. *)
LEMMA SameStages ==
    ASSUME \A e \in Events : Stage(spc'[e]) = Stage(spc[e])
    PROVE  Stages' = Stages
  BY DEF Stages

(* A step that moves one event to another stage. *)
LEMMA OneStage ==
    ASSUME FeedInv, NEW e \in Events, NEW p, spc' = [spc EXCEPT ![e] = p]
    PROVE  Stages' = [Stages EXCEPT ![e] = Stage(p)]
  <1>1. spc'[e] = p /\ \A f \in Events \ {e} : spc'[f] = spc[f]
    BY DEF FeedInv, Inv, Types
  <1> DEFINE T == [f \in Events |-> IF f = e THEN Stage(p) ELSE Stage(spc[f])]
  <1>2. Stages' = T
    BY <1>1 DEF Stages
  <1>3. [Stages EXCEPT ![e] = Stage(p)] = T
    BY DEF Stages
  <1> QED BY <1>2, <1>3

(* The stages by the name of the step they are at. *)
LEMMA StageFacts ==
    /\ Stage("new") = "new" /\ Stage("exit") = "over"
    /\ \A s \in {"rlock", "blocked", "loop", "enter", "sending"} : Stage(s) = "open"
  BY DEF Stage

(* A step the users of the feed do not see. *)
LEMMA FeedStutters ==
    ASSUME Members' = Members, UNCHANGED <<due, got>>, Stages' = Stages
    PROVE  UNCHANGED FeedPromise!vars
  BY Zenon DEF FeedPromise!vars, Stages, Stage

(* The steps of the senders change neither the map nor the writers. *)
LEMMA SameMembers ==
    ASSUME UNCHANGED <<listeners, wpc>>
    PROVE  Members' = Members
  BY DEF Members

(* Send drops an event or starts its goroutine.  It drops it only if       *)
(* nobody is subscribed, for all that it looks at a counter.               *)
LEMMA SendIsPublish ==
    ASSUME FeedInv, NEW e \in Events, Send(e)
    PROVE  FeedPromise!Drop(e) \/ FeedPromise!Publish(e)
  <1>0. Members' = Members
    BY SameMembers DEF Send
  <1>1. spc[e] = "new" /\ Stages[e] = "new"
    BY StageFacts DEF Send, Stages
  <1>2. CASE subs = 0
    <2>1. Members = {}
      <3>0. Members \subseteq Listeners
        BY DEF FeedInv, Inv, Types, Members
      <3>1. IsFiniteSet(Members)
        BY <3>0, FeedAssumption, FS_Subset
      <3>2. Cardinality(Members) \in Nat /\ Cardinality(Members) <= 0
        BY <1>2, <3>1, FS_CardinalityType DEF FeedInv, SubsCountsListeners
      <3>3. Cardinality(Members) = 0
        BY <3>2
      <3> QED BY <3>1, <3>3, FS_EmptySet
    <2>2. Stages' = [Stages EXCEPT ![e] = "over"]
      BY <1>1, <1>2, OneStage, StageFacts DEF Send
    <2>3. UNCHANGED <<due, got>>
      BY <1>2 DEF Send
    <2> QED BY <1>0, <1>1, <2>1, <2>2, <2>3, Zenon DEF FeedPromise!Drop, Stages, Stage
  <1>3. CASE subs # 0
    <2>1. Stages' = [Stages EXCEPT ![e] = "open"]
      BY <1>1, <1>3, OneStage, StageFacts DEF Send
    <2>2. due' = [due EXCEPT ![e] = Members] /\ got' = got
      BY <1>3 DEF Send
    <2> QED BY <1>0, <1>1, <2>1, <2>2, Zenon DEF FeedPromise!Publish, Stages, Stage
  <1> QED BY <1>2, <1>3

(* A rendezvous hands the event to a subscribed listener that has it not. *)
LEMMA DeliverIsHand ==
    ASSUME FeedInv, NEW e \in Events, Deliver(e)
    PROVE  \E l \in Listeners : FeedPromise!Hand(e, l)
  <1>0. Members' = Members
    BY SameMembers DEF Deliver
  <1>1. /\ spc[e] = "sending" /\ spc'[e] = "loop" /\ due' = due
        /\ \A f \in Events \ {e} : spc'[f] = spc[f]
    BY DEF FeedInv, Inv, Types, Deliver
  <1>2. PICK l \in Listeners : target[e] = {l}
    BY <1>1 DEF FeedInv, ServedInv
  <1>3. l \in Members \ got[e]
    <2>1. l \in listeners \ got[e] /\ readers # {}
      BY <1>1, <1>2 DEF FeedInv, Inv, SendInv, ServedInv
    <2>2. wpc[<<"sub", l>>] # "half" /\ wpc[<<"unsub", l>>] # "half"
      BY <2>1, WriterFacts DEF FeedInv, Inv, LockInv
    <2> QED BY <2>1, <2>2 DEF Members
  <1>4. got' = [got EXCEPT ![e] = @ \cup {l}]
    BY <1>2 DEF Deliver
  <1>5. Stages[e] = "open"
    BY <1>1, StageFacts DEF Stages
  <1>6. Stages' = Stages
    <2>1. \A f \in Events : Stage(spc'[f]) = Stage(spc[f])
      BY <1>1, StageFacts
    <2> QED BY <2>1, SameStages
  <1>7. FeedPromise!Hand(e, l)
    BY <1>0, <1>1, <1>3, <1>4, <1>5, <1>6, Zenon DEF FeedPromise!Hand, Stages, Stage
  <1> QED BY <1>7

(* The goroutine of send ends: everybody it was due to and who stayed has  *)
(* the event.                                                              *)
LEMMA RUnlockIsClose ==
    ASSUME FeedInv, NEW e \in Events, RUnlock(e)
    PROVE  FeedPromise!Close(e)
  <1>1. /\ spc[e] = "loop" /\ left[e] = {}
        /\ spc' = [spc EXCEPT ![e] = "exit"] /\ UNCHANGED <<due, got>>
    BY DEF RUnlock, history
  <1>2. target[e] = {}
    BY <1>1 DEF FeedInv, Inv, SendInv
  <1>3. due[e] \cap Members \subseteq got[e] /\ Members' = Members
    BY <1>1, <1>2, SameMembers DEF FeedInv, ServedInv, Members, RUnlock
  <1>4. Stages[e] = "open"
    <2>1. Stage("loop") = "open"
      BY StageFacts
    <2> QED BY <1>1, <2>1 DEF Stages
  <1>5. Stages' = [Stages EXCEPT ![e] = "over"]
    <2>1. Stages' = [Stages EXCEPT ![e] = Stage("exit")]
      BY <1>1, OneStage
    <2> QED BY <2>1, StageFacts
  <1> QED BY <1>1, <1>3, <1>4, <1>5, Zenon DEF FeedPromise!Close, Stages, Stage

(* The other steps of a sender change no stage. *)
LEMMA SenderStutters ==
    ASSUME FeedInv, NEW e \in Events,
           RLock(e) \/ Enter(e) \/ \E l \in left[e] : Visit(e, l)
    PROVE  UNCHANGED FeedPromise!vars
  <1>1. Members' = Members /\ UNCHANGED <<due, got>>
    BY SameMembers DEF RLock, Enter, Visit, history
  <1>2. /\ \A f \in Events \ {e} : spc'[f] = spc[f]
        /\ spc[e] \in {"rlock", "loop", "enter"}
        /\ spc'[e] \in {"blocked", "loop", "enter", "sending"}
    BY DEF FeedInv, Inv, Types, RLock, Enter, Visit
  <1>3. \A f \in Events : Stage(spc'[f]) = Stage(spc[f])
    BY <1>2, StageFacts
  <1> QED BY <1>1, <1>3, SameStages, FeedStutters

(* Unlocking lets blocked senders into their loops; nothing to be seen. *)
LEMMA UnlockStutters ==
    ASSUME FeedInv, NEW w \in Writers, Unlock(w), Members' = Members
    PROVE  UNCHANGED FeedPromise!vars
  <1>1. UNCHANGED <<due, got>>
    BY DEF Unlock, history
  <1>2. \A f \in Events : spc'[f] = IF spc[f] = "blocked" THEN "loop" ELSE spc[f]
    BY DEF Unlock
  <1>3. \A f \in Events : Stage(spc'[f]) = Stage(spc[f])
    BY <1>2, StageFacts
  <1> QED BY <1>1, <1>3, SameStages, FeedStutters

(* With any listeners and events, and Unsubscribe and Stop at any moment,  *)
(* the feed keeps the promise of Broadcast: nobody who stays subscribed    *)
(* misses an event, nobody gets one twice or after leaving.                *)
THEOREM FeedPromiseIsKept == Spec => KeepsFeedPromise
  <1>1. Init => FeedPromise!Init
    <2> SUFFICES ASSUME Init PROVE FeedPromise!Init
      OBVIOUS
    <2>1. Stages = [e \in Events |-> "new"]
      BY StageFacts DEF Init, Stages
    <2>2. /\ Members = {} /\ due = [e \in Events |-> {}]
          /\ got = [e \in Events |-> {}]
      BY DEF Init, Members
    <2> QED BY <2>1, <2>2, Zenon DEF FeedPromise!Init, Stages, Stage
  <1>2. FeedInv /\ [Next]_vars => [FeedPromise!Next]_(FeedPromise!vars)
    <2> SUFFICES ASSUME FeedInv, [Next]_vars
                 PROVE  FeedPromise!Next \/ UNCHANGED FeedPromise!vars
      OBVIOUS
    <2>0. Inv
      BY DEF FeedInv
    <2>1. ASSUME UNCHANGED senders PROVE Stages' = Stages /\ UNCHANGED <<due, got>>
      BY <2>1 DEF senders, history, Stages
    <2>2. ASSUME Members' = Members, UNCHANGED senders PROVE UNCHANGED FeedPromise!vars
      BY <2>1, <2>2, FeedStutters
    <2>3. ASSUME NEW S \in SUBSET Listeners, S \subseteq Members,
                 Members' = Members \ S, UNCHANGED senders
          PROVE  FeedPromise!Next
      <3>1. FeedPromise!Leave(S)
        BY <2>1, <2>3, Zenon DEF FeedPromise!Leave, Stages, Stage
      <3> QED BY <3>1 DEF FeedPromise!Next
    <2>4. ASSUME NEW l \in Listeners, SubscribeCounts(l)
          PROVE  FeedPromise!Next
      <3>1. UNCHANGED senders
        BY <2>4 DEF SubscribeCounts
      <3>2. l \notin Members /\ Members' = Members \cup {l}
        BY <2>0, <2>4, SubscribeCountsJoins
      <3>3. FeedPromise!Join(l)
        BY <2>1, <3>1, <3>2, Zenon DEF FeedPromise!Join, Stages, Stage
      <3> QED BY <3>3 DEF FeedPromise!Next
    <2>5. ASSUME NEW l \in Listeners, Unsubscribe(l)
          PROVE  FeedPromise!Next \/ UNCHANGED FeedPromise!vars
      <3>1. UNCHANGED senders
        BY <2>5 DEF Unsubscribe
      <3>2. CASE l \in listeners
        <4>1. /\ {l} \in SUBSET Listeners /\ {l} \subseteq Members
              /\ Members' = Members \ {l}
          BY <2>0, <2>5, <3>2, UnsubscribeLeaves
        <4> QED BY <2>3, <3>1, <4>1
      <3>3. CASE l \notin listeners
        <4>1. Members' = Members
          BY <2>0, <2>5, <3>3, UnsubscribeLeaves
        <4> QED BY <2>2, <3>1, <4>1
      <3> QED BY <3>2, <3>3
    <2>6. CASE Stop
      <3>1. UNCHANGED senders /\ Members' = Members \ Members
        BY <2>6 DEF Stop, Members
      <3>2. Members \in SUBSET Listeners
        BY <2>0 DEF Inv, Types, Members
      <3> QED BY <2>3, <3>1, <3>2
    <2>7. ASSUME NEW e \in Events, Send(e) \/ Deliver(e) \/ RUnlock(e)
          PROVE  FeedPromise!Next
      BY <2>7, SendIsPublish, DeliverIsHand, RUnlockIsClose DEF FeedPromise!Next
    <2>8. ASSUME NEW e \in Events, RLock(e) \/ Enter(e) \/ \E l \in left[e] : Visit(e, l)
          PROVE  UNCHANGED FeedPromise!vars
      BY <2>8, SenderStutters
    <2>9. CASE Members' = Members
      <3>1. ASSUME NEW w \in Writers, WriterStep(w) PROVE UNCHANGED FeedPromise!vars
        <4>1. ASSUME Announce(w) \/ Lock(w) PROVE UNCHANGED senders
          BY <4>1 DEF Announce, Lock
        <4> QED BY <2>2, <2>9, <3>1, <4>1, UnlockStutters DEF WriterStep
      <3>2. ASSUME NEW l \in Listeners,
                   \/ CallSubscribe(l) \/ CallUnsubscribe(l) \/ ReadClosed(l)
                   \/ Subscribe(l) \/ UnsubscribeRemoves(l)
            PROVE  UNCHANGED senders
        BY <3>2 DEF CallSubscribe, CallUnsubscribe, ReadClosed, Subscribe, UnsubscribeRemoves
      <3>3. CallStop => UNCHANGED senders
        BY DEF CallStop
      <3>4. UNCHANGED vars => UNCHANGED senders
        BY DEF vars, senders
      <3> QED BY <2>2, <2>4, <2>5, <2>6, <2>7, <2>8, <2>9, <3>1, <3>2, <3>3, <3>4
              DEF Next, ListenerStep, SenderStep
    <2> QED BY <2>0, <2>4, <2>5, <2>6, <2>9, MembersStep
  <1> QED BY Invariance, <1>1, <1>2, PTL DEF Spec, KeepsFeedPromise, FeedPromise!Spec

-----------------------------------------------------------------------------
(* The pool. *)

(* The list from next on: its workers were added, are different, and were  *)
(* not spawned or popped.  Only start moves next, while it holds the       *)
(* mutex.                                                                  *)
PendingInv ==
    /\ startPc # "spawning" => next = 1
    /\ \A i \in next..Len(workers) :
          workers[i] \in added /\ workers[i] \notin hand /\ runs[workers[i]] = 0
    /\ \A i, k \in next..Len(workers) : workers[i] = workers[k] => i = k

(* The monitor has one worker in its hand, between popWorker and           *)
(* spawnWorker, which was added and not spawned.                           *)
HandInv ==
    /\ \A j \in hand : j \in added /\ runs[j] = 0
    /\ hand # {} => \E j \in Jobs : hand = {j}
    /\ mpc \notin {"spawn", "tickSpawn"} => hand = {}

(* A worker is spawned at most once, only after it was added, and one that *)
(* was added and not spawned is in the hand or in the list.                *)
RunsInv ==
    /\ \A j \in Jobs : runs[j] \in {0, 1} /\ (j \notin added => runs[j] = 0)
    /\ \A j \in running : runs[j] = 1
    /\ \A j \in added : runs[j] = 0 =>
          j \in hand \/ \E i \in next..Len(workers) : workers[i] = j

(* The counter is exact, and the goroutines it counts are finitely many. *)
CountInv == IsFiniteSet(running) /\ ActiveIsExact

(* The number the monitor loaded is still an upper bound when it spawns:   *)
(* a start that is not late spawns nobody, and workers that return only    *)
(* lower the counter.  Before start runs it is not late.                   *)
TargetInv ==
    /\ startPc = "idle" => ~ late
    /\ ~ late => /\ active <= Target
                 /\ mpc \in {"pending", "pop", "spawn", "tickPop", "tickSpawn"} =>
                       active <= mactive
                 /\ mpc \in {"pop", "spawn", "tickPop", "tickSpawn"} => mactive < Target
                 /\ startPc = "spawning" => workers = << >>

ListInv == PoolTypeOK /\ PendingInv /\ HandInv /\ RunsInv /\ CountInv

PoolInv == ListInv /\ TargetInv

-----------------------------------------------------------------------------
(* The list without its head, as popWorker leaves it. *)
LEMMA TailFacts ==
    ASSUME NEW S, NEW s \in Seq(S), s # << >>
    PROVE  /\ Tail(s) \in Seq(S) /\ Len(s) \in Nat \ {0}
           /\ Len(Tail(s)) = Len(s) - 1
           /\ Head(s) = s[1] /\ Head(s) \in S
           /\ \A i \in 1..(Len(s) - 1) : Tail(s)[i] = s[i + 1]
  OBVIOUS

(* The list with one more worker, as addWorker leaves it. *)
LEMMA AppendFacts ==
    ASSUME NEW S, NEW s \in Seq(S), NEW x \in S
    PROVE  /\ Append(s, x) \in Seq(S) /\ Len(s) \in Nat
           /\ Len(Append(s, x)) = Len(s) + 1
           /\ Append(s, x)[Len(s) + 1] = x
           /\ \A i \in 1..Len(s) : Append(s, x)[i] = s[i]
  OBVIOUS

(* A worker that was not running is counted once when it is spawned. *)
LEMMA SpawnCounts ==
    ASSUME CountInv, NEW j, j \notin running, SpawnWorker(j), empties' = empties,
           empties \in Nat
    PROVE  CountInv' /\ active' = active + 1
  <1>1. /\ IsFiniteSet(running \cup {j})
        /\ Cardinality(running \cup {j}) = Cardinality(running) + 1
    BY FS_AddElement DEF CountInv
  <1>2. Cardinality(running) \in Nat
    BY FS_CardinalityType DEF CountInv
  <1> QED BY <1>1, <1>2 DEF CountInv, ActiveIsExact, SpawnWorker

(* A worker that returns is counted out; the counter was above zero. *)
LEMMA ReturnCounts ==
    ASSUME CountInv, NEW j \in running, running' = running \ {j},
           active' = active - 1, empties' = empties, empties \in Nat
    PROVE  CountInv' /\ active' \in Nat
  <1>1. /\ IsFiniteSet(running \ {j})
        /\ Cardinality(running \ {j}) = Cardinality(running) - 1
    BY FS_RemoveElement DEF CountInv
  <1>2. Cardinality(running) \in Nat /\ Cardinality(running \ {j}) \in Nat
    BY <1>1, FS_CardinalityType DEF CountInv
  <1> QED BY <1>1, <1>2 DEF CountInv, ActiveIsExact

(* An empty worker that is spawned or returns is counted like any other. *)
LEMMA EmptyCounts ==
    ASSUME CountInv, running' = running, empties \in Nat, empties' \in Nat,
           active \in Nat, active' = active + (empties' - empties)
    PROVE  CountInv' /\ active' \in Nat
  <1>1. Cardinality(running) \in Nat
    BY FS_CardinalityType DEF CountInv
  <1> QED BY <1>1 DEF CountInv, ActiveIsExact

(* The first pending worker: it was added, is of Jobs and is not running. *)
LEMMA FirstPending ==
    ASSUME PoolTypeOK, PendingInv, RunsInv, next <= Len(workers)
    PROVE  /\ workers[next] \in Jobs /\ workers[next] \in added
           /\ runs[workers[next]] = 0 /\ workers[next] \notin running
           /\ workers[next] \notin hand
  <1>1. Len(workers) \in Nat /\ next \in next..Len(workers) /\ next \in 1..Len(workers)
    BY DEF PoolTypeOK
  <1>2. workers[next] \in Jobs
    BY <1>1 DEF PoolTypeOK
  <1> QED BY <1>1, <1>2 DEF PendingInv, RunsInv

(* With the mutex free, the first pending worker is the head of the list. *)
LEMMA HeadIsFirst ==
    ASSUME PoolTypeOK, PendingInv, Unlocked, workers # << >>
    PROVE  next = 1 /\ next <= Len(workers) /\ Head(workers) = workers[next]
  <1>1. next = 1
    BY DEF PendingInv, Unlocked
  <1>2. workers \in Seq(Jobs)
    BY DEF PoolTypeOK
  <1> QED BY <1>1, <1>2, TailFacts

-----------------------------------------------------------------------------
(* The part of the type invariant that spawning and popping touch. *)
SpawnTypes ==
    /\ workers \in Seq(Jobs) /\ next \in 1..Len(workers) + 1
    /\ runs \in [Jobs -> Nat] /\ running \subseteq Jobs
    /\ active \in Nat /\ empties \in Nat /\ hand \subseteq Jobs

(* start spawns the worker at next: the pending ones are those behind it. *)
LEMMA StartSpawnsStep ==
    ASSUME ListInv, StartSpawns
    PROVE  SpawnTypes' /\ PendingInv' /\ HandInv' /\ RunsInv' /\ CountInv'
  <1> DEFINE w == workers[next]
  <1>0. PoolTypeOK /\ PendingInv /\ HandInv /\ RunsInv /\ CountInv
    BY DEF ListInv
  <1>1. w \in Jobs /\ w \in added /\ runs[w] = 0 /\ w \notin running /\ w \notin hand
    BY <1>0, FirstPending DEF StartSpawns
  <1>2. /\ next \in 1..Len(workers) /\ Len(workers) \in Nat /\ workers' = workers
        /\ next' = next + 1 /\ added' = added /\ empties' = empties
        /\ startPc' = "spawning" /\ startPc = "spawning" /\ hand' = hand /\ mpc' = mpc
    BY <1>0 DEF StartSpawns, PoolTypeOK
  <1>3. /\ SpawnWorker(w) /\ runs' = [runs EXCEPT ![w] = 1] /\ running' = running \cup {w}
        /\ runs' \in [Jobs -> Nat]
    BY <1>0, <1>1 DEF StartSpawns, SpawnWorker, PoolTypeOK
  <1>4. \A j \in Jobs : runs'[j] = IF j = w THEN 1 ELSE runs[j]
    BY <1>0, <1>1, <1>3 DEF PoolTypeOK
  <1>5. CountInv' /\ active' = active + 1
    BY <1>0, <1>1, <1>2, <1>3, SpawnCounts DEF PoolTypeOK
  <1>6. SpawnTypes'
    BY <1>0, <1>1, <1>2, <1>3, <1>5 DEF SpawnTypes, PoolTypeOK
  <1>7. \A i \in (next + 1)..Len(workers) :
            /\ i \in next..Len(workers) /\ workers[i] \in Jobs /\ workers[i] # w
    BY <1>0, <1>2 DEF PendingInv, PoolTypeOK
  <1>8. PendingInv'
    BY <1>0, <1>2, <1>4, <1>7 DEF PendingInv
  <1>9. \A j \in added : runs'[j] = 0 =>
            j \in hand \/ \E i \in (next + 1)..Len(workers) : workers[i] = j
    <2> SUFFICES ASSUME NEW j \in added, runs'[j] = 0, j \notin hand
                 PROVE  \E i \in (next + 1)..Len(workers) : workers[i] = j
      OBVIOUS
    <2>1. j \in Jobs /\ j # w /\ runs[j] = 0
      BY <1>0, <1>4 DEF PoolTypeOK
    <2>2. PICK i \in next..Len(workers) : workers[i] = j
      BY <1>0, <2>1 DEF RunsInv
    <2>3. i # next
      BY <2>1, <2>2
    <2> QED BY <1>2, <2>2, <2>3
  <1>10. RunsInv'
    <2>1. \A j \in Jobs : runs'[j] \in {0, 1} /\ (j \notin added => runs'[j] = 0)
      BY <1>0, <1>1, <1>4 DEF RunsInv
    <2>2. \A j \in running' : runs'[j] = 1
      BY <1>0, <1>1, <1>3, <1>4 DEF RunsInv, PoolTypeOK
    <2> QED BY <1>2, <1>9, <2>1, <2>2 DEF RunsInv
  <1>11. HandInv'
    <2>1. \A j \in hand : j \in Jobs /\ j # w
      BY <1>0, <1>1 DEF PoolTypeOK
    <2> QED BY <1>0, <1>2, <1>4, <2>1 DEF HandInv
  <1> QED BY <1>5, <1>6, <1>8, <1>10, <1>11

(* popWorker moves the head of the list, if there is one, to the hand. *)
LEMMA PopStep ==
    ASSUME ListInv, Pop
    PROVE  SpawnTypes' /\ PendingInv' /\ HandInv' /\ RunsInv' /\ CountInv'
  <1>0. PoolTypeOK /\ PendingInv /\ HandInv /\ RunsInv /\ CountInv
    BY DEF ListInv
  <1>1. /\ added' = added /\ startPc' = startPc /\ next' = next /\ next = 1 /\ Unlocked
        /\ runs' = runs /\ running' = running /\ active' = active /\ empties' = empties
        /\ mpc' \in {"spawn", "tickSpawn"} /\ hand = {}
    BY <1>0 DEF Pop, startVars, PendingInv, HandInv, Unlocked
  <1>2. CountInv'
    BY <1>0, <1>1 DEF CountInv, ActiveIsExact
  <1>3. CASE workers = << >>
    <2>1. workers' = workers /\ hand' = {}
      BY <1>3 DEF Pop, popWorker
    <2>2. PendingInv' /\ HandInv' /\ RunsInv'
      BY <1>0, <1>1, <2>1 DEF PendingInv, HandInv, RunsInv
    <2> QED BY <1>0, <1>1, <1>2, <2>1, <2>2 DEF SpawnTypes, PoolTypeOK
  <1>4. CASE workers # << >>
    <2> DEFINE w == Head(workers)
    <2>1. hand' = {w} /\ workers' = Tail(workers)
      BY <1>4 DEF Pop, popWorker
    <2>2. next <= Len(workers) /\ w = workers[next] /\ w = workers[1]
      BY <1>0, <1>1, <1>4, HeadIsFirst
    <2>3. w \in Jobs /\ w \in added /\ runs[w] = 0
      BY <1>0, <2>2, FirstPending
    <2>4. /\ workers' \in Seq(Jobs) /\ Len(workers) \in Nat \ {0}
          /\ Len(workers') = Len(workers) - 1
          /\ \A i \in 1..(Len(workers) - 1) : workers'[i] = workers[i + 1]
      BY <1>0, <1>4, <2>1, TailFacts DEF PoolTypeOK
    <2>5. SpawnTypes'
      BY <1>0, <1>1, <2>1, <2>3, <2>4 DEF SpawnTypes, PoolTypeOK
    <2>6. \A i \in 1..(Len(workers) - 1) :
              /\ i + 1 \in 1..Len(workers) /\ workers[i + 1] # w
              /\ workers[i + 1] \in added /\ runs[workers[i + 1]] = 0
      <3> SUFFICES ASSUME NEW i \in 1..(Len(workers) - 1)
                   PROVE  /\ i + 1 \in 1..Len(workers) /\ workers[i + 1] # w
                          /\ workers[i + 1] \in added /\ runs[workers[i + 1]] = 0
        OBVIOUS
      <3>1. i + 1 \in 1..Len(workers) /\ 1 \in 1..Len(workers) /\ i + 1 # 1
        BY <2>4
      <3>2. workers[i + 1] # workers[1] /\ workers[i + 1] \in added /\ runs[workers[i + 1]] = 0
        BY <1>0, <1>1, <3>1 DEF PendingInv
      <3> QED BY <2>2, <3>1, <3>2
    <2>7. PendingInv'
      <3>1. \A i \in next'..Len(workers') : /\ workers'[i] \in added'
                                            /\ workers'[i] \notin hand'
                                            /\ runs'[workers'[i]] = 0
        BY <1>1, <2>1, <2>4, <2>6
      <3>2. ASSUME NEW i \in next'..Len(workers'), NEW k \in next'..Len(workers'),
                   workers'[i] = workers'[k]
            PROVE  i = k
        <4>1. /\ i + 1 \in 1..Len(workers) /\ k + 1 \in 1..Len(workers)
              /\ workers[i + 1] = workers[k + 1]
          BY <1>1, <2>4, <3>2
        <4>2. i + 1 = k + 1
          BY <1>0, <1>1, <4>1 DEF PendingInv
        <4> QED BY <1>1, <2>4, <4>2
      <3> QED BY <1>1, <3>1, <3>2 DEF PendingInv
    <2>8. \A j \in added' : runs'[j] = 0 =>
              j \in hand' \/ \E i \in next'..Len(workers') : workers'[i] = j
      <3> SUFFICES ASSUME NEW j \in added, runs[j] = 0, j # w
                   PROVE  \E i \in 1..(Len(workers) - 1) : workers'[i] = j
        BY <1>1, <2>1, <2>4
      <3>1. PICK i \in 1..Len(workers) : workers[i] = j
        BY <1>0, <1>1 DEF RunsInv
      <3>2. i # 1
        BY <2>2, <3>1
      <3>3. i - 1 \in 1..(Len(workers) - 1) /\ (i - 1) + 1 = i
        BY <2>4, <3>1, <3>2
      <3>4. workers'[i - 1] = workers[i]
        BY <2>4, <3>3
      <3> QED BY <3>1, <3>3, <3>4
    <2>9. RunsInv'
      BY <1>0, <1>1, <2>8 DEF RunsInv
    <2>10. HandInv'
      BY <1>1, <2>1, <2>3 DEF HandInv
    <2> QED BY <1>2, <2>5, <2>7, <2>9, <2>10
  <1> QED BY <1>3, <1>4

(* The monitor spawns what popWorker gave it, which may be empty. *)
LEMMA SpawnStep ==
    ASSUME ListInv, Spawn
    PROVE  /\ SpawnTypes' /\ PendingInv' /\ HandInv' /\ RunsInv' /\ CountInv'
           /\ active' = active + 1
  <1>0. PoolTypeOK /\ PendingInv /\ HandInv /\ RunsInv /\ CountInv
    BY DEF ListInv
  <1>1. /\ added' = added /\ startPc' = startPc /\ next' = next /\ workers' = workers
        /\ hand' = {}
    BY DEF Spawn, startVars
  <1>2. HandInv'
    BY <1>1 DEF HandInv
  <1>3. CASE hand = {}
    <2>1. /\ empties' = empties + 1 /\ active' = active + 1
          /\ running' = running /\ runs' = runs
      BY <1>3 DEF Spawn
    <2>2. CountInv'
      BY <1>0, <2>1, EmptyCounts DEF PoolTypeOK
    <2>3. PendingInv' /\ RunsInv'
      BY <1>0, <1>1, <1>3, <2>1 DEF PendingInv, RunsInv
    <2> QED BY <1>0, <1>1, <1>2, <2>1, <2>2, <2>3 DEF SpawnTypes, PoolTypeOK
  <1>4. CASE hand # {}
    <2>1. PICK w \in Jobs : hand = {w}
      BY <1>0, <1>4 DEF HandInv
    <2>2. SpawnWorker(w) /\ empties' = empties
      BY <1>4, <2>1 DEF Spawn
    <2>3. w \in added /\ runs[w] = 0 /\ w \notin running
      BY <1>0, <2>1 DEF HandInv, RunsInv
    <2>4. /\ runs' = [runs EXCEPT ![w] = 1] /\ running' = running \cup {w}
          /\ runs' \in [Jobs -> Nat]
      BY <1>0, <2>2, <2>3 DEF SpawnWorker, PoolTypeOK
    <2>5. \A j \in Jobs : runs'[j] = IF j = w THEN 1 ELSE runs[j]
      BY <1>0, <2>4 DEF PoolTypeOK
    <2>6. CountInv' /\ active' = active + 1
      BY <1>0, <2>2, <2>3, SpawnCounts DEF PoolTypeOK
    <2>7. SpawnTypes'
      BY <1>0, <1>1, <2>2, <2>4, <2>6 DEF SpawnTypes, PoolTypeOK
    <2>8. PendingInv'
      <3>1. \A i \in next..Len(workers) : workers[i] \in Jobs /\ workers[i] # w
        BY <1>0, <2>1 DEF PendingInv, PoolTypeOK
      <3> QED BY <1>0, <1>1, <2>5, <3>1 DEF PendingInv
    <2>9. RunsInv'
      <3>1. \A j \in Jobs : runs'[j] \in {0, 1} /\ (j \notin added => runs'[j] = 0)
        BY <1>0, <2>3, <2>5 DEF RunsInv
      <3>2. \A j \in running' : runs'[j] = 1
        BY <1>0, <2>4, <2>5 DEF RunsInv, PoolTypeOK
      <3>3. \A j \in added : runs'[j] = 0 => \E i \in next..Len(workers) : workers[i] = j
        BY <1>0, <2>1, <2>5 DEF RunsInv, PoolTypeOK
      <3> QED BY <1>1, <3>1, <3>2, <3>3 DEF RunsInv
    <2> QED BY <1>2, <2>6, <2>7, <2>8, <2>9
  <1> QED BY <1>3, <1>4

(* The monitor takes a new worker: it comes last, and it was not there. *)
LEMMA AddWorkerStep ==
    ASSUME ListInv, NEW j \in Jobs, AddWorker(j)
    PROVE  /\ workers' \in Seq(Jobs) /\ next' \in 1..Len(workers') + 1
           /\ PendingInv' /\ HandInv' /\ RunsInv'
  <1>0. PoolTypeOK /\ PendingInv /\ HandInv /\ RunsInv
    BY DEF ListInv
  <1>1. /\ next' = next /\ next = 1 /\ added' = added \cup {j} /\ j \notin added
        /\ runs' = runs /\ running' = running /\ startPc' = startPc
        /\ hand' = {} /\ hand = {}
    BY <1>0 DEF AddWorker, startVars, PendingInv, HandInv, Unlocked
  <1>2. /\ workers' \in Seq(Jobs) /\ Len(workers) \in Nat
        /\ Len(workers') = Len(workers) + 1 /\ workers'[Len(workers) + 1] = j
        /\ \A i \in 1..Len(workers) : workers'[i] = workers[i]
    BY <1>0, AppendFacts DEF AddWorker, PoolTypeOK
  <1>3. \A i \in 1..Len(workers) : workers[i] \in added /\ workers[i] # j
    BY <1>0, <1>1 DEF PendingInv
  <1>4. runs[j] = 0
    BY <1>0, <1>1 DEF RunsInv
  <1>5. PendingInv'
    <2>1. \A i \in next'..Len(workers') : /\ workers'[i] \in added'
                                          /\ workers'[i] \notin hand'
                                          /\ runs'[workers'[i]] = 0
      BY <1>0, <1>1, <1>2, <1>4 DEF PendingInv
    <2>2. \A i, k \in next'..Len(workers') : workers'[i] = workers'[k] => i = k
      BY <1>0, <1>1, <1>2, <1>3 DEF PendingInv
    <2> QED BY <1>0, <1>1, <2>1, <2>2 DEF PendingInv
  <1>6. RunsInv'
    <2>1. \A x \in added' : runs'[x] = 0 => \E i \in next'..Len(workers') : workers'[i] = x
      <3> SUFFICES ASSUME NEW x \in added', runs'[x] = 0
                   PROVE  \E i \in 1..Len(workers) + 1 : workers'[i] = x
        BY <1>1, <1>2
      <3>1. CASE x = j
        <4>1. Len(workers) + 1 \in 1..Len(workers) + 1
          BY <1>2
        <4> QED BY <1>2, <3>1, <4>1
      <3>2. CASE x # j
        <4>1. PICK i \in 1..Len(workers) : workers[i] = x
          BY <1>0, <1>1, <3>2 DEF RunsInv
        <4>2. i \in 1..Len(workers) + 1 /\ workers'[i] = x
          BY <1>2, <4>1
        <4> QED BY <4>2
      <3> QED BY <3>1, <3>2
    <2>2. \A x \in Jobs : runs'[x] \in {0, 1} /\ (x \notin added' => runs'[x] = 0)
      BY <1>0, <1>1 DEF RunsInv
    <2> QED BY <1>0, <1>1, <2>1, <2>2 DEF RunsInv
  <1>7. HandInv'
    BY <1>1 DEF HandInv
  <1> QED BY <1>1, <1>2, <1>5, <1>6, <1>7

(* start has spawned all it found and empties the list. *)
LEMMA StartEmptiesStep ==
    ASSUME ListInv, StartEmpties
    PROVE  /\ workers' \in Seq(Jobs) /\ next' \in 1..Len(workers') + 1
           /\ PendingInv' /\ HandInv' /\ RunsInv'
  <1>0. PoolTypeOK /\ PendingInv /\ HandInv /\ RunsInv
    BY DEF ListInv
  <1>1. /\ workers' = << >> /\ Len(workers') = 0 /\ next' = 1 /\ startPc' = "done"
        /\ runs' = runs /\ added' = added /\ running' = running
        /\ hand' = hand /\ mpc' = mpc
        /\ next > Len(workers) /\ Len(workers) \in Nat /\ next \in Nat
    BY <1>0 DEF StartEmpties, PoolTypeOK
  <1>2. \A j \in added : runs[j] = 0 => j \in hand
    BY <1>0, <1>1 DEF RunsInv
  <1> QED BY <1>0, <1>1, <1>2 DEF PendingInv, HandInv, RunsInv

(* The invariant up to the target, for every step of the pool. *)
LEMMA ListStep ==
    ASSUME ListInv, [PoolNext]_poolVars
    PROVE  ListInv'
  <1>0. PoolTypeOK /\ PendingInv /\ HandInv /\ RunsInv /\ CountInv
    BY DEF ListInv
  <1>1. CASE StartLocks
    BY <1>0, <1>1 DEF StartLocks, ListInv, PoolTypeOK, PendingInv, HandInv, RunsInv,
                      CountInv, ActiveIsExact
  <1>2. CASE StartSpawns
    <2>1. SpawnTypes' /\ PendingInv' /\ HandInv' /\ RunsInv' /\ CountInv'
      BY <1>2, StartSpawnsStep
    <2>2. PoolTypeOK'
      BY <1>0, <1>2, <2>1 DEF StartSpawns, SpawnTypes, PoolTypeOK
    <2> QED BY <2>1, <2>2 DEF ListInv
  <1>3. CASE StartEmpties
    <2>1. /\ workers' \in Seq(Jobs) /\ next' \in 1..Len(workers') + 1
          /\ PendingInv' /\ HandInv' /\ RunsInv'
      BY <1>3, StartEmptiesStep
    <2>2. CountInv'
      BY <1>0, <1>3 DEF StartEmpties, CountInv, ActiveIsExact
    <2>3. PoolTypeOK'
      BY <1>0, <1>3, <2>1 DEF StartEmpties, PoolTypeOK
    <2> QED BY <2>1, <2>2, <2>3 DEF ListInv
  <1>4. CASE Pop
    <2>1. SpawnTypes' /\ PendingInv' /\ HandInv' /\ RunsInv' /\ CountInv'
      BY <1>4, PopStep
    <2>2. PoolTypeOK'
      BY <1>0, <1>4, <2>1 DEF Pop, SpawnTypes, PoolTypeOK, startVars
    <2> QED BY <2>1, <2>2 DEF ListInv
  <1>5. CASE Spawn
    <2>1. SpawnTypes' /\ PendingInv' /\ HandInv' /\ RunsInv' /\ CountInv'
      BY <1>5, SpawnStep
    <2>2. PoolTypeOK'
      <3>1. /\ mpc' \in {"select", "tick"} /\ added' = added /\ dropped' = dropped
            /\ UNCHANGED <<startPc, late, mactive, cancelled>>
        BY <1>5 DEF Spawn, startVars
      <3> QED BY <1>0, <2>1, <3>1 DEF SpawnTypes, PoolTypeOK
    <2> QED BY <2>1, <2>2 DEF ListInv
  <1>6. CASE LoadActive \/ Pending \/ Tick \/ TickLoad \/ MonitorEnds
    <2>1. UNCHANGED listVars
      BY <1>6 DEF LoadActive, Pending, Tick, TickLoad, MonitorEnds
    <2>2. PendingInv' /\ RunsInv' /\ CountInv'
      BY <1>0, <2>1 DEF listVars, startVars, PendingInv, RunsInv, CountInv, ActiveIsExact
    <2>3. /\ mpc' \in {"load", "pending", "pop", "spawn", "select", "tick", "tickLoad",
                        "tickPop", "tickSpawn", "gone"}
          /\ mactive' \in Nat /\ mpc \notin {"spawn", "tickSpawn"}
      BY <1>0, <1>6 DEF LoadActive, Pending, Tick, TickLoad, MonitorEnds, PoolTypeOK
    <2>4. PoolTypeOK'
      BY <1>0, <2>1, <2>3 DEF listVars, startVars, PoolTypeOK
    <2>5. HandInv'
      BY <1>0, <2>1, <2>3 DEF listVars, HandInv
    <2> QED BY <2>2, <2>4, <2>5 DEF ListInv
  <1>7. CASE Cancel
    BY <1>0, <1>7 DEF Cancel, startVars, ListInv, PoolTypeOK, PendingInv, HandInv, RunsInv,
                      CountInv, ActiveIsExact
  <1>8. CASE EmptyReturns
    <2>1. CountInv' /\ active' \in Nat /\ empties' \in Nat
      BY <1>0, <1>8, EmptyCounts DEF EmptyReturns, PoolTypeOK
    <2>2. PendingInv' /\ HandInv' /\ RunsInv'
      BY <1>0, <1>8 DEF EmptyReturns, startVars, PendingInv, HandInv, RunsInv
    <2>3. PoolTypeOK'
      BY <1>0, <1>8, <2>1 DEF EmptyReturns, startVars, PoolTypeOK
    <2> QED BY <2>1, <2>2, <2>3 DEF ListInv
  <1>9. ASSUME NEW j \in Jobs, AddWorker(j) PROVE ListInv'
    <2>1. /\ workers' \in Seq(Jobs) /\ next' \in 1..Len(workers') + 1
          /\ PendingInv' /\ HandInv' /\ RunsInv'
      BY <1>9, AddWorkerStep
    <2>2. CountInv'
      BY <1>0, <1>9 DEF AddWorker, CountInv, ActiveIsExact
    <2>3. PoolTypeOK'
      BY <1>0, <1>9, <2>1 DEF AddWorker, startVars, PoolTypeOK
    <2> QED BY <2>1, <2>2, <2>3 DEF ListInv
  <1>10. ASSUME NEW j \in Jobs, AddDropped(j) PROVE ListInv'
    BY <1>0, <1>10 DEF AddDropped, startVars, ListInv, PoolTypeOK, PendingInv, HandInv,
                       RunsInv, CountInv, ActiveIsExact
  <1>11. ASSUME NEW j \in Jobs, JobReturns(j) PROVE ListInv'
    <2>1. CountInv' /\ active' \in Nat
      BY <1>0, <1>11, ReturnCounts DEF JobReturns, PoolTypeOK
    <2>2. PendingInv' /\ HandInv' /\ RunsInv'
      BY <1>0, <1>11 DEF JobReturns, startVars, PendingInv, HandInv, RunsInv
    <2>3. PoolTypeOK'
      BY <1>0, <1>11, <2>1 DEF JobReturns, startVars, PoolTypeOK
    <2> QED BY <2>1, <2>2, <2>3 DEF ListInv
  <1>12. CASE UNCHANGED poolVars
    BY <1>0, <1>12 DEF poolVars, startVars, ListInv, PoolTypeOK, PendingInv, HandInv,
                       RunsInv, CountInv, ActiveIsExact
  <1> QED BY <1>1, <1>2, <1>3, <1>4, <1>5, <1>6, <1>7, <1>8, <1>9, <1>10, <1>11, <1>12
          DEF PoolNext, start, Monitor

(* The target, for every step: the load, the test, the pop and the spawn   *)
(* of the monitor are four steps, and only returning workers come in       *)
(* between.                                                                *)
LEMMA TargetStep ==
    ASSUME PoolInv, [PoolNext]_poolVars
    PROVE  TargetInv'
  <1> USE PoolAssumption
  <1> active \in Nat /\ mactive \in Nat /\ Target \in Nat \ {0} /\ late \in BOOLEAN
    BY DEF PoolInv, ListInv, PoolTypeOK
  <1> TargetInv
    BY DEF PoolInv
  <1>1. CASE StartLocks
    BY <1>1 DEF StartLocks, TargetInv
  <1>2. CASE StartSpawns
    <2>1. workers # << >>
      BY <1>2 DEF StartSpawns, PoolInv, ListInv, PoolTypeOK
    <2> QED BY <1>2, <2>1 DEF StartSpawns, TargetInv
  <1>3. CASE StartEmpties
    BY <1>3 DEF StartEmpties, TargetInv
  <1>4. CASE Pop
    BY <1>4 DEF Pop, popWorker, startVars, Unlocked, TargetInv
  <1>5. CASE Spawn
    <2>1. /\ active' = active + 1 /\ late' = late /\ startPc' = startPc
          /\ workers' = workers /\ mpc' \in {"select", "tick"}
      BY <1>5, SpawnStep DEF Spawn, PoolInv, startVars
    <2> QED BY <1>5, <2>1 DEF Spawn, TargetInv
  <1>6. CASE LoadActive
    BY <1>6 DEF LoadActive, listVars, startVars, TargetInv
  <1>7. CASE Pending
    BY <1>7 DEF Pending, listVars, startVars, TargetInv
  <1>8. CASE Tick \/ MonitorEnds
    BY <1>8 DEF Tick, MonitorEnds, listVars, startVars, TargetInv
  <1>9. CASE TickLoad
    BY <1>9 DEF TickLoad, listVars, startVars, TargetInv
  <1>10. CASE Cancel
    BY <1>10 DEF Cancel, startVars, TargetInv
  <1>11. CASE EmptyReturns
    BY <1>11 DEF EmptyReturns, startVars, TargetInv
  <1>12. ASSUME NEW j \in Jobs, AddWorker(j) PROVE TargetInv'
    BY <1>12 DEF AddWorker, startVars, Unlocked, TargetInv
  <1>13. ASSUME NEW j \in Jobs, AddDropped(j) PROVE TargetInv'
    BY <1>13 DEF AddDropped, startVars, TargetInv
  <1>14. ASSUME NEW j \in Jobs, JobReturns(j) PROVE TargetInv'
    BY <1>14 DEF JobReturns, startVars, TargetInv
  <1>15. CASE UNCHANGED poolVars
    BY <1>15 DEF poolVars, startVars, TargetInv
  <1> QED BY <1>1, <1>2, <1>3, <1>4, <1>5, <1>6, <1>7, <1>8, <1>9, <1>10, <1>11, <1>12,
             <1>13, <1>14, <1>15
          DEF PoolNext, start, Monitor

(* The pool starts within the invariant. *)
LEMMA PoolInitInv == PoolInit => PoolInv
  <1> SUFFICES ASSUME PoolInit PROVE PoolInv
    OBVIOUS
  <1>1. IsFiniteSet({}) /\ Cardinality({}) = 0
    BY FS_EmptySet
  <1>2. CountInv
    BY <1>1 DEF PoolInit, CountInv, ActiveIsExact
  <1>3. workers = << >> /\ Len(workers) = 0 /\ next = 1
    BY DEF PoolInit
  <1>4. PoolTypeOK
    <2>1. workers \in Seq(Jobs)
      BY <1>3
    <2>2. runs \in [Jobs -> Nat]
      BY DEF PoolInit
    <2>3. next \in 1..Len(workers) + 1
      BY <1>3
    <2> QED BY <2>1, <2>2, <2>3 DEF PoolInit, PoolTypeOK
  <1>5. PendingInv /\ RunsInv
    BY <1>3 DEF PoolInit, PendingInv, RunsInv
  <1>6. HandInv /\ TargetInv
    BY PoolAssumption DEF PoolInit, HandInv, TargetInv
  <1> QED BY <1>2, <1>4, <1>5, <1>6 DEF PoolInv, ListInv

(* The invariant holds along every behaviour of the pool. *)
LEMMA PoolInvariance == PoolSpec => []PoolInv
  <1>1. PoolInv /\ [PoolNext]_poolVars => PoolInv'
    BY ListStep, TargetStep DEF PoolInv
  <1> QED BY PoolInitInv, <1>1, PTL DEF PoolSpec

(* The pool's state keeps its types; activeWorkers, which every returning  *)
(* goroutine decrements by adding 2^32 - 1, does not go below zero.        *)
THEOREM PoolTypeCorrect == PoolSpec => []PoolTypeOK
  <1>1. PoolInv => PoolTypeOK
    BY DEF PoolInv, ListInv
  <1> QED BY <1>1, PoolInvariance, PTL

(* activeWorkers is the number of goroutines that spawnWorker started and  *)
(* that have not returned, whatever start, monitor and the jobs do.        *)
THEOREM ActiveStaysExact == PoolSpec => []ActiveIsExact
  <1>1. PoolInv => ActiveIsExact
    BY DEF PoolInv, ListInv, CountInv
  <1> QED BY <1>1, PoolInvariance, PTL

(* However start and the monitor race for the list, no worker that was     *)
(* added is lost and none is spawned twice.                                *)
THEOREM EachIsSpawnedOnce == PoolSpec => []SpawnedOnce
  <1>1. PoolInv => SpawnedOnce
    <2> SUFFICES ASSUME PoolInv, NEW j \in Jobs
                 PROVE  runs[j] + Cardinality({i \in next..Len(workers) : workers[i] = j})
                                + Cardinality(hand \cap {j})
                        = IF j \in added THEN 1 ELSE 0
      BY DEF SpawnedOnce
    <2> DEFINE P == {i \in next..Len(workers) : workers[i] = j}
               H == hand \cap {j}
    <2>0. PendingInv /\ HandInv /\ RunsInv
      BY DEF PoolInv, ListInv
    <2>1. Cardinality({}) = 0
      BY FS_EmptySet
    <2>2. runs[j] \in {0, 1} /\ (j \notin added => runs[j] = 0)
      BY <2>0 DEF RunsInv
    <2>3. P # {} => j \in added /\ j \notin hand /\ runs[j] = 0
      BY <2>0 DEF PendingInv
    <2>4. H # {} => j \in added /\ j \in hand /\ runs[j] = 0
      BY <2>0 DEF HandInv
    <2>5. CASE j \in hand
      <3>1. H = {j} /\ P = {}
        BY <2>3, <2>5
      <3>2. Cardinality(H) = 1 /\ Cardinality(P) = 0
        BY <2>1, <3>1, FS_Singleton
      <3>3. j \in added /\ runs[j] = 0
        BY <2>4, <3>1
      <3> QED BY <3>2, <3>3
    <2>6. CASE P # {}
      <3>1. PICK i \in P : TRUE
        BY <2>6
      <3>2. P = {i} /\ H = {}
        BY <2>0, <2>3, <3>1 DEF PendingInv
      <3>3. Cardinality(P) = 1 /\ Cardinality(H) = 0
        BY <2>1, <3>2, FS_Singleton
      <3> QED BY <2>3, <2>6, <3>3
    <2>7. CASE j \notin hand /\ P = {}
      <3>1. Cardinality(H) = 0 /\ Cardinality(P) = 0
        BY <2>1, <2>4, <2>7
      <3>2. j \in added => runs[j] = 1
        BY <2>0, <2>2, <2>7 DEF RunsInv
      <3> QED BY <2>2, <3>1, <3>2
    <2> QED BY <2>5, <2>6, <2>7
  <1> QED BY <1>1, PoolInvariance, PTL

(* Unless start comes late, there are never more active workers than the   *)
(* target, though the monitor loads the number, looks at the list, pops    *)
(* and spawns in separate steps.                                           *)
THEOREM TargetIsKept == PoolSpec => []TargetUnlessLate
  <1>1. PoolInv => TargetUnlessLate
    BY DEF PoolInv, TargetInv, TargetUnlessLate
  <1> QED BY <1>1, PoolInvariance, PTL

-----------------------------------------------------------------------------
(* The pool implements WorkerPool. *)
Line == SubSeq(workers, next, Len(workers))
Ended == {j \in Jobs : runs[j] > 0 /\ j \notin running}

(* The line of an empty list, of one with a first worker, and of one that  *)
(* start has not touched.                                                  *)
LEMMA LineFacts ==
    ASSUME NEW S, NEW s \in Seq(S), NEW n \in 1..Len(s) + 1
    PROVE  /\ n <= Len(s) => /\ SubSeq(s, n, Len(s)) # << >>
                             /\ Head(SubSeq(s, n, Len(s))) = s[n]
                             /\ Tail(SubSeq(s, n, Len(s))) = SubSeq(s, n + 1, Len(s))
           /\ n > Len(s) => SubSeq(s, n, Len(s)) = << >>
           /\ n = 1 => SubSeq(s, n, Len(s)) = s
  <1>1. Len(s) \in Nat /\ n \in Int
    OBVIOUS
  <1>2. CASE n <= Len(s)
    <2>1. n \in 1..Len(s) /\ Len(s) \in n..Len(s) /\ Len(s) \in 1..Len(s)
      BY <1>1, <1>2
    <2>2. \A i \in n..Len(s) : s[i] \in S
      BY <1>1
    <2>3. Len(SubSeq(s, n, Len(s))) = Len(s) - n + 1
      BY <1>1, <1>2, <2>2, SubSeqProperties
    <2>4. SubSeq(s, n, Len(s)) # << >>
      <3>1. Len(SubSeq(s, n, Len(s))) # Len(<< >>)
        <4>1. Len(s) - n + 1 # 0 /\ Len(<< >>) = 0
          BY <1>1, <1>2
        <4> QED BY <2>3, <4>1, Zenon
      <3> QED BY <3>1, Zenon
    <2>5. /\ Head(SubSeq(s, n, Len(s))) = s[n]
          /\ Tail(SubSeq(s, n, Len(s))) = SubSeq(s, n + 1, Len(s))
      BY <2>1, HeadTailOfSubSeq
    <2>6. n = 1 => SubSeq(s, n, Len(s)) = s
      BY SubSeqFull
    <2>7. ~ (n > Len(s))
      BY <1>1, <1>2
    <2> QED BY <1>2, <2>4, <2>5, <2>6, <2>7, Zenon
  <1>3. CASE n > Len(s)
    <2>1. SubSeq(s, n, Len(s)) = << >>
      BY <1>1, <1>3, SubSeqEmpty
    <2>2. ~ (n <= Len(s))
      BY <1>1, <1>3
    <2>3. n = 1 => SubSeq(s, n, Len(s)) = s
      BY SubSeqFull
    <2> QED BY <2>1, <2>2, <2>3, Zenon
  <1> QED BY <1>1, <1>2, <1>3

(* Spawning a worker moves it to the running and leaves the ended alone. *)
LEMMA SpawnIsSeen ==
    ASSUME ListInv, NEW w \in Jobs, runs[w] = 0, w \notin running, SpawnWorker(w)
    PROVE  running' = running \cup {w} /\ w \notin Ended /\ Ended' = Ended
  <1>1. runs \in [Jobs -> Nat]
    BY DEF ListInv, PoolTypeOK
  <1>2. running' = running \cup {w} /\ w \notin Ended
    BY DEF SpawnWorker, Ended
  <1>3. \A j \in Jobs \ {w} : runs'[j] = runs[j]
    BY <1>1 DEF SpawnWorker
  <1>4. \A j \in Jobs : (runs'[j] > 0 /\ j \notin running') <=> (runs[j] > 0 /\ j \notin running)
    BY <1>2, <1>3
  <1> QED BY <1>2, <1>4 DEF Ended

(* start spawns the first pending worker: a start of the rush. *)
LEMMA StartSpawnsIsRushStart ==
    ASSUME ListInv, StartSpawns
    PROVE  PoolPromise!RushStart
  <1> DEFINE w == workers[next]
  <1>1. /\ w \in Jobs /\ runs[w] = 0 /\ w \notin running /\ w \notin hand
        /\ SpawnWorker(w)
    BY FirstPending DEF ListInv, StartSpawns
  <1>2. /\ next <= Len(workers) /\ startPc = "spawning" /\ startPc' = startPc
        /\ hand' = hand /\ Line' = SubSeq(workers, next + 1, Len(workers))
    BY DEF StartSpawns, Line
  <1>3. workers \in Seq(Jobs) /\ next \in 1..Len(workers) + 1
    BY DEF ListInv, PoolTypeOK
  <1>4. Line # << >> /\ Head(Line) = w /\ Line' = Tail(Line)
    BY <1>2, <1>3, LineFacts DEF Line
  <1>5. running' = running \cup {w} /\ w \notin Ended /\ Ended' = Ended
    BY <1>1, SpawnIsSeen
  <1> QED BY <1>1, <1>2, <1>4, <1>5, Zenon DEF PoolPromise!RushStart, Line, Ended

(* start empties a list of which nothing is pending: the end of the rush. *)
LEMMA StartEmptiesIsRushEnds ==
    ASSUME ListInv, StartEmpties
    PROVE  PoolPromise!RushEnds
  <1>1. /\ workers' = << >> /\ next' = 1 /\ next > Len(workers)
        /\ UNCHANGED <<running, runs, hand>>
        /\ startPc = "spawning" /\ startPc' = "done"
    BY DEF StartEmpties
  <1>2. workers \in Seq(Jobs) /\ next \in 1..Len(workers) + 1
    BY DEF ListInv, PoolTypeOK
  <1>3. Line = << >>
    BY <1>1, <1>2, LineFacts DEF Line
  <1>4. Line' = << >>
    <2>1. << >> \in Seq(Jobs)
      OBVIOUS
    <2> QED BY <1>1, <2>1, SubSeqFull DEF Line
  <1>5. Ended' = Ended /\ running' = running /\ hand' = hand
    BY <1>1 DEF Ended
  <1> QED BY <1>1, <1>3, <1>4, <1>5, Zenon DEF PoolPromise!RushEnds, Line, Ended

(* popWorker takes the head of the line; of an empty list nothing is seen. *)
LEMMA PopIsTake ==
    ASSUME ListInv, Pop
    PROVE  PoolPromise!Take \/ UNCHANGED PoolPromise!vars
  <1>1. /\ next = 1 /\ next' = 1 /\ workers \in Seq(Jobs) /\ hand = {}
        /\ startPc # "spawning" /\ UNCHANGED <<running, runs, startPc>>
    BY DEF ListInv, PoolTypeOK, PendingInv, HandInv, Pop, Unlocked, startVars
  <1>2. Ended' = Ended /\ running' = running /\ Line = workers
    BY <1>1, SubSeqFull DEF Ended, Line
  <1>3. CASE workers = << >>
    <2>1. workers' = workers /\ hand' = hand
      BY <1>1, <1>3 DEF Pop, popWorker
    <2>2. Line' = Line
      BY <1>1, <2>1 DEF Line
    <2> QED BY <1>1, <1>2, <2>1, <2>2, Zenon DEF PoolPromise!vars, Line, Ended
  <1>4. CASE workers # << >>
    <2>1. hand' = {Head(workers)} /\ workers' = Tail(workers)
      BY <1>4 DEF Pop, popWorker
    <2>2. workers' \in Seq(Jobs)
      BY <1>1, <1>4, <2>1, TailFacts
    <2>3. Line' = workers'
      BY <1>1, <2>2, SubSeqFull DEF Line
    <2>4. Line # << >> /\ Line' = Tail(Line) /\ hand' = {Head(Line)}
      BY <1>2, <1>4, <2>1, <2>3
    <2>5. PoolPromise!Take
      BY <1>1, <1>2, <2>4, Zenon DEF PoolPromise!Take, Line, Ended
    <2> QED BY <2>5
  <1> QED BY <1>3, <1>4

(* The monitor spawns the worker in its hand; an empty one is unseen. *)
LEMMA SpawnIsStart ==
    ASSUME ListInv, Spawn
    PROVE  (\E j \in Jobs : PoolPromise!Start(j)) \/ UNCHANGED PoolPromise!vars
  <1>1. hand' = {} /\ UNCHANGED <<workers, next, startPc>>
    BY DEF Spawn, startVars
  <1>2. Line' = Line
    BY <1>1 DEF Line
  <1>3. CASE hand = {}
    <2>1. UNCHANGED <<running, runs>>
      BY <1>3 DEF Spawn
    <2>2. Ended' = Ended /\ running' = running /\ hand' = hand
      BY <1>1, <1>3, <2>1 DEF Ended
    <2> QED BY <1>1, <1>2, <2>2, Zenon DEF PoolPromise!vars, Line, Ended
  <1>4. CASE hand # {}
    <2>1. PICK w \in Jobs : hand = {w}
      BY <1>4 DEF ListInv, HandInv
    <2>2. SpawnWorker(w) /\ runs[w] = 0 /\ w \notin running
      BY <1>4, <2>1 DEF Spawn, ListInv, HandInv, RunsInv
    <2>3. running' = running \cup {w} /\ w \notin Ended /\ Ended' = Ended
      BY <2>2, SpawnIsSeen
    <2>4. PoolPromise!Start(w)
      BY <1>1, <1>2, <2>1, <2>2, <2>3, Zenon DEF PoolPromise!Start, Line, Ended
    <2> QED BY <2>4
  <1> QED BY <1>3, <1>4

(* AddWorker is the abstract Add: whoever is pending, popped, running or   *)
(* ended was added before.                                                 *)
LEMMA AddWorkerIsAdd ==
    ASSUME ListInv, NEW j \in Jobs, AddWorker(j)
    PROVE  PoolPromise!Add(j)
  <1>1. /\ next = 1 /\ next' = 1 /\ j \notin added /\ workers' = Append(workers, j)
        /\ runs' = runs /\ running' = running /\ hand' = hand /\ hand = {}
        /\ startPc' = startPc /\ startPc # "spawning"
    BY DEF ListInv, PendingInv, HandInv, AddWorker, startVars, Unlocked
  <1>2. workers \in Seq(Jobs) /\ workers' \in Seq(Jobs)
    BY <1>1, AppendFacts DEF ListInv, PoolTypeOK
  <1>3. Line = workers /\ Line' = workers'
    BY <1>1, <1>2, SubSeqFull DEF Line
  <1>4. \A i \in DOMAIN Line : Line[i] \in added
    BY <1>1, <1>2, <1>3 DEF ListInv, PendingInv
  <1>5. j \notin {Line[i] : i \in DOMAIN Line}
    BY <1>1, <1>4
  <1>6. j \notin running /\ j \notin Ended /\ j \notin hand
    BY <1>1 DEF ListInv, PoolTypeOK, RunsInv, Ended
  <1>7. Ended' = Ended
    BY <1>1 DEF Ended
  <1> QED BY <1>1, <1>3, <1>5, <1>6, <1>7, Zenon
          DEF PoolPromise!Add, PoolPromise!Waiting, Line, Ended

(* A worker that returns has been spawned: it is the abstract End. *)
LEMMA JobReturnsIsEnd ==
    ASSUME ListInv, NEW j \in Jobs, JobReturns(j)
    PROVE  PoolPromise!End(j)
  <1>1. /\ j \in running /\ running' = running \ {j} /\ runs' = runs
        /\ UNCHANGED <<workers, next, hand, startPc>>
    BY DEF JobReturns, startVars
  <1>2. runs[j] > 0
    BY <1>1 DEF ListInv, RunsInv
  <1>3. Ended' = Ended \cup {j}
    BY <1>1, <1>2 DEF Ended
  <1>4. Line' = Line
    BY <1>1 DEF Line
  <1> QED BY <1>1, <1>3, <1>4, Zenon DEF PoolPromise!End, Line, Ended

(* For any workers and any target, the pool keeps the promise of           *)
(* WorkerPool: workers leave the line in the order they were added, are    *)
(* started once and do not come back after they returned, and no worker is *)
(* overtaken but the one popWorker has returned when start comes late.     *)
THEOREM PoolPromiseIsKept == PoolSpec => KeepsPoolPromise
  <1>1. PoolInit => PoolPromise!Init
    <2> SUFFICES ASSUME PoolInit PROVE PoolPromise!Init
      OBVIOUS
    <2>1. Line = << >>
      <3>1. << >> \in Seq(Jobs) /\ workers = << >> /\ next = 1
        BY DEF PoolInit
      <3> QED BY <3>1, SubSeqFull DEF Line
    <2>2. Ended = {}
      BY DEF PoolInit, Ended
    <2>3. running = {} /\ hand = {} /\ startPc = "idle"
      BY DEF PoolInit
    <2> QED BY <2>1, <2>2, <2>3, Zenon DEF PoolPromise!Init, Line, Ended
  <1>2. PoolInv /\ [PoolNext]_poolVars => [PoolPromise!Next]_(PoolPromise!vars)
    <2> SUFFICES ASSUME PoolInv, [PoolNext]_poolVars
                 PROVE  PoolPromise!Next \/ UNCHANGED PoolPromise!vars
      OBVIOUS
    <2>0. ListInv
      BY DEF PoolInv
    <2>1. CASE StartLocks
      <3>1. /\ startPc = "idle" /\ startPc' = "spawning"
            /\ UNCHANGED <<workers, next, running, runs, hand>>
        BY <2>1 DEF StartLocks
      <3>2. Line' = Line /\ Ended' = Ended
        BY <3>1 DEF Line, Ended
      <3>3. PoolPromise!RushBegins
        BY <3>1, <3>2, Zenon DEF PoolPromise!RushBegins, Line, Ended
      <3> QED BY <3>3 DEF PoolPromise!Next
    <2>2. CASE StartSpawns \/ StartEmpties
      BY <2>0, <2>2, StartSpawnsIsRushStart, StartEmptiesIsRushEnds DEF PoolPromise!Next
    <2>3. CASE Pop \/ Spawn
      BY <2>0, <2>3, PopIsTake, SpawnIsStart DEF PoolPromise!Next
    <2>4. ASSUME NEW j \in Jobs, AddWorker(j) \/ JobReturns(j) PROVE PoolPromise!Next
      BY <2>0, <2>4, AddWorkerIsAdd, JobReturnsIsEnd DEF PoolPromise!Next
    <2>5. ASSUME UNCHANGED <<workers, next, running, runs, hand, startPc>>
          PROVE  UNCHANGED PoolPromise!vars
      <3>1. /\ Line' = Line /\ Ended' = Ended /\ running' = running
            /\ hand' = hand /\ startPc' = startPc
        BY <2>5 DEF Line, Ended
      <3> QED BY <3>1, Zenon DEF PoolPromise!vars, Line, Ended
    <2>6. CASE Cancel \/ EmptyReturns \/ \E j \in Jobs : AddDropped(j)
      <3>1. UNCHANGED <<workers, next, running, runs, hand, startPc>>
        BY <2>6 DEF Cancel, EmptyReturns, AddDropped, startVars
      <3> QED BY <2>5, <3>1
    <2>7. CASE LoadActive \/ Pending \/ Tick \/ TickLoad \/ MonitorEnds
      <3>1. UNCHANGED <<workers, next, running, runs, hand, startPc>>
        BY <2>7 DEF LoadActive, Pending, Tick, TickLoad, MonitorEnds, listVars, startVars
      <3> QED BY <2>5, <3>1
    <2>8. CASE UNCHANGED poolVars
      <3>1. UNCHANGED <<workers, next, running, runs, hand, startPc>>
        BY <2>8 DEF poolVars, startVars
      <3> QED BY <2>5, <3>1
    <2> QED BY <2>1, <2>2, <2>3, <2>4, <2>6, <2>7, <2>8
            DEF PoolNext, start, Monitor
  <1> QED BY PoolInvariance, <1>1, <1>2, PTL DEF PoolSpec, KeepsPoolPromise, PoolPromise!Spec
=============================================================================
