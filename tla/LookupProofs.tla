---------------------------- MODULE LookupProofs ----------------------------
(***************************************************************************)
(* Proofs about the iterative lookup, for every finite set of nodes, every *)
(* alpha, every size of the result and every number of rounds.             *)
(***************************************************************************)
EXTENDS Lookup, FiniteSetTheorems, TLAPS

(* The node the loop is about to query was marked as asked just before,    *)
(* and no goroutine of this round queries it.                              *)
WalkInv ==
    /\ pc \in {"acquire", "check"} =>
          cands # << >> /\ g[Head(cands)] = "none" /\ Head(cands) \in asked
    /\ \A n \in Nodes : g[n] # "none" => n \in asked

(* The queries that own a token. *)
Busy == {n \in Nodes : g[n] \in {"query", "giveback", "count"}}

(* The loop's hand: at "check" it holds a token, unless the closed channel *)
(* gave it nothing.                                                        *)
Held == IF pc = "check" /\ success # alpha THEN 1 ELSE 0

(* No token is made: those in the channel, with a query, kept by a         *)
(* delivery and in the hand of the loop are alpha at most.                 *)
TokenInv == slots + Cardinality(Busy) + success + Held <= alpha

(* The channel is closed by one goroutine, after the alpha-th delivery. *)
CloseInv ==
    /\ closed => success = alpha
    /\ \A n \in In("close") : ~ closed /\ success = alpha
    /\ \A m, n \in In("close") : m = n

(* Between rounds no query is under way and no delivery is forgotten. *)
BufferInv ==
    /\ phase \in {"seed", "merge"} => InFlight = {}
    /\ phase = "seed" => buffer = {} /\ todo \cap seen = {}
    /\ phase = "merge" => buffer \subseteq seen \cup todo

Inv == TypeOK /\ WalkInv /\ TokenInv /\ CloseInv /\ BufferInv /\ ResultIsClosest
-----------------------------------------------------------------------------
(* What inserting one element into a sequence makes. *)
LEMMA InsertAtFacts ==
    ASSUME NEW S, NEW q \in Seq(S), NEW i \in 1 .. Len(q) + 1, NEW e \in S
    PROVE  LET p == InsertAt(q, i, e)
           IN  /\ p \in Seq(S)
               /\ Len(p) = Len(q) + 1
               /\ \A j \in 1 .. Len(p) :
                     p[j] = IF j < i THEN q[j] ELSE IF j = i THEN e ELSE q[j - 1]
  <1> DEFINE a == SubSeq(q, 1, i - 1)
             b == SubSeq(q, i, Len(q))
             c == a \o <<e>>
  <1>1. /\ a \in Seq(S) /\ Len(a) = i - 1
        /\ \A j \in 1 .. i - 1 : a[j] = q[j]
    OBVIOUS
  <1>2. /\ b \in Seq(S) /\ Len(b) = Len(q) + 1 - i
        /\ \A j \in 1 .. Len(q) + 1 - i : b[j] = q[j + (i - 1)]
    OBVIOUS
  <1> HIDE DEF a, b
  <1>3. /\ c \in Seq(S) /\ Len(c) = i
        /\ \A j \in 1 .. i : c[j] = IF j < i THEN q[j] ELSE e
    BY <1>1
  <1> HIDE DEF c
  <1>4. /\ c \o b \in Seq(S) /\ Len(c \o b) = Len(q) + 1
        /\ \A j \in 1 .. Len(c \o b) :
              (c \o b)[j] = IF j <= i THEN c[j] ELSE b[j - i]
    <2>1. /\ c \in Seq(S) /\ b \in Seq(S) /\ Len(c) = i /\ Len(b) = Len(q) + 1 - i
          /\ i \in Nat /\ Len(q) \in Nat
      BY <1>2, <1>3
    <2>2. c \o b \in Seq(S) /\ Len(c \o b) = Len(c) + Len(b)
      BY <2>1
    <2>3. \A j \in 1 .. Len(c) + Len(b) :
             (c \o b)[j] = IF j <= Len(c) THEN c[j] ELSE b[j - Len(c)]
      BY <2>1
    <2> QED BY <2>1, <2>2, <2>3
  <1>5. \A j \in 1 .. Len(q) + 1 :
              (c \o b)[j] = IF j < i THEN q[j] ELSE IF j = i THEN e ELSE q[j - 1]
    BY <1>2, <1>3, <1>4
  <1> QED
    BY <1>4, <1>5 DEF a, b, c, InsertAt

(* What a sequence is without its last element. *)
LEMMA FrontFacts ==
    ASSUME NEW S, NEW q \in Seq(S), q # << >>
    PROVE  /\ Front(q) \in Seq(S)
           /\ Len(Front(q)) = Len(q) - 1
           /\ \A j \in 1 .. Len(q) - 1 : Front(q)[j] = q[j]
  BY DEF Front

(* The elements of a sequence. *)
LEMMA InToSet ==
    ASSUME NEW S, NEW q \in Seq(S)
    PROVE  \A x : x \in ToSet(q) <=> \E i \in 1 .. Len(q) : q[i] = x
  BY DEF ToSet

(* The ordered list of nodes. *)

(* NodesByDistance.Push puts the node behind ix entries and cuts the list  *)
(* off at max.                                                             *)
LEMMA PushedFacts ==
    ASSUME NEW S, NEW list \in Seq(S), NEW n \in S, NEW max \in Nat \ {0},
           NEW ix \in 0 .. Len(list), Len(list) <= max
    PROVE  LET p == Pushed(list, n, ix, max)
           IN  /\ p \in Seq(S)
               /\ Len(p) = IF Len(list) < max THEN Len(list) + 1 ELSE Len(list)
               /\ \A j \in 1 .. Len(p) :
                     p[j] = IF j <= ix THEN list[j] ELSE IF j = ix + 1 THEN n ELSE list[j - 1]
  <1>1. CASE ix < Len(list)
    <2> DEFINE base == IF Len(list) < max THEN list ELSE Front(list)
               p == InsertAt(base, ix + 1, n)
    <2>1. Pushed(list, n, ix, max) = p
      BY <1>1 DEF Pushed
    <2>2. /\ base \in Seq(S)
          /\ Len(base) = IF Len(list) < max THEN Len(list) ELSE Len(list) - 1
          /\ \A j \in 1 .. Len(base) : base[j] = list[j]
      BY <1>1, FrontFacts
    <2> HIDE DEF base
    <2>3. ix + 1 \in 1 .. Len(base) + 1
      BY <1>1, <2>2
    <2>4. /\ p \in Seq(S)
          /\ Len(p) = Len(base) + 1
          /\ \A j \in 1 .. Len(p) :
                p[j] = IF j < ix + 1 THEN base[j]
                       ELSE IF j = ix + 1 THEN n ELSE base[j - 1]
      BY <2>2, <2>3, InsertAtFacts
    <2> HIDE DEF p
    <2>5. Len(p) = IF Len(list) < max THEN Len(list) + 1 ELSE Len(list)
      BY <2>2, <2>4
    <2>6. ASSUME NEW j \in 1 .. Len(p)
          PROVE  p[j] = IF j <= ix THEN list[j] ELSE IF j = ix + 1 THEN n ELSE list[j - 1]
      BY <2>2, <2>3, <2>4
    <2> QED BY <2>1, <2>4, <2>5, <2>6
  <1>2. CASE ix = Len(list) /\ Len(list) < max
    BY <1>2 DEF Pushed
  <1>3. CASE ix = Len(list) /\ Len(list) = max
    BY <1>3 DEF Pushed
  <1> QED BY <1>1, <1>2, <1>3

(* list is the max closest nodes of all, in order. *)
Closest(list, all, max) ==
    /\ Len(list) <= max
    /\ \A i, j \in 1 .. Len(list) : i < j => list[i] < list[j]
    /\ ToSet(list) \subseteq all
    /\ \A n \in all \ ToSet(list) :
          Len(list) = max /\ \A i \in 1 .. Len(list) : list[i] < n

(* Pushing a node that is new keeps the list the closest ones, whether it  *)
(* went in, pushed another one out or was too far.                         *)
LEMMA PushKeepsClosest ==
    ASSUME NEW S \in SUBSET Nat, NEW list \in Seq(S), NEW all \in SUBSET S,
           NEW n \in S, n \notin all, NEW max \in Nat \ {0},
           NEW ix \in 0 .. Len(list),
           Closest(list, all, max), SearchAt(list, n, ix)
    PROVE  Closest(Pushed(list, n, ix, max), all \cup {n}, max)
  <1> DEFINE p == Pushed(list, n, ix, max)
             L == Len(list)
  <1>1. /\ L \in Nat /\ L <= max
        /\ \A i \in 1 .. L : list[i] \in S /\ list[i] \in Nat /\ list[i] \in all
        /\ \A i, j \in 1 .. L : i < j => list[i] < list[j]
    <2>1. L \in Nat /\ \A i \in 1 .. L : list[i] \in S
      OBVIOUS
    <2>4. \A i \in 1 .. L : list[i] \in Nat
      BY <2>1
    <2>2. ASSUME NEW i \in 1 .. L PROVE list[i] \in all
      BY InToSet DEF Closest
    <2>3. L <= max /\ \A i, j \in 1 .. L : i < j => list[i] < list[j]
      BY DEF Closest
    <2> QED BY <2>1, <2>2, <2>3, <2>4
  <1>2. /\ p \in Seq(S)
        /\ Len(p) = IF L < max THEN L + 1 ELSE L
        /\ \A j \in 1 .. Len(p) :
              p[j] = IF j <= ix THEN list[j] ELSE IF j = ix + 1 THEN n ELSE list[j - 1]
    BY <1>1, PushedFacts
  <1> HIDE DEF p
  <1>3. /\ \A i \in 1 .. ix : list[i] < n
        /\ \A i \in ix + 1 .. L : n < list[i]
    <2>1. \A i \in 1 .. ix : list[i] <= n /\ list[i] # n
      BY <1>1 DEF SearchAt
    <2>2. ix < L => list[ix + 1] > n
      BY DEF SearchAt
    <2>3. ASSUME NEW i \in 1 .. ix PROVE list[i] < n
      <3>1. i \in 1 .. L /\ n \in Nat
        OBVIOUS
      <3>2. list[i] \in Nat
        BY <1>1, <3>1
      <3> QED BY <2>1, <3>1, <3>2
    <2>4. ASSUME NEW i \in ix + 1 .. L PROVE n < list[i]
      <3>1. i \in 1 .. L /\ ix + 1 \in 1 .. L /\ n \in Nat
        BY <1>1
      <3>2. list[i] \in Nat /\ list[ix + 1] \in Nat
        BY <1>1, <3>1
      <3>3. i = ix + 1 \/ list[ix + 1] < list[i]
        BY <1>1, <3>1
      <3>4. list[ix + 1] > n
        BY <2>2, <3>1
      <3> QED BY <3>1, <3>2, <3>3, <3>4
    <2> QED BY <2>3, <2>4
  <1>4. ASSUME NEW i \in 1 .. Len(p), NEW j \in 1 .. Len(p), i < j
        PROVE  p[i] < p[j]
    <2>1. CASE j <= ix
      <3>1. p[i] = list[i] /\ p[j] = list[j] /\ i \in 1 .. L /\ j \in 1 .. L
        BY <1>2, <1>4, <2>1
      <3> QED BY <1>1, <1>4, <3>1
    <2>2. CASE j = ix + 1
      <3>1. p[i] = list[i] /\ p[j] = n /\ i \in 1 .. ix
        BY <1>2, <1>4, <2>2
      <3> QED BY <1>3, <3>1
    <2>3. CASE j > ix + 1
      <3>1. p[j] = list[j - 1] /\ j - 1 \in ix + 1 .. L /\ j - 1 \in 1 .. L
        BY <1>1, <1>2, <2>3
      <3>2. CASE i <= ix
        <4>1. p[i] = list[i] /\ i \in 1 .. L /\ i < j - 1
          BY <1>2, <2>3, <3>2
        <4> QED BY <1>1, <3>1, <4>1
      <3>3. CASE i = ix + 1
        <4>1. p[i] = n
          BY <1>2, <3>3
        <4> QED BY <1>3, <3>1, <4>1
      <3>4. CASE i > ix + 1
        <4>1. p[i] = list[i - 1] /\ i - 1 \in 1 .. L /\ i - 1 < j - 1
          BY <1>1, <1>2, <1>4, <3>4
        <4> QED BY <1>1, <3>1, <4>1
      <3> QED BY <3>2, <3>3, <3>4
    <2> QED BY <2>1, <2>2, <2>3
  <1>5. ToSet(p) \subseteq all \cup {n}
    <2> SUFFICES ASSUME NEW j \in 1 .. Len(p) PROVE p[j] \in all \cup {n}
      BY <1>2, InToSet
    <2> QED BY <1>1, <1>2
  <1>6. ASSUME NEW m \in (all \cup {n}) \ ToSet(p)
        PROVE  Len(p) = max /\ \A i \in 1 .. Len(p) : p[i] < m
    <2>0. m \in Nat /\ \A i \in 1 .. Len(p) : p[i] # m
      BY <1>2, InToSet
    <2>1. CASE m = n
      <3>1. ~ ix + 1 \in 1 .. Len(p)
        BY <1>2, <2>0, <2>1
      <3>2. L = max /\ ix = L
        BY <1>1, <1>2, <3>1
      <3> QED BY <1>2, <1>3, <2>1, <3>2
    <2>2. CASE m \in ToSet(list)
      <3>1. PICK k \in 1 .. L : list[k] = m
        BY <2>2, InToSet
      <3>2. CASE k <= ix
        <4>1. k \in 1 .. Len(p) /\ p[k] = list[k]
          BY <1>1, <1>2, <3>2
        <4> QED BY <2>0, <3>1, <4>1
      <3>3. CASE k > ix
        <4>1. ~ k + 1 \in 1 .. Len(p)
          <5> SUFFICES ASSUME k + 1 \in 1 .. Len(p) PROVE FALSE
            OBVIOUS
          <5>1. p[k + 1] = list[k]
            BY <1>2, <3>3
          <5> QED BY <2>0, <3>1, <5>1
        <4>2. L = max /\ k = L
          BY <1>1, <1>2, <4>1
        <4>3. ASSUME NEW i \in 1 .. L PROVE p[i] < list[L]
          <5>1. CASE i <= ix
            BY <1>1, <1>2, <3>3, <4>2, <5>1
          <5>2. CASE i = ix + 1
            <6>1. p[i] = n /\ L \in ix + 1 .. L
              BY <1>1, <1>2, <3>3, <4>2, <5>2
            <6> QED BY <1>3, <6>1
          <5>3. CASE i > ix + 1
            <6>1. p[i] = list[i - 1] /\ i - 1 \in 1 .. L /\ L \in 1 .. L /\ i - 1 < L
              BY <1>1, <1>2, <4>2, <5>3
            <6> QED BY <1>1, <6>1
          <5> QED BY <5>1, <5>2, <5>3
        <4> QED BY <1>2, <3>1, <4>2, <4>3
      <3> QED BY <3>2, <3>3
    <2>3. CASE m # n /\ m \notin ToSet(list)
      <3>1. L = max /\ \A i \in 1 .. L : list[i] < m
        BY <2>3 DEF Closest
      <3>2. \A i \in 1 .. L : p[i] < m
        BY <1>1, <1>2, <1>3, <2>0, <3>1, SMTT(30)
      <3> QED BY <1>2, <3>1, <3>2
    <2> QED BY <2>1, <2>2, <2>3
  <1>7. Len(p) <= max
    BY <1>1, <1>2
  <1> QED BY <1>4, <1>5, <1>6, <1>7 DEF Closest, p

-----------------------------------------------------------------------------
(* The steps. *)
USE DEF control, merged, channel, goVars

(* What a push does to the result. *)
LEMMA PushStep ==
    ASSUME TypeOK, ResultIsClosest, NEW n \in Nodes, n \notin seen, Push(n),
           seen' = seen \cup {n}
    PROVE  result' \in Seq(Nodes) /\ ResultIsClosest'
  <1>1. PICK ix \in 0 .. Len(result) :
           SearchAt(result, n, ix) /\ result' = Pushed(result, n, ix, wants)
    BY DEF Push
  <1>2. /\ Nodes \in SUBSET Nat /\ wants \in Nat \ {0}
        /\ result \in Seq(Nodes) /\ seen \in SUBSET Nodes
    BY LookupAssumption DEF TypeOK
  <1>3. Closest(result, seen, wants)
    BY DEF ResultIsClosest, Closest
  <1>4. Closest(Pushed(result, n, ix, wants), seen \cup {n}, wants)
    BY <1>1, <1>2, <1>3, PushKeepsClosest
  <1>5. Closest(result', seen', wants)
    BY <1>1, <1>4
  <1>6. Len(result) <= wants
    BY <1>3 DEF Closest
  <1>7. Pushed(result, n, ix, wants) \in Seq(Nodes)
    BY <1>2, <1>6, PushedFacts
  <1> QED BY <1>1, <1>5, <1>7 DEF ResultIsClosest, Closest

(* A merged node is pushed only if it is new. *)
LEMMA MergeStep ==
    ASSUME TypeOK, BufferInv, ResultIsClosest, NEW n \in todo, MergeNode(n)
    PROVE  result' \in Seq(Nodes) /\ ResultIsClosest'
  <1>1. n \in Nodes /\ seen' = seen \cup {n}
    BY DEF TypeOK, MergeNode
  <1>2. CASE n \in seen
    <2>1. UNCHANGED <<result, seen>>
      BY <1>1, <1>2 DEF MergeNode, BufferInv
    <2> QED BY <2>1 DEF TypeOK, ResultIsClosest
  <1>3. CASE n \notin seen
    <2>1. Push(n)
      BY <1>3 DEF MergeNode
    <2> QED BY <1>1, <1>3, <2>1, PushStep
  <1> QED BY <1>2, <1>3

(* Every step keeps the result the closest of what was seen. *)
LEMMA ClosestStep ==
    ASSUME TypeOK, BufferInv, ResultIsClosest, [Next]_vars
    PROVE  ResultIsClosest'
  <1>1. ASSUME NEW n \in todo, MergeNode(n) PROVE ResultIsClosest'
    BY <1>1, MergeStep
  <1>2. CASE UNCHANGED <<result, seen>>
    BY <1>2 DEF ResultIsClosest
  <1>3. Main /\ ~ (\E n \in todo : MergeNode(n)) => UNCHANGED <<result, seen>>
    BY DEF Main, StartRound, CanAsk, TakeSlot, Abandon, Launch, NoMoreCandidates, EndRound
  <1>4. Cancel \/ (\E n \in Nodes : Go(n)) \/ UNCHANGED vars => UNCHANGED <<result, seen>>
    BY DEF Cancel, Go, QueryFails, QueryAnswers, GiveBack, CountDelivery, CloseSlots, vars
  <1> QED BY <1>1, <1>2, <1>3, <1>4 DEF Next

(* Every step keeps the types. *)
LEMMA TypeStep ==
    ASSUME TypeOK, WalkInv, BufferInv, ResultIsClosest, [Next]_vars
    PROVE  TypeOK'
  <1> USE DEF TypeOK
  <1>1. ASSUME NEW n \in todo, MergeNode(n) PROVE TypeOK'
    <2>1. result' \in Seq(Nodes)
      BY <1>1, MergeStep
    <2> QED BY <1>1, <2>1 DEF MergeNode
  <1>2. CASE StartRound
    <2>1. g' \in [Nodes -> GoState]
      BY <1>2 DEF StartRound, GoState
    <2>2. slots' \in Nat /\ depth' \in Nat /\ success' \in Nat
      BY <1>2, LookupAssumption DEF StartRound
    <2> QED BY <1>2, <2>1, <2>2 DEF StartRound
  <1>3. CASE CanAsk
    <2>1. Head(cands) \in Nodes /\ Tail(cands) \in Seq(Nodes)
      BY <1>3 DEF CanAsk
    <2> QED BY <1>3, <2>1 DEF CanAsk
  <1>4. CASE TakeSlot
    BY <1>4 DEF TakeSlot
  <1>5. CASE Abandon
    BY <1>5 DEF Abandon
  <1>6. CASE Launch
    <2>1. cands # << >>
      BY <1>6 DEF Launch, WalkInv
    <2>2. Head(cands) \in Nodes /\ Tail(cands) \in Seq(Nodes)
      BY <2>1
    <2>3. [g EXCEPT ![Head(cands)] = "query"] \in [Nodes -> GoState]
      BY <2>2 DEF GoState
    <2> QED BY <1>6, <2>2, <2>3 DEF Launch
  <1>7. CASE NoMoreCandidates \/ EndRound
    BY <1>7 DEF NoMoreCandidates, EndRound
  <1>8. CASE Cancel
    BY <1>8 DEF Cancel
  <1>9. ASSUME NEW n \in Nodes, Go(n) PROVE TypeOK'
    <2>1. g' \in [Nodes -> GoState]
      BY <1>9 DEF Go, QueryFails, QueryAnswers, GiveBack, CountDelivery, CloseSlots, GoState
    <2>2. slots' \in Nat /\ success' \in Nat
      BY <1>9 DEF Go, QueryFails, QueryAnswers, GiveBack, CountDelivery, CloseSlots
    <2>3. closed' \in BOOLEAN
      <3>1. closed' = closed \/ closed' = TRUE
        BY <1>9, Zenon DEF Go, QueryFails, QueryAnswers, GiveBack, CountDelivery, CloseSlots
      <3> QED BY <3>1
    <2>4. buffer' \subseteq Nodes
      BY <1>9 DEF Go, QueryFails, QueryAnswers, GiveBack, CountDelivery, CloseSlots
    <2>5. UNCHANGED goVars
      BY <1>9 DEF Go, QueryFails, QueryAnswers, GiveBack, CountDelivery, CloseSlots
    <2> QED BY <2>1, <2>2, <2>3, <2>4, <2>5
  <1>10. CASE UNCHANGED vars
    BY <1>10 DEF vars
  <1> QED BY <1>1, <1>2, <1>3, <1>4, <1>5, <1>6, <1>7, <1>8, <1>9, <1>10 DEF Next, Main

(* Every step keeps the marks of the walk. *)
LEMMA WalkStep == ASSUME TypeOK, WalkInv, [Next]_vars PROVE WalkInv'
  <1> USE DEF WalkInv
  <1>1. CASE StartRound
    BY <1>1 DEF StartRound
  <1>2. CASE CanAsk
    <2>1. Head(cands) \in Nodes
      BY <1>2 DEF CanAsk, TypeOK
    <2> QED BY <1>2, <2>1 DEF CanAsk
  <1>3. CASE TakeSlot
    BY <1>3 DEF TakeSlot
  <1>4. CASE Launch
    <2>1. g \in [Nodes -> GoState]
      BY DEF TypeOK
    <2> QED BY <1>4, <2>1 DEF Launch
  <1>5. CASE NoMoreCandidates
    BY <1>5 DEF NoMoreCandidates
  <1>6. CASE UNCHANGED <<pc, cands, g, asked>>
    BY <1>6
  <1>7. ASSUME NEW n \in Nodes, Go(n) PROVE WalkInv'
    <2>1. g \in [Nodes -> GoState] /\ UNCHANGED <<pc, cands, asked>> /\ g[n] # "none"
      BY <1>7 DEF Go, QueryFails, QueryAnswers, GiveBack, CountDelivery, CloseSlots, TypeOK
    <2>2. \A m \in Nodes : m # n => g'[m] = g[m]
      BY <1>7, <2>1 DEF Go, QueryFails, QueryAnswers, GiveBack, CountDelivery, CloseSlots
    <2>3. \A m \in Nodes : g'[m] # "none" => m \in asked'
      BY <2>1, <2>2
    <2>4. ASSUME pc \in {"acquire", "check"} PROVE g'[Head(cands)] = "none"
      <3>1. Head(cands) \in Nodes
        BY <2>4 DEF TypeOK
      <3> QED BY <2>1, <2>2, <2>4, <3>1
    <2> QED BY <2>1, <2>3, <2>4
  <1>8. (\E n \in todo : MergeNode(n)) \/ Abandon \/ EndRound \/ Cancel \/ UNCHANGED vars
           => UNCHANGED <<pc, cands, g, asked>>
    BY DEF MergeNode, Abandon, EndRound, Cancel, vars
  <1> QED BY <1>1, <1>2, <1>3, <1>4, <1>5, <1>6, <1>7, <1>8 DEF Next, Main

-----------------------------------------------------------------------------
(* Tokens. *)

(* What the cardinality of Busy is worth. *)
LEMMA BusyFinite ==
    /\ IsFiniteSet(Busy) /\ Cardinality(Busy) \in Nat
    /\ \A n \in Busy : Cardinality(Busy) > 0
  <1>1. IsFiniteSet(Busy) /\ Cardinality(Busy) \in Nat
    BY LookupAssumption, FS_Subset, FS_CardinalityType DEF Busy
  <1>2. Busy # {} => Cardinality(Busy) # 0
    BY <1>1, FS_EmptySet
  <1> QED BY <1>1, <1>2

(* A goroutine's last step with its token. *)
LEMMA BusyLeaves ==
    ASSUME TypeOK, NEW n \in Busy, NEW s \in {"close", "exit"},
           g' = [g EXCEPT ![n] = s]
    PROVE  Cardinality(Busy') = Cardinality(Busy) - 1
  <1>1. Busy' = Busy \ {n}
    BY DEF Busy, TypeOK
  <1> QED BY <1>1, BusyFinite, FS_RemoveElement

(* Every step keeps the tokens. *)
LEMMA TokenStep ==
    ASSUME TypeOK, WalkInv, TokenInv, CloseInv, [Next]_vars PROVE TokenInv'
  <1> USE BusyFinite, LookupAssumption
  <1>0. slots \in Nat /\ success \in Nat /\ g \in [Nodes -> GoState] /\ alpha \in Nat
    BY DEF TypeOK
  <1>1. CASE UNCHANGED <<slots, success, pc, g>>
    <2>1. Busy' = Busy
      BY <1>1 DEF Busy
    <2> QED BY <1>1, <2>1 DEF TokenInv, Held
  <1>2. CASE StartRound
    <2>1. CASE depth = 0
      <3>1. UNCHANGED <<slots, success, pc, g>>
        BY <1>2, <2>1 DEF StartRound
      <3> QED BY <1>1, <3>1
    <2>2. CASE depth # 0
      <3>1. slots' = alpha /\ success' = 0 /\ pc' = "next"
            /\ g' = [n \in Nodes |-> "none"]
        BY <1>2, <2>2 DEF StartRound
      <3>2. Busy' = {}
        BY <3>1 DEF Busy
      <3>3. Cardinality(Busy') = 0
        BY <3>2, FS_EmptySet
      <3> QED BY <1>0, <3>1, <3>3 DEF TokenInv, Held
    <2> QED BY <2>1, <2>2
  <1>3. CASE CanAsk \/ NoMoreCandidates
    <2>1. UNCHANGED <<slots, success, g>> /\ pc # "check" /\ pc' # "check"
      BY <1>3 DEF CanAsk, NoMoreCandidates
    <2>2. Busy' = Busy
      BY <2>1 DEF Busy
    <2> QED BY <2>1, <2>2 DEF TokenInv, Held
  <1>4. CASE TakeSlot
    <2>1. Busy' = Busy
      BY <1>4 DEF TakeSlot, Busy
    <2>2. CASE slots > 0
      BY <1>0, <1>4, <2>1, <2>2 DEF TakeSlot, TokenInv, Held
    <2>3. CASE slots = 0
      <3>1. success = alpha
        BY <1>4, <2>3 DEF TakeSlot, CloseInv
      <3> QED BY <1>0, <1>4, <2>1, <2>3, <3>1 DEF TakeSlot, TokenInv, Held
    <2> QED BY <1>0, <2>2, <2>3
  <1>5. CASE Launch
    <2>1. CASE success = alpha
      <3>1. Busy' = Busy
        BY <1>5, <2>1 DEF Launch, Busy
      <3> QED BY <1>5, <2>1, <3>1 DEF Launch, TokenInv, Held
    <2>2. CASE success # alpha
      <3>1. Head(cands) \in Nodes /\ g[Head(cands)] = "none"
        BY <1>5 DEF Launch, WalkInv, TypeOK
      <3>2. g' = [g EXCEPT ![Head(cands)] = "query"] /\ pc = "check" /\ pc' = "next"
            /\ UNCHANGED <<slots, success>>
        BY <1>5, <2>2 DEF Launch
      <3>3. Head(cands) \notin Busy /\ Busy' = Busy \cup {Head(cands)}
        BY <1>0, <3>1, <3>2 DEF Busy
      <3>4. Cardinality(Busy') = Cardinality(Busy) + 1
        BY <3>3, FS_AddElement
      <3> QED BY <1>0, <2>2, <3>2, <3>4 DEF TokenInv, Held
    <2> QED BY <2>1, <2>2
  <1>6. ASSUME NEW n \in Nodes, QueryFails(n) \/ \E S \in SUBSET Nodes : QueryAnswers(n, S)
        PROVE  TokenInv'
    <2>1. Busy' = Busy /\ UNCHANGED <<slots, success, pc>>
      BY <1>0, <1>6 DEF QueryFails, QueryAnswers, Busy
    <2> QED BY <2>1 DEF TokenInv, Held
  <1>7. ASSUME NEW n \in Nodes, GiveBack(n) PROVE TokenInv'
    <2>1. n \in Busy /\ g' = [g EXCEPT ![n] = "exit"] /\ slots' = slots + 1
          /\ UNCHANGED <<success, pc>>
      BY <1>7 DEF GiveBack, Busy
    <2>2. Cardinality(Busy') = Cardinality(Busy) - 1
      BY <2>1, BusyLeaves
    <2> QED BY <1>0, <2>1, <2>2 DEF TokenInv, Held
  <1>8. ASSUME NEW n \in Nodes, CountDelivery(n) PROVE TokenInv'
    <2>1. n \in Busy /\ success' = success + 1 /\ UNCHANGED <<slots, pc>>
      BY <1>8 DEF CountDelivery, Busy
    <2>2. PICK s \in {"close", "exit"} : g' = [g EXCEPT ![n] = s]
      BY <1>8 DEF CountDelivery
    <2>3. Cardinality(Busy') = Cardinality(Busy) - 1
      BY <2>1, <2>2, BusyLeaves
    <2> QED BY <1>0, <2>1, <2>3 DEF TokenInv, Held
  <1>9. ASSUME NEW n \in Nodes, CloseSlots(n) PROVE TokenInv'
    <2>1. Busy' = Busy /\ UNCHANGED <<slots, success, pc>>
      BY <1>0, <1>9 DEF CloseSlots, Busy
    <2> QED BY <2>1 DEF TokenInv, Held
  <1>10. (\E n \in todo : MergeNode(n)) \/ Abandon \/ EndRound \/ Cancel \/ UNCHANGED vars
            => UNCHANGED <<slots, success, pc, g>>
    BY DEF MergeNode, Abandon, EndRound, Cancel, vars
  <1> QED BY <1>1, <1>2, <1>3, <1>4, <1>5, <1>6, <1>7, <1>8, <1>9, <1>10
          DEF Next, Main, Go

(* Every step keeps the channel closed once. *)
LEMMA CloseStep ==
    ASSUME TypeOK, TokenInv, CloseInv, [Next]_vars PROVE CloseInv'
  <1> USE DEF CloseInv, In
  <1>0. slots \in Nat /\ success \in Nat /\ g \in [Nodes -> GoState] /\ alpha \in Nat
        /\ alpha # 0
    BY LookupAssumption DEF TypeOK
  <1>1. CASE UNCHANGED <<closed, success, g>>
    BY <1>1
  <1>2. CASE StartRound
    BY <1>2 DEF StartRound
  <1>3. CASE Launch
    <2>1. \A n \in Nodes : g'[n] = "close" => g[n] = "close"
      BY <1>0, <1>3 DEF Launch
    <2>2. UNCHANGED <<closed, success>>
      BY <1>3 DEF Launch
    <2> QED BY <2>1, <2>2
  <1>4. ASSUME NEW n \in Nodes, QueryFails(n) \/ (\E S \in SUBSET Nodes : QueryAnswers(n, S))
                                 \/ GiveBack(n)
        PROVE  CloseInv'
    <2>1. \A m \in Nodes : g'[m] = "close" => g[m] = "close"
      BY <1>0, <1>4 DEF QueryFails, QueryAnswers, GiveBack
    <2>2. UNCHANGED <<closed, success>>
      BY <1>4 DEF QueryFails, QueryAnswers, GiveBack
    <2> QED BY <2>1, <2>2
  <1>5. ASSUME NEW n \in Nodes, CountDelivery(n) PROVE CloseInv'
    <2>1. success < alpha
      <3>1. n \in Busy /\ Held >= 0 /\ Held \in Nat
        BY <1>5 DEF CountDelivery, Busy, Held
      <3> QED BY <1>0, <3>1, BusyFinite DEF TokenInv
    <2>2. ~ closed /\ \A m \in Nodes : g[m] # "close"
      BY <1>0, <2>1
    <2>3. \A m \in Nodes : g'[m] = "close" => m = n /\ success' = alpha
      BY <1>0, <1>5, <2>2 DEF CountDelivery
    <2>4. closed' = closed
      BY <1>5 DEF CountDelivery
    <2> QED BY <2>2, <2>3, <2>4
  <1>6. ASSUME NEW n \in Nodes, CloseSlots(n) PROVE CloseInv'
    <2>1. g[n] = "close" /\ success' = success
      BY <1>6 DEF CloseSlots
    <2>2. \A m \in Nodes : g'[m] # "close"
      BY <1>0, <1>6, <2>1 DEF CloseSlots
    <2> QED BY <2>1, <2>2
  <1>7. (\E n \in todo : MergeNode(n)) \/ CanAsk \/ TakeSlot \/ Abandon \/ NoMoreCandidates
        \/ EndRound \/ Cancel \/ UNCHANGED vars => UNCHANGED <<closed, success, g>>
    BY DEF MergeNode, CanAsk, TakeSlot, Abandon, NoMoreCandidates, EndRound, Cancel, vars
  <1> QED BY <1>1, <1>2, <1>3, <1>4, <1>5, <1>6, <1>7 DEF Next, Main, Go

(* Every step keeps the deliveries. *)
LEMMA BufferStep == ASSUME TypeOK, BufferInv, [Next]_vars PROVE BufferInv'
  <1> USE DEF BufferInv
  <1>1. ASSUME NEW n \in todo, MergeNode(n) PROVE BufferInv'
    BY <1>1 DEF MergeNode, InFlight
  <1>2. CASE StartRound \/ Abandon
    BY <1>2 DEF StartRound, Abandon
  <1>3. CASE CanAsk \/ TakeSlot \/ Launch \/ NoMoreCandidates
    <2>1. phase = "round" /\ phase' = "round"
      BY <1>3 DEF CanAsk, TakeSlot, Launch, NoMoreCandidates
    <2> QED BY <2>1
  <1>4. CASE EndRound
    BY <1>4 DEF EndRound, InFlight
  <1>5. CASE Cancel \/ UNCHANGED vars
    BY <1>5 DEF Cancel, vars, InFlight
  <1>6. ASSUME NEW n \in Nodes, Go(n) PROVE BufferInv'
    <2>1. n \in InFlight /\ phase' = phase
      BY <1>6 DEF Go, QueryFails, QueryAnswers, GiveBack, CountDelivery, CloseSlots, InFlight
    <2> QED BY <2>1
  <1> QED BY <1>1, <1>2, <1>3, <1>4, <1>5, <1>6 DEF Next, Main

-----------------------------------------------------------------------------
(* The lookup keeps the inductive invariant Inv. *)
THEOREM LookupInvariant == Spec => []Inv
  <1>1. Init => Inv
    <2> SUFFICES ASSUME Init PROVE Inv
      OBVIOUS
    <2>1. TypeOK
      <3>1. g \in [Nodes -> GoState]
        BY DEF Init, GoState
      <3>2. result \in Seq(Nodes) /\ cands \in Seq(Nodes)
        BY DEF Init
      <3> QED BY <3>1, <3>2, LookupAssumption DEF Init, TypeOK
    <2>2. WalkInv /\ CloseInv /\ BufferInv
      BY LookupAssumption DEF Init, WalkInv, CloseInv, BufferInv, In, InFlight
    <2>3. TokenInv
      <3>1. Busy = {}
        BY DEF Init, Busy
      <3>2. Cardinality(Busy) = 0
        BY <3>1, FS_EmptySet
      <3> QED BY <3>2, LookupAssumption DEF Init, TokenInv, Held
    <2>4. ResultIsClosest
      <3>1. Len(result) = 0 /\ ToSet(result) = {} /\ seen = {} /\ wants \in Nat
        BY LookupAssumption DEF Init, ToSet
      <3> QED BY <3>1 DEF ResultIsClosest
    <2> QED BY <2>1, <2>2, <2>3, <2>4 DEF Inv
  <1>2. Inv /\ [Next]_vars => Inv'
    BY TypeStep, WalkStep, TokenStep, CloseStep, BufferStep, ClosestStep DEF Inv
  <1> QED BY <1>1, <1>2, PTL DEF Spec

(* The channel is never sent to when it is closed or full, is closed once, *)
(* and at most alpha queries are in flight.                                *)
THEOREM TokensAreSafe == Spec => []SlotsAreSafe
  <1>1. Inv => SlotsAreSafe
    <2> SUFFICES ASSUME Inv PROVE SlotsAreSafe
      OBVIOUS
    <2>0. slots \in Nat /\ success \in Nat /\ Held \in Nat /\ alpha \in Nat \ {0}
      BY LookupAssumption DEF Inv, TypeOK, Held
    <2>1. ASSUME NEW n \in Busy PROVE ~ closed /\ slots < alpha /\ success < alpha
      <3>1. slots < alpha /\ success < alpha
        BY <2>0, BusyFinite DEF Inv, TokenInv
      <3> QED BY <2>0, <3>1 DEF Inv, CloseInv
    <2>2. \A n \in In("giveback") : ~ closed /\ slots < alpha
      BY <2>1 DEF In, Busy
    <2>3. \A n \in In("close") : ~ closed
      BY DEF Inv, CloseInv
    <2>4. Cardinality(InFlight) <= alpha
      <3>1. InFlight = Busy \cup In("close")
        BY DEF InFlight, Busy, In, Inv, TypeOK, GoState
      <3>2. CASE In("close") = {}
        <4>1. InFlight = Busy
          BY <3>1, <3>2
        <4> QED BY <2>0, <4>1, BusyFinite DEF Inv, TokenInv
      <3>3. ASSUME NEW n \in In("close") PROVE Cardinality(InFlight) <= alpha
        <4>1. Busy = {}
          BY <2>0, <2>1, <3>3 DEF Inv, CloseInv
        <4>2. InFlight = {n}
          BY <3>1, <3>3, <4>1 DEF Inv, CloseInv
        <4>3. Cardinality(InFlight) = 1
          BY <4>2, FS_Singleton
        <4> QED BY <2>0, <4>3
      <3> QED BY <3>2, <3>3
    <2> QED BY <2>2, <2>3, <2>4 DEF SlotsAreSafe
  <1> QED BY <1>1, LookupInvariant, PTL

(* The result is the wants closest of all nodes that were seen, in order.  *)
THEOREM LookupFindsClosest == Spec => []ResultIsClosest
  <1>1. Inv => ResultIsClosest
    BY DEF Inv
  <1> QED BY <1>1, LookupInvariant, PTL

(* slide() clears no delivery that was not merged. *)
THEOREM NoDeliveryIsLost == Spec => DeliveriesAreMerged
  <1>1. Inv /\ [Next]_vars => [buffer \ buffer' \subseteq seen]_vars
    <2> SUFFICES ASSUME Inv, Next PROVE buffer \ buffer' \subseteq seen
      OBVIOUS
    <2>1. CASE StartRound
      BY <2>1 DEF StartRound, Inv, BufferInv
    <2>2. ~ StartRound => buffer \subseteq buffer'
      BY DEF Next, Main, MergeNode, CanAsk, TakeSlot, Abandon, Launch, NoMoreCandidates,
             EndRound, Cancel, Go, QueryFails, QueryAnswers, GiveBack, CountDelivery,
             CloseSlots
    <2> QED BY <2>1, <2>2
  <1> QED BY <1>1, LookupInvariant, PTL DEF Spec, DeliveriesAreMerged
=============================================================================
