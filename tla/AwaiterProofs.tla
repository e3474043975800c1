--------------------------- MODULE AwaiterProofs ---------------------------
(***************************************************************************)
(* Proofs about Awaiter, for every set of requests, peers and kinds and    *)
(* every value of the bounds.                                              *)
(***************************************************************************)
EXTENDS Awaiter, TLAPS

(* What removing one element of a sequence leaves. *)
LEMMA RemoveAtFacts ==
    ASSUME NEW S, NEW q \in Seq(S), NEW i \in 1 .. Len(q)
    PROVE  LET p == RemoveAt(q, i)
           IN  /\ p \in Seq(S)
               /\ Len(p) = Len(q) - 1
               /\ \A j \in 1 .. Len(p) : p[j] = IF j < i THEN q[j] ELSE q[j + 1]
  <1> DEFINE a == SubSeq(q, 1, i - 1)
             b == SubSeq(q, i + 1, Len(q))
  <1>1. /\ a \in Seq(S) /\ Len(a) = i - 1
        /\ \A j \in 1 .. i - 1 : a[j] = q[j]
    OBVIOUS
  <1>2. /\ b \in Seq(S) /\ Len(b) = Len(q) - i
        /\ \A j \in 1 .. Len(q) - i : b[j] = q[j + i]
    OBVIOUS
  <1> HIDE DEF a, b
  <1>3. /\ a \o b \in Seq(S) /\ Len(a \o b) = Len(q) - 1
        /\ \A j \in 1 .. Len(a \o b) :
              (a \o b)[j] = IF j < i THEN a[j] ELSE b[j - (i - 1)]
    BY <1>1, <1>2
  <1>4. \A j \in 1 .. Len(q) - 1 :
              (a \o b)[j] = IF j < i THEN q[j] ELSE q[j + 1]
    BY <1>1, <1>2, <1>3
  <1> QED
    BY <1>3, <1>4 DEF a, b, RemoveAt

(* No request is twice in the queue. *)
NoDuplicates ==
    \A i, j \in 1 .. Len(queue) : queue[i] = queue[j] => i = j

(* A request that is taken out leaves the others as they are. *)
LEMMA RemoveQueued ==
    ASSUME queue \in Seq(Requests), NoDuplicates,
           NEW i \in 1 .. Len(queue), Dequeue(i)
    PROVE  /\ queue' \in Seq(Requests)
           /\ NoDuplicates'
           /\ \A r : Queued(r)' <=> Queued(r) /\ r # queue[i]
  <1>1. /\ queue' \in Seq(Requests)
        /\ Len(queue') = Len(queue) - 1
        /\ \A j \in 1 .. Len(queue') :
              queue'[j] = IF j < i THEN queue[j] ELSE queue[j + 1]
    BY RemoveAtFacts DEF Dequeue
  <1> DEFINE at(j) == IF j < i THEN j ELSE j + 1
  <1>5. \A j \in 1 .. Len(queue') :
           /\ at(j) \in 1 .. Len(queue) /\ at(j) # i
           /\ queue'[j] = queue[at(j)]
    BY <1>1
  <1>6. \A x, y \in 1 .. Len(queue') : at(x) = at(y) => x = y
    BY <1>1
  <1> HIDE DEF at
  <1>2. NoDuplicates'
    <2>1. ASSUME NEW x \in 1 .. Len(queue'), NEW y \in 1 .. Len(queue'),
                 queue'[x] = queue'[y]
          PROVE  x = y
      <3>1. queue[at(x)] = queue[at(y)]
        BY <1>5, <2>1, Zenon
      <3>2. at(x) \in 1 .. Len(queue) /\ at(y) \in 1 .. Len(queue)
        BY <1>5, Zenon
      <3>3. at(x) = at(y)
        BY <3>1, <3>2, Zenon DEF NoDuplicates
      <3> QED BY <3>3, <1>6, Zenon
    <2> QED BY <2>1, Zenon DEF NoDuplicates
  <1>3. ASSUME NEW r, Queued(r)'
        PROVE  Queued(r) /\ r # queue[i]
    <2>1. PICK j \in 1 .. Len(queue') : queue'[j] = r
      BY <1>3 DEF Queued, Contains
    <2>2. at(j) \in 1 .. Len(queue) /\ at(j) # i /\ queue[at(j)] = r
      BY <1>5, <2>1, Zenon
    <2> QED BY <2>2, Zenon DEF Queued, Contains, NoDuplicates
  <1>4. ASSUME NEW r, Queued(r), r # queue[i]
        PROVE  Queued(r)'
    <2>1. PICK j \in 1 .. Len(queue) : queue[j] = r
      BY <1>4 DEF Queued, Contains
    <2>2. CASE j < i
      BY <1>1, <2>1, <2>2 DEF Queued, Contains
    <2>3. CASE j > i
      <3>1. j - 1 \in 1 .. Len(queue') /\ queue'[j - 1] = queue[j]
        BY <1>1, <2>1, <2>3
      <3> QED BY <3>1, <2>1 DEF Queued, Contains
    <2> QED BY <2>1, <2>2, <2>3, <1>4
  <1> QED BY <1>1, <1>2, <1>3, <1>4

(* The elements a sweep that stops after position k takes out. *)
Swept(k) == {queue[j] : j \in 2 .. k} \cup {r \in {queue[1]} : Expired(r)}

(* A sweep leaves the requests it does not take out. *)
LEMMA SweepQueued ==
    ASSUME queue \in Seq(Requests), NoDuplicates, NEW k \in 1 .. Len(queue),
           LET rest == SubSeq(queue, k + 1, Len(queue))
           IN  queue' = IF Expired(queue[1]) THEN rest ELSE <<queue[1]>> \o rest
    PROVE  /\ queue' \in Seq(Requests)
           /\ NoDuplicates'
           /\ \A r : Queued(r)' <=> Queued(r) /\ r \notin Swept(k)
  <1> DEFINE b == SubSeq(queue, k + 1, Len(queue))
  <1>1. /\ b \in Seq(Requests) /\ Len(b) = Len(queue) - k
        /\ \A j \in 1 .. Len(queue) - k : b[j] = queue[j + k]
    OBVIOUS
  <1> HIDE DEF b
  <1>2. CASE Expired(queue[1])
    <2>1. queue' = b
      BY <1>2 DEF b
    <2>5. /\ queue' \in Seq(Requests) /\ Len(queue') = Len(queue) - k
          /\ \A j \in 1 .. Len(queue) - k : queue'[j] = queue[j + k]
      BY <1>1, <2>1
    <2>2. NoDuplicates'
      <3>1. ASSUME NEW x \in 1 .. Len(queue'), NEW y \in 1 .. Len(queue'),
                   queue'[x] = queue'[y]
            PROVE  x = y
        <4>1. /\ x + k \in 1 .. Len(queue) /\ y + k \in 1 .. Len(queue)
              /\ queue[x + k] = queue[y + k]
          BY <2>5, <3>1
        <4>2. x + k = y + k
          BY <4>1, Zenon DEF NoDuplicates
        <4> QED BY <4>2
      <3> QED BY <3>1, Zenon DEF NoDuplicates
    <2>3. ASSUME NEW r, Queued(r)' PROVE Queued(r) /\ r \notin Swept(k)
      <3>1. PICK j \in 1 .. Len(queue) - k : queue[j + k] = r
        BY <2>5, <2>3 DEF Queued, Contains
      <3>2. j + k \in 1 .. Len(queue) /\ j + k # 1
        OBVIOUS
      <3>3. \A i \in 1 .. k : queue[i] # r
        BY <3>1, <3>2 DEF NoDuplicates
      <3> QED BY <3>1, <3>2, <3>3 DEF Queued, Contains, Swept
    <2>4. ASSUME NEW r, Queued(r), r \notin Swept(k) PROVE Queued(r)'
      <3>1. PICK j \in 1 .. Len(queue) : queue[j] = r
        BY <2>4 DEF Queued, Contains
      <3>2. j > k
        BY <3>1, <2>4, <1>2 DEF Swept
      <3>3. j - k \in 1 .. Len(queue') /\ queue'[j - k] = r
        BY <2>5, <3>1, <3>2
      <3> QED BY <3>3 DEF Queued, Contains
    <2> QED BY <2>2, <2>3, <2>4, <2>5
  <1>3. CASE ~ Expired(queue[1])
    <2>1. /\ queue' \in Seq(Requests)
          /\ Len(queue') = Len(queue) - k + 1
          /\ queue'[1] = queue[1]
          /\ \A j \in 2 .. Len(queue) - k + 1 : queue'[j] = queue[j - 1 + k]
      <3>1. queue' = <<queue[1]>> \o b /\ queue[1] \in Requests
        BY <1>3 DEF b
      <3> QED BY <3>1, <1>1
    <2>2. NoDuplicates'
      <3> DEFINE at(j) == IF j = 1 THEN 1 ELSE j - 1 + k
      <3>1. \A j \in 1 .. Len(queue') :
               at(j) \in 1 .. Len(queue) /\ queue'[j] = queue[at(j)]
        BY <2>1
      <3>2. \A i, j \in 1 .. Len(queue') : at(i) = at(j) => i = j
        BY <2>1
      <3> HIDE DEF at
      <3>3. ASSUME NEW i \in 1 .. Len(queue'), NEW j \in 1 .. Len(queue'),
                   queue'[i] = queue'[j]
            PROVE  i = j
        <4>2. queue[at(i)] = queue[at(j)]
          BY <3>1, <3>3, Zenon
        <4>3. at(i) \in 1 .. Len(queue) /\ at(j) \in 1 .. Len(queue)
          BY <3>1, Zenon
        <4>1. at(i) = at(j)
          BY <4>2, <4>3, Zenon DEF NoDuplicates
        <4> QED BY <4>1, <3>2
      <3> QED BY <3>3 DEF NoDuplicates
    <2>3. ASSUME NEW r, Queued(r)' PROVE Queued(r) /\ r \notin Swept(k)
      <3>1. PICK j \in 1 .. Len(queue) - k + 1 : queue'[j] = r
        BY <2>1, <2>3 DEF Queued, Contains
      <3>2. CASE j = 1
        <4>1. r = queue[1] /\ 1 \in 1 .. Len(queue)
          BY <2>1, <3>1, <3>2
        <4>2. \A i \in 2 .. k : queue[i] # r
          BY <4>1 DEF NoDuplicates
        <4> QED BY <4>1, <4>2, <1>3 DEF Queued, Contains, Swept
      <3>3. CASE j # 1
        <4>1. j - 1 + k \in k + 1 .. Len(queue) /\ queue[j - 1 + k] = r
          BY <2>1, <3>1, <3>3
        <4>2. \A i \in 1 .. k : queue[i] # r
          BY <4>1 DEF NoDuplicates
        <4> QED BY <4>1, <4>2 DEF Queued, Contains, Swept
      <3> QED BY <3>2, <3>3
    <2>4. ASSUME NEW r, Queued(r), r \notin Swept(k) PROVE Queued(r)'
      <3>1. PICK j \in 1 .. Len(queue) : queue[j] = r
        BY <2>4 DEF Queued, Contains
      <3>2. CASE j = 1
        <4>1. 1 \in 1 .. Len(queue') /\ queue'[1] = r
          BY <2>1, <3>1, <3>2
        <4> QED BY <4>1 DEF Queued, Contains
      <3>3. CASE j # 1
        <4>1. j > k
          BY <3>1, <3>3, <2>4 DEF Swept
        <4>2. j + 1 - k \in 1 .. Len(queue') /\ queue'[j + 1 - k] = r
          BY <2>1, <3>1, <3>3, <4>1
        <4> QED BY <4>2 DEF Queued, Contains
      <3> QED BY <3>2, <3>3
    <2> QED BY <2>1, <2>2, <2>3, <2>4
  <1> QED BY <1>2, <1>3

-----------------------------------------------------------------------------
(* The queue and the channels.  A request is closed exactly when it has    *)
(* left the queue, which is what makes NoDoubleClose inductive.            *)
QueueInv ==
    /\ NoDuplicates
    /\ \A r \in Requests :
          /\ closes[r] \in {0, 1}
          /\ Queued(r) => closes[r] = 0
          /\ pc[r] \in {"new", "adding"} => closes[r] = 0 /\ ~ Queued(r)
          /\ pc[r] \in {"writing", "waiting"} /\ closes[r] = 0 => Queued(r)

(* Every way the awaiter settles a set D of queued requests keeps QueueInv. *)
LEMMA Settle ==
    ASSUME TypeOK, QueueInv, NEW D, NEW e, Mark(D, e), NoDuplicates',
           \A r \in D : Queued(r),
           \A r : Queued(r)' <=> Queued(r) /\ r \notin D,
           pc' = pc
    PROVE  QueueInv'
  <1>1. ASSUME NEW r \in Requests
        PROVE  /\ closes'[r] \in {0, 1}
               /\ Queued(r)' => closes'[r] = 0
               /\ pc'[r] \in {"new", "adding"} => closes'[r] = 0 /\ ~ Queued(r)'
               /\ pc'[r] \in {"writing", "waiting"} /\ closes'[r] = 0 => Queued(r)'
    BY DEF QueueInv, Mark
  <1> QED BY <1>1 DEF QueueInv

(* Closing channels with an error keeps the types. *)
LEMMA MarkType ==
    ASSUME TypeOK, NEW S, NEW e \in Errors, Mark(S, e)
    PROVE  closes' \in [Requests -> Nat] /\ err' \in [Requests -> Errors]
  BY DEF TypeOK, Mark

(* Counting the nodes of a reply keeps the types. *)
LEMMA CountType ==
    ASSUME TypeOK, NEW r \in Requests, NEW m \in Reply, Count(r, m)
    PROVE  received' \in [Requests -> Nat]
  <1>1. m[2] \in Nat
    BY AwaiterAssumption DEF Reply
  <1> QED
    BY <1>1 DEF TypeOK, Count

(* Every step keeps the type invariant. *)
LEMMA TypeStep == ASSUME TypeOK, [Next]_vars PROVE TypeOK'
  <1> USE AwaiterAssumption DEF TypeOK, Errors, Reply
  <1>1. ASSUME NEW r \in Requests, Create(r) \/ Write(r)
        PROVE  TypeOK'
    <2> HIDE DEF Reply, Errors
    <2>1. CASE Create(r)
      BY <2>1 DEF Create, queueVars
    <2>2. CASE Write(r)
      BY <2>2 DEF Write, queueVars
    <2> QED BY <1>1, <2>1, <2>2
  <1>9. ASSUME NEW r \in Requests, WriteFail(r) \/ Return(r)
        PROVE  TypeOK'
    <2>1. Outcome(r, "write") \in Errors \cup {"none", "write"}
      BY DEF Outcome
    <2>2. Outcome(r, err[r]) \in Errors \cup {"none", "write"}
      BY DEF Outcome
    <2> HIDE DEF Reply, Errors
    <2>3. CASE WriteFail(r)
      BY <2>3, <2>1 DEF WriteFail, queueVars
    <2>4. CASE Return(r)
      BY <2>4, <2>2 DEF Return, queueVars
    <2> QED BY <1>9, <2>3, <2>4
  <1>2. ASSUME NEW r \in Requests, AddPending(r) PROVE TypeOK'
    BY <1>2, SMTT(30) DEF AddPending
  <1>3. ASSUME NEW r \in Requests, NEW n \in 0 .. MaxNeighbors, Answer(r, n)
        PROVE  TypeOK'
    BY <1>3, SMTT(30) DEF Answer, queueVars, callVars
  <1>4. ASSUME NEW m \in wire, Receive(m) PROVE TypeOK'
    BY <1>4 DEF Receive, queueVars, callVars
  <1>5. ASSUME NEW m \in inhand, MatchResponse(m) PROVE TypeOK'
    <2>1. m[1] \in Requests /\ m[2] \in Nat
      OBVIOUS
    <2>2. /\ now' \in Nat /\ deadline' \in [Requests -> Nat] /\ sent' \subseteq Requests
          /\ pc' \in [Requests -> {"new", "adding", "writing", "waiting", "returned"}]
          /\ result' \in [Requests -> Errors \cup {"none", "write"}]
          /\ wire' \subseteq Reply /\ inhand' \subseteq Reply
      BY <1>5, <2>1 DEF MatchResponse, callVars
    <2>3. queue' \in Seq(Requests)
      <3>1. ASSUME NEW i \in 1 .. Len(queue), Dequeue(i) PROVE queue' \in Seq(Requests)
        BY <3>1, RemoveAtFacts DEF Dequeue
      <3> QED
        BY <1>5, <3>1 DEF MatchResponse, MatchNothing, MatchExpired, MatchDone,
                          MatchInvalid, MatchPartial, queueVars
    <2>4. closes' \in [Requests -> Nat] /\ err' \in [Requests -> Errors]
      <3>1. \/ UNCHANGED <<closes, err>>
            \/ \E i \in 1 .. Len(queue), e \in Errors : Mark({queue[i]}, e)
        BY <1>5 DEF MatchResponse, MatchNothing, MatchExpired, MatchDone,
                    MatchInvalid, MatchPartial, queueVars
      <3> QED BY <3>1, MarkType
    <2>5. received' \in [Requests -> Nat]
      <3>1. \/ UNCHANGED received
            \/ \E i \in 1 .. Len(queue) : Count(queue[i], m)
        BY <1>5 DEF MatchResponse, MatchNothing, MatchExpired, MatchDone,
                    MatchInvalid, MatchPartial, queueVars
      <3>2. \A i \in 1 .. Len(queue) : queue[i] \in Requests
        OBVIOUS
      <3>3. m \in Reply
        OBVIOUS
      <3> QED BY <3>1, <3>2, <3>3, CountType
    <2> QED BY <2>2, <2>3, <2>4, <2>5
  <1>6. CASE CheckDeadlines
    <2>1. PICK k \in 1 .. Len(queue) :
             /\ LET rest == SubSeq(queue, k + 1, Len(queue))
                IN  queue' = IF Expired(queue[1]) THEN rest ELSE <<queue[1]>> \o rest
             /\ Mark(Swept(k), "deadline")
      BY <1>6 DEF CheckDeadlines, Swept
    <2>2. queue' \in Seq(Requests)
      <3>1. SubSeq(queue, k + 1, Len(queue)) \in Seq(Requests)
        OBVIOUS
      <3>2. <<queue[1]>> \in Seq(Requests)
        OBVIOUS
      <3> QED BY <2>1, <3>1, <3>2
    <2>3. closes' \in [Requests -> Nat] /\ err' \in [Requests -> Errors]
      BY <2>1, MarkType
    <2> QED BY <1>6, <2>2, <2>3 DEF CheckDeadlines, callVars
  <1>7. CASE Advance
    BY <1>7 DEF Advance, queueVars, callVars
  <1>8. CASE UNCHANGED vars
    BY <1>8 DEF vars
  <1> QED
    BY <1>1, <1>2, <1>3, <1>4, <1>5, <1>6, <1>7, <1>8, <1>9 DEF Next

(* Every step keeps QueueInv: the awaiter's own branches by Settle, the    *)
(* registration of a request because a new request is not queued.          *)
LEMMA QueueStep == ASSUME TypeOK, QueueInv, [Next]_vars PROVE QueueInv'
  <1>1. ASSUME NEW r \in Requests,
               Create(r) \/ Write(r) \/ WriteFail(r) \/ Return(r)
        PROVE  QueueInv'
    <2>1. queue' = queue /\ closes' = closes
      BY <1>1 DEF Create, Write, WriteFail, Return, queueVars
    <2>2. \A s \in Requests : \/ pc'[s] = pc[s]
                              \/ pc'[s] = "adding" /\ pc[s] = "new"
                              \/ pc'[s] = "waiting" /\ pc[s] = "writing"
                              \/ pc'[s] = "returned"
      BY <1>1 DEF Create, Write, WriteFail, Return, TypeOK
    <2> QED BY <2>1, <2>2 DEF QueueInv, NoDuplicates, Queued, Contains
  <1>2. ASSUME NEW r \in Requests, AddPending(r) PROVE QueueInv'
    <2>1. queue \in Seq(Requests) /\ closes[r] = 0 /\ ~ Queued(r)
      BY <1>2 DEF TypeOK, QueueInv, AddPending
    <2>2. /\ Len(queue') = Len(queue) + 1
          /\ queue'[Len(queue) + 1] = r
          /\ \A i \in 1 .. Len(queue) : queue'[i] = queue[i]
      BY <1>2, <2>1 DEF AddPending
    <2>3. NoDuplicates'
      <3>1. \A i \in 1 .. Len(queue) : queue[i] # r
        BY <2>1 DEF Queued, Contains
      <3> QED BY <2>1, <2>2, <3>1 DEF QueueInv, NoDuplicates
    <2>4. \A s : Queued(s)' <=> Queued(s) \/ s = r
      BY <2>1, <2>2 DEF Queued, Contains
    <2>5. \A s \in Requests : pc'[s] = IF s = r THEN "writing" ELSE pc[s]
      BY <1>2 DEF AddPending, TypeOK
    <2>6. closes' = closes
      BY <1>2 DEF AddPending
    <2> QED BY <2>1, <2>3, <2>4, <2>5, <2>6 DEF QueueInv
  <1>3. ASSUME NEW m \in inhand, MatchResponse(m) PROVE QueueInv'
    <2>1. pc' = pc
      BY <1>3 DEF MatchResponse, callVars
    <2>2. ASSUME NEW i \in 1 .. Len(queue), NEW e, Dequeue(i), Mark({queue[i]}, e)
          PROVE  QueueInv'
      <3>1. /\ NoDuplicates'
            /\ \A r : Queued(r)' <=> Queued(r) /\ r # queue[i]
        BY <2>2, RemoveQueued DEF TypeOK, QueueInv
      <3>2. \A r \in {queue[i]} : Queued(r)
        BY DEF Queued, Contains
      <3> QED BY <2>1, <2>2, <3>1, <3>2, Settle
    <2>3. \/ UNCHANGED <<queue, closes>>
          \/ \E i \in 1 .. Len(queue), e \in Errors :
                Dequeue(i) /\ Mark({queue[i]}, e)
      BY <1>3 DEF MatchResponse, MatchNothing, MatchExpired, MatchDone,
                  MatchInvalid, MatchPartial, queueVars, Errors
    <2>4. CASE UNCHANGED <<queue, closes>>
      BY <2>1, <2>4 DEF QueueInv, NoDuplicates, Queued, Contains
    <2> QED BY <2>2, <2>3, <2>4
  <1>4. CASE CheckDeadlines
    <2>1. PICK k \in 1 .. Len(queue) :
             /\ LET rest == SubSeq(queue, k + 1, Len(queue))
                IN  queue' = IF Expired(queue[1]) THEN rest ELSE <<queue[1]>> \o rest
             /\ Mark(Swept(k), "deadline")
      BY <1>4 DEF CheckDeadlines, Swept
    <2>2. /\ NoDuplicates'
          /\ \A r : Queued(r)' <=> Queued(r) /\ r \notin Swept(k)
      BY <2>1, SweepQueued DEF TypeOK, QueueInv
    <2>3. \A r \in Swept(k) : Queued(r)
      BY DEF Swept, Queued, Contains
    <2>4. pc' = pc
      BY <1>4 DEF CheckDeadlines, callVars
    <2> QED BY <2>1, <2>2, <2>3, <2>4, Settle
  <1>5. ASSUME queue' = queue, closes' = closes, pc' = pc PROVE QueueInv'
    BY <1>5 DEF QueueInv, NoDuplicates, Queued, Contains
  <1>6. ASSUME \/ \E r \in Requests, n \in 0 .. MaxNeighbors : Answer(r, n)
               \/ \E m \in wire : Receive(m)
               \/ Advance \/ UNCHANGED vars
        PROVE  QueueInv'
    BY <1>5, <1>6 DEF Answer, Receive, Advance, vars, queueVars, callVars
  <1> QED
    BY <1>1, <1>2, <1>3, <1>4, <1>6 DEF Next

-----------------------------------------------------------------------------
(* What a success rests on.  A request is judged at one moment and its     *)
(* caller reads the verdict at a later one: in between the error, the      *)
(* neighbours received and the replies sent have to stay in step.          *)
VerdictInv(r) ==
    /\ result[r] # "none" => pc[r] = "returned"
    /\ received[r] # 0 => pc[r] # "new" /\ (Tokened(r) \/ Answered(r))
    /\ closes[r] = 0 => err[r] = "nil"
    /\ closes[r] > 0 /\ err[r] = "nil" => Answered(r)
    /\ result[r] = "nil" => Answered(r)

AnswerInv ==
    /\ inhand \subseteq wire
    /\ \A m \in wire : m[1] \in sent
    /\ \A r \in sent : pc[r] # "new"
    /\ \A r \in Requests : VerdictInv(r)

(* An answer stays an answer as long as the deadlines of the requests that *)
(* reached the socket stay.                                                *)
LEMMA AnsweredStays ==
    ASSUME AnswerInv, NEW r \in Requests, Answered(r), wire \subseteq wire',
           deadline'[r] = deadline[r], \A q \in sent : deadline'[q] = deadline[q]
    PROVE  Answered(r)'
  BY DEF AnswerInv, Answered, Matches, Tokened, SameToken

(* The verdict on a request that a reply was paired with. *)
LEMMA JudgedRight ==
    ASSUME TypeOK, QueueInv, AnswerInv, NEW m \in inhand, MatchResponse(m),
           NEW r \in Requests
    PROVE  VerdictInv(r)'
  <1> USE AwaiterAssumption
  <1>1. /\ UNCHANGED <<pc, result, wire, deadline, sent>>
        /\ m \in wire /\ m[2] \in Nat
    BY DEF MatchResponse, callVars, AnswerInv, TypeOK, Reply
  <1>2. Answered(r)' <=> Answered(r)
    BY <1>1 DEF Answered, Matches, Tokened, SameToken
  <1>3. VerdictInv(r)
    BY DEF AnswerInv
  <1>4. CASE closes'[r] = closes[r] /\ err'[r] = err[r] /\ received'[r] = received[r]
    BY <1>1, <1>2, <1>3, <1>4 DEF VerdictInv, Tokened
  <1>5. ASSUME NEW i \in 1 .. Len(queue), r = queue[i], FirstMatch(i, m),
               \/ MatchExpired(i, m) \/ MatchDone(i, m)
               \/ MatchInvalid(i, m) \/ MatchPartial(i, m)
        PROVE  VerdictInv(r)'
    <2>1. /\ Matches(r, m) /\ closes[r] = 0 /\ err[r] = "nil"
          /\ pc[r] # "new" /\ received[r] \in Nat
      BY <1>3, <1>5 DEF FirstMatch, QueueInv, Queued, Contains, VerdictInv, TypeOK
    <2>2. ~ Tokened(r) /\ m[2] > 0 => Answered(r)
      BY <1>1, <2>1 DEF Answered
    <2>3. Count(r, m) => (received'[r] # 0 => Tokened(r) \/ Answered(r))
      BY <1>1, <1>3, <2>1, <2>2 DEF Count, VerdictInv, TypeOK
    <2>4. CASE MatchExpired(i, m) \/ MatchInvalid(i, m)
      <3>1. /\ closes'[r] = 1 /\ err'[r] \in {"deadline", "invalid"}
            /\ received'[r] = received[r]
        BY <1>5, <2>1, <2>4 DEF MatchExpired, MatchInvalid, Mark
      <3> QED BY <1>1, <1>2, <1>3, <3>1 DEF VerdictInv, Tokened
    <2>5. CASE MatchPartial(i, m)
      <3>1. closes'[r] = closes[r] /\ err'[r] = err[r] /\ Count(r, m)
        BY <1>5, <2>5 DEF MatchPartial
      <3> QED BY <1>1, <1>2, <1>3, <2>1, <2>3, <3>1 DEF VerdictInv, Tokened
    <2>6. CASE MatchDone(i, m)
      <3>1. closes'[r] = 1 /\ err'[r] = "nil" /\ Count(r, m)
        BY <1>5, <2>1, <2>6 DEF MatchDone, Mark
      <3>2. Answered(r)
        <4>1. CASE Tokened(r)
          <5>1. SameToken(r, m[1])
            BY <1>5, <2>6, <4>1 DEF MatchDone, Verify
          <5> QED BY <1>1, <2>1, <4>1, <5>1 DEF Answered
        <4>2. CASE ~ Tokened(r)
          <5>1. received[r] + m[2] >= BucketSize
            BY <1>5, <2>6, <4>2 DEF MatchDone, Verify
          <5> QED BY <1>1, <1>3, <2>1, <2>2, <4>2, <5>1 DEF VerdictInv
        <4> QED BY <4>1, <4>2
      <3> QED BY <1>1, <1>2, <1>3, <2>1, <3>1, <3>2 DEF VerdictInv
    <2> QED BY <1>5, <2>4, <2>5, <2>6
  <1>6. ASSUME NEW i \in 1 .. Len(queue), r # queue[i],
               \/ MatchExpired(i, m) \/ MatchDone(i, m)
               \/ MatchInvalid(i, m) \/ MatchPartial(i, m)
        PROVE  closes'[r] = closes[r] /\ err'[r] = err[r] /\ received'[r] = received[r]
    BY <1>6, SMTT(30) DEF MatchExpired, MatchDone, MatchInvalid, MatchPartial, Mark, Count, TypeOK
  <1>7. CASE MatchNothing(m)
    BY <1>4, <1>7 DEF MatchNothing, queueVars
  <1> QED BY <1>4, <1>5, <1>6, <1>7 DEF MatchResponse

(* What the caller of a settled or unwritten request is told is right. *)
LEMMA OutcomeRight ==
    ASSUME TypeOK, AnswerInv, NEW r \in Requests, NEW e,
           e = "nil" => Answered(r), Outcome(r, e) = "nil"
    PROVE  Answered(r)
  BY DEF Outcome, AnswerInv, VerdictInv, Tokened

(* Every step keeps AnswerInv: a verdict is right when it is given, and    *)
(* nothing that happens before the caller reads it makes it wrong.         *)
LEMMA AnswerStep == ASSUME TypeOK, QueueInv, AnswerInv, [Next]_vars PROVE AnswerInv'
  <1>0. \A r \in Requests : VerdictInv(r)
    BY DEF AnswerInv
  <1>1. ASSUME NEW r \in Requests, Create(r) PROVE AnswerInv'
    <2>1. /\ UNCHANGED <<now, queue, closes, err, received, result, sent, wire, inhand>>
          /\ pc[r] = "new" /\ r \notin sent
          /\ \A s \in Requests : pc'[s] = IF s = r THEN "adding" ELSE pc[s]
          /\ \A s \in Requests : s # r => deadline'[s] = deadline[s]
      BY <1>1 DEF Create, queueVars, AnswerInv, TypeOK
    <2>2. \A q \in sent : deadline'[q] = deadline[q]
      BY <2>1 DEF TypeOK
    <2>3. ASSUME NEW s \in Requests, s # r PROVE VerdictInv(s)'
      <3>1. Answered(s) => Answered(s)'
        BY <2>1, <2>2, <2>3, AnsweredStays
      <3> QED BY <1>0, <2>1, <2>3, <3>1 DEF VerdictInv, Tokened
    <2>4. VerdictInv(r)'
      <3>1. received[r] = 0 /\ closes[r] = 0 /\ result[r] = "none"
        BY <1>0, <2>1 DEF VerdictInv, QueueInv
      <3> QED BY <1>0, <2>1, <3>1 DEF VerdictInv
    <2> QED BY <2>1, <2>3, <2>4 DEF AnswerInv, TypeOK
  <1>2. ASSUME NEW r \in Requests, AddPending(r) \/ Write(r) PROVE AnswerInv'
    <2>1. /\ UNCHANGED <<deadline, closes, err, received, result, wire, inhand>>
          /\ sent \subseteq sent' /\ sent' \subseteq sent \cup {r}
          /\ pc[r] \notin {"new", "returned"} /\ pc'[r] \notin {"new", "returned"}
          /\ \A s \in Requests : s # r => pc'[s] = pc[s]
      BY <1>2 DEF AddPending, Write, queueVars, TypeOK
    <2>2. ASSUME NEW s \in Requests PROVE VerdictInv(s)'
      <3>1. Answered(s) => Answered(s)'
        BY <2>1, AnsweredStays DEF TypeOK
      <3> QED BY <1>0, <2>1, <3>1 DEF VerdictInv, Tokened
    <2> QED BY <2>1, <2>2 DEF AnswerInv, TypeOK
  <1>3. ASSUME NEW r \in Requests, WriteFail(r) \/ Return(r) PROVE AnswerInv'
    <2>1. /\ UNCHANGED <<deadline, closes, err, received, sent, wire, inhand>>
          /\ pc' = [pc EXCEPT ![r] = "returned"]
          /\ \E e : /\ result' = [result EXCEPT ![r] = Outcome(r, e)]
                    /\ e = "write" \/ (closes[r] > 0 /\ e = err[r])
      BY <1>3 DEF WriteFail, Return, queueVars
    <2>2. PICK e : /\ result' = [result EXCEPT ![r] = Outcome(r, e)]
                   /\ e = "write" \/ (closes[r] > 0 /\ e = err[r])
      BY <2>1
    <2>3. e = "nil" => Answered(r)
      BY <1>0, <2>2 DEF VerdictInv
    <2>4. result'[r] = "nil" => Answered(r)
      BY <2>2, <2>3, OutcomeRight DEF TypeOK
    <2>5. ASSUME NEW s \in Requests PROVE VerdictInv(s)'
      <3>1. Answered(s) => Answered(s)'
        BY <2>1, AnsweredStays DEF TypeOK
      <3>2. /\ pc'[s] = IF s = r THEN "returned" ELSE pc[s]
            /\ s # r => result'[s] = result[s]
        BY <2>1, <2>2 DEF TypeOK
      <3> QED BY <1>0, <2>1, <2>4, <3>1, <3>2 DEF VerdictInv, Tokened
    <2> QED BY <2>1, <2>5 DEF AnswerInv, TypeOK
  <1>4. ASSUME UNCHANGED <<deadline, closes, err, received, pc, result, sent>>,
               wire \subseteq wire', \A m \in wire' : m \in wire \/ m[1] \in sent,
               inhand' \subseteq wire'
        PROVE  AnswerInv'
    <2>1. ASSUME NEW s \in Requests PROVE VerdictInv(s)'
      <3>1. Answered(s) => Answered(s)'
        BY <1>4, AnsweredStays
      <3> QED BY <1>0, <1>4, <3>1 DEF VerdictInv, Tokened
    <2> QED BY <1>4, <2>1 DEF AnswerInv
  <1>5. ASSUME NEW r \in Requests, NEW n \in 0 .. MaxNeighbors, Answer(r, n)
        PROVE  AnswerInv'
    <2>1. /\ UNCHANGED <<deadline, closes, err, received, pc, result, sent, inhand>>
          /\ wire' = wire \cup {<<r, n>>} /\ r \in sent
      BY <1>5 DEF Answer, queueVars, callVars
    <2>2. \A m \in wire' : m \in wire \/ m[1] \in sent
      BY <2>1
    <2>3. inhand' \subseteq wire' /\ wire \subseteq wire'
      BY <2>1 DEF AnswerInv
    <2> QED BY <1>4, <2>1, <2>2, <2>3
  <1>6. ASSUME NEW m \in wire, Receive(m) PROVE AnswerInv'
    BY <1>4, <1>6 DEF Receive, queueVars, callVars, AnswerInv
  <1>7. ASSUME NEW m \in inhand, MatchResponse(m) PROVE AnswerInv'
    <2>1. \A r \in Requests : VerdictInv(r)'
      BY <1>7, JudgedRight
    <2>2. UNCHANGED <<pc, sent, wire>> /\ inhand' \subseteq inhand
      BY <1>7 DEF MatchResponse, callVars
    <2> QED BY <2>1, <2>2 DEF AnswerInv
  <1>8. CASE CheckDeadlines
    <2>1. /\ UNCHANGED <<deadline, received, pc, result, sent, wire, inhand>>
          /\ \E D : Mark(D, "deadline")
      BY <1>8 DEF CheckDeadlines, callVars
    <2>2. ASSUME NEW s \in Requests PROVE VerdictInv(s)'
      <3>1. Answered(s) => Answered(s)'
        BY <2>1, AnsweredStays
      <3>2. \/ closes'[s] = closes[s] /\ err'[s] = err[s]
            \/ closes'[s] > 0 /\ err'[s] = "deadline"
        BY <2>1 DEF Mark, TypeOK
      <3> QED BY <1>0, <2>1, <3>1, <3>2 DEF VerdictInv, Tokened
    <2> QED BY <2>1, <2>2 DEF AnswerInv
  <1>9. CASE Advance \/ UNCHANGED vars
    BY <1>4, <1>9 DEF Advance, vars, queueVars, callVars, AnswerInv
  <1> QED BY <1>1, <1>2, <1>3, <1>5, <1>6, <1>7, <1>8, <1>9 DEF Next

-----------------------------------------------------------------------------
Inv == TypeOK /\ QueueInv /\ AnswerInv

(* The initial states satisfy all three. *)
LEMMA InitInv == Init => Inv
  <1> SUFFICES ASSUME Init PROVE Inv
    OBVIOUS
  <1>1. TypeOK /\ QueueInv
    BY DEF Init, TypeOK, Errors, Reply, QueueInv, NoDuplicates, Queued, Contains
  <1>2. AnswerInv
    BY DEF Init, AnswerInv, VerdictInv
  <1> QED BY <1>1, <1>2 DEF Inv

(* The inductive invariant holds throughout. *)
LEMMA Invariance == Spec => []Inv
  <1>1. Inv /\ [Next]_vars => Inv'
    BY TypeStep, QueueStep, AnswerStep DEF Inv
  <1> QED BY InitInv, <1>1, PTL DEF Spec

(* The type invariant of the awaiter holds in every reachable state. *)
THEOREM TypeCorrect == Spec => []TypeOK
  <1>1. Inv => TypeOK
    BY DEF Inv
  <1> QED BY Invariance, <1>1, PTL

(* For any number of requests, peers and replies, no request's channel is  *)
(* closed twice (mark in responseAwaiter.go never panics).                 *)
THEOREM NeverDoubleClose == Spec => []NoDoubleClose
  <1>1. Inv => NoDoubleClose
    BY DEF Inv, QueueInv, NoDoubleClose
  <1> QED BY Invariance, <1>1, PTL

(* For any number of requests, a caller blocked in Await() has its request *)
(* in the awaiter's queue.                                                 *)
THEOREM NeverForgottenWaiter == Spec => []NoForgottenWaiter
  <1>1. Inv => NoForgottenWaiter
    BY DEF Inv, QueueInv, NoForgottenWaiter
  <1> QED BY Invariance, <1>1, PTL

(* For any number of requests, workers and replies in any order, execute   *)
(* reports success only to callers whose peer answered.                    *)
THEOREM SuccessNeedsAnswer == Spec => []SuccessIsAnswered
  <1>1. Inv => SuccessIsAnswered
    BY DEF Inv, AnswerInv, VerdictInv, SuccessIsAnswered
  <1> QED BY Invariance, <1>1, PTL

(* For any number of requests, a verdict is given once, and a request      *)
(* times out only at its deadline: mark() only ever meets queued requests, *)
(* whose channels are open.                                                *)
THEOREM VerdictsAreFinal == Spec => VerdictIsFinal
  <1> DEFINE Final(r) ==
         /\ closes[r] > 0 => UNCHANGED <<err[r], closes[r]>>
         /\ closes[r] = 0 /\ err'[r] = "deadline" => now >= deadline[r]
  <1>1. ASSUME Inv, [Next]_vars, NEW r \in Requests PROVE Final(r)
    <2>0. /\ VerdictInv(r) /\ TypeOK
          /\ closes[r] = 0 => err[r] = "nil"
          /\ Queued(r) => closes[r] = 0
      BY <1>1 DEF Inv, AnswerInv, VerdictInv, QueueInv
    <2>1. CASE UNCHANGED <<closes, err>>
      BY <2>0, <2>1
    <2>2. ASSUME NEW m \in inhand, MatchResponse(m) PROVE Final(r)
      <3>1. \/ UNCHANGED <<closes, err>>
            \/ \E i \in 1 .. Len(queue), e \in Errors :
                  /\ Mark({queue[i]}, e)
                  /\ e = "deadline" => now > deadline[queue[i]]
        BY <2>2 DEF MatchResponse, MatchNothing, MatchExpired, MatchDone,
                    MatchInvalid, MatchPartial, queueVars, Errors
      <3>2. ASSUME NEW i \in 1 .. Len(queue), NEW e, Mark({queue[i]}, e),
                   e = "deadline" => now > deadline[queue[i]]
            PROVE  Final(r)
        <4>1. r = queue[i] => Queued(r)
          BY DEF Queued, Contains
        <4>2. now \in Nat /\ deadline[r] \in Nat
          BY <2>0 DEF TypeOK
        <4> QED BY <2>0, <3>2, <4>1, <4>2 DEF Mark
      <3> QED BY <2>1, <3>1, <3>2
    <2>3. CASE CheckDeadlines
      <3>1. PICK k \in 1 .. Len(queue) :
               /\ \A j \in 2 .. k : Expired(queue[j])
               /\ Mark(Swept(k), "deadline")
        BY <2>3 DEF CheckDeadlines, Swept
      <3>2. r \in Swept(k) => Queued(r) /\ Expired(r)
        BY <3>1 DEF Swept, Queued, Contains
      <3> QED BY <2>0, <3>1, <3>2 DEF Mark, Expired
    <2> QED
      BY <1>1, <2>1, <2>2, <2>3 DEF Next, Create, AddPending, Write, WriteFail,
            Return, Answer, Receive, Advance, vars, queueVars
  <1>2. Inv /\ [Next]_vars => [\A r \in Requests : Final(r)]_vars
    BY <1>1
  <1> QED BY Invariance, <1>2, PTL DEF Spec, VerdictIsFinal
-----------------------------------------------------------------------------
(* The awaiter implements RequestReply.  The refinement mapping shows two  *)
(* things of the state: where the calls are and which were answered.       *)
Calls == [r \in Requests |-> Call(r)]
AnsweredCalls == {r \in Requests : pc[r] # "new" /\ Answered(r)}

(* A step that moves no caller across the abstract call's phases, sends no *)
(* reply and sets no deadline is a stutter of the abstract specification.  *)
LEMMA Stutters ==
    ASSUME UNCHANGED <<wire, deadline>>,
           \A r \in Requests : /\ Call(r)' = Call(r)
                               /\ pc'[r] = "new" <=> pc[r] = "new"
    PROVE  UNCHANGED Promise!vars
  <1>1. Calls' = Calls
    BY DEF Calls
  <1>2. \A r \in Requests : Answered(r)' <=> Answered(r)
    BY DEF Answered, Matches, Tokened, SameToken
  <1>3. AnsweredCalls' = AnsweredCalls
    BY <1>2 DEF AnsweredCalls
  <1> QED BY <1>1, <1>3 DEF Promise!vars, Calls, AnsweredCalls

(* Execute returns: the abstract call succeeds or fails, and it succeeds   *)
(* only if the peer answered before.                                       *)
LEMMA ReturnIsVerdict ==
    ASSUME Inv, NEW r \in Requests, pc[r] \in {"writing", "waiting"},
           NEW e, e = "nil" => Answered(r),
           pc' = [pc EXCEPT ![r] = "returned"],
           result' = [result EXCEPT ![r] = Outcome(r, e)],
           UNCHANGED <<wire, deadline>>
    PROVE  Promise!Succeed(r) \/ Promise!Fail(r)
  <1>1. TypeOK /\ AnswerInv
    BY DEF Inv
  <1>2. \A s \in Requests : Answered(s)' <=> Answered(s)
    BY DEF Answered, Matches, Tokened, SameToken
  <1>3. \A s \in Requests : pc'[s] = "new" <=> pc[s] = "new"
    BY <1>1 DEF TypeOK
  <1>4. AnsweredCalls' = AnsweredCalls
    BY <1>2, <1>3 DEF AnsweredCalls
  <1>5. Calls[r] = "waiting"
    BY DEF Calls, Call
  <1>6. Calls' = [Calls EXCEPT ![r] = IF Outcome(r, e) = "nil" THEN "ok" ELSE "failed"]
    <2>1. /\ pc'[r] = "returned" /\ result'[r] = Outcome(r, e)
          /\ \A s \in Requests \ {r} : pc'[s] = pc[s] /\ result'[s] = result[s]
      BY <1>1 DEF TypeOK
    <2> QED BY <2>1, ZenonT(60) DEF Calls, Call
  <1>7. CASE Outcome(r, e) = "nil"
    <2>1. r \in AnsweredCalls
      BY <1>1, <1>7, OutcomeRight DEF AnsweredCalls
    <2> QED BY <1>4, <1>5, <1>6, <1>7, <2>1 DEF Promise!Succeed, Calls, AnsweredCalls
  <1>8. CASE Outcome(r, e) # "nil"
    BY <1>4, <1>5, <1>6, <1>8 DEF Promise!Fail, Calls, AnsweredCalls
  <1> QED BY <1>7, <1>8

(* Making a request is the abstract Ask.  The new deadline can make an     *)
(* earlier answer one to this request too, but takes none from another:    *)
(* replies only answer requests that reached the socket.                   *)
LEMMA CreateAsks ==
    ASSUME Inv, NEW r \in Requests, Create(r)
    PROVE  Promise!Ask(r)
  <1>1. /\ wire' = wire /\ pc[r] = "new" /\ pc'[r] = "adding"
        /\ \A m \in wire : m[1] \in Requests /\ m[1] # r
        /\ \A s \in Requests \ {r} : /\ pc'[s] = pc[s] /\ result'[s] = result[s]
                                     /\ deadline'[s] = deadline[s]
    BY DEF Inv, Create, TypeOK, AnswerInv
  <1>2. \A s \in Requests \ {r} : Answered(s)' <=> Answered(s)
    BY <1>1 DEF Answered, Matches, Tokened, SameToken
  <1>3. AnsweredCalls' \in {AnsweredCalls, AnsweredCalls \cup {r}}
    BY <1>1, <1>2 DEF AnsweredCalls
  <1>4. Calls[r] = "idle" /\ Calls' = [Calls EXCEPT ![r] = "waiting"]
    BY <1>1 DEF Calls, Call
  <1> QED BY <1>3, <1>4 DEF Promise!Ask, Calls, AnsweredCalls

(* A reply on the wire is the abstract PeerAnswers. *)
LEMMA AnswerAnswers ==
    ASSUME Inv, NEW r \in Requests, NEW n \in 0 .. MaxNeighbors, Answer(r, n)
    PROVE  Promise!PeerAnswers
  <1>1. UNCHANGED <<pc, result, deadline>> /\ wire \subseteq wire'
    BY DEF Answer, callVars
  <1>2. Calls' = Calls
    BY <1>1 DEF Calls, Call
  <1>3. \A s \in Requests : Answered(s) => Answered(s)'
    BY <1>1 DEF Answered, Matches, Tokened, SameToken
  <1>4. AnsweredCalls \subseteq AnsweredCalls'
    BY <1>1, <1>3 DEF AnsweredCalls
  <1>5. AnsweredCalls' \in SUBSET {s \in Requests : Calls[s] # "idle"}
    BY <1>1 DEF AnsweredCalls, Calls, Call
  <1> QED BY <1>2, <1>4, <1>5 DEF Promise!PeerAnswers, Calls, AnsweredCalls

(* For any number of requests, peers, workers and replies, the awaiter and *)
(* execute keep the promise of RequestReply: every call returns at most    *)
(* once, and with success only after an answer of its peer.                *)
THEOREM PromiseIsKept == Spec => KeepsPromise
  <1>1. Init => Promise!Init
    <2> SUFFICES ASSUME Init PROVE Promise!Init
      OBVIOUS
    <2>1. Calls = [r \in Requests |-> "idle"]
      BY DEF Init, Calls, Call
    <2>2. AnsweredCalls = {}
      BY DEF Init, AnsweredCalls
    <2> QED BY <2>1, <2>2 DEF Promise!Init, Calls, AnsweredCalls
  <1>2. Inv /\ [Next]_vars => [Promise!Next]_(Promise!vars)
    <2> SUFFICES ASSUME Inv, [Next]_vars PROVE [Promise!Next]_(Promise!vars)
      OBVIOUS
    <2>1. ASSUME NEW r \in Requests, Create(r) PROVE Promise!Next
      BY <2>1, CreateAsks DEF Promise!Next
    <2>2. ASSUME NEW r \in Requests, AddPending(r) \/ Write(r)
          PROVE  UNCHANGED Promise!vars
      <3>1. UNCHANGED <<wire, deadline, result>>
        BY <2>2 DEF AddPending, Write
      <3>2. \A s \in Requests :
               \/ pc'[s] = pc[s]
               \/ pc[s] \in {"adding", "writing"} /\ pc'[s] \in {"writing", "waiting"}
        BY <2>2 DEF AddPending, Write, Inv, TypeOK
      <3> QED BY <3>1, <3>2, Stutters DEF Call
    <2>3. ASSUME NEW r \in Requests, WriteFail(r) \/ Return(r) PROVE Promise!Next
      <3>1. CASE WriteFail(r)
        <4>1. /\ pc[r] \in {"writing", "waiting"} /\ UNCHANGED <<wire, deadline>>
              /\ pc' = [pc EXCEPT ![r] = "returned"]
              /\ result' = [result EXCEPT ![r] = Outcome(r, "write")]
          BY <3>1 DEF WriteFail
        <4>2. "write" = "nil" => Answered(r)
          OBVIOUS
        <4>3. Promise!Succeed(r) \/ Promise!Fail(r)
          BY <4>1, <4>2, ReturnIsVerdict, Zenon
        <4> QED BY <4>3 DEF Promise!Next
      <3>2. CASE Return(r)
        <4>1. closes[r] > 0 /\ err[r] = "nil" => Answered(r)
          BY DEF Inv, AnswerInv, VerdictInv
        <4> QED BY <3>2, <4>1, ReturnIsVerdict DEF Return, Promise!Next
      <3> QED BY <2>3, <3>1, <3>2
    <2>4. ASSUME NEW r \in Requests, NEW n \in 0 .. MaxNeighbors, Answer(r, n)
          PROVE  Promise!Next
      BY <2>4, AnswerAnswers DEF Promise!Next
    <2>5. ASSUME UNCHANGED <<pc, result, wire, deadline>>
          PROVE  UNCHANGED Promise!vars
      BY <2>5, Stutters DEF Call
    <2>6. ASSUME NEW m, Receive(m) \/ MatchResponse(m)
          PROVE  UNCHANGED <<pc, result, wire, deadline>>
      BY <2>6 DEF Receive, MatchResponse, callVars
    <2>7. CheckDeadlines \/ Advance \/ UNCHANGED vars
             => UNCHANGED <<pc, result, wire, deadline>>
      BY DEF CheckDeadlines, Advance, callVars, vars
    <2> QED BY <2>1, <2>2, <2>3, <2>4, <2>5, <2>6, <2>7 DEF Next
  <1> QED BY Invariance, <1>1, <1>2, PTL DEF Spec, KeepsPromise, Promise!Spec
=============================================================================
