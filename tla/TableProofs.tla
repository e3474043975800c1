---------------------------- MODULE TableProofs ----------------------------
(***************************************************************************)
(* Proofs about the node table, for every set of nodes, buckets, addresses *)
(* and subnets and all sizes and limits.                                   *)
(***************************************************************************)
EXTENDS Table, FiniteSetTheorems, SequenceTheorems, TLAPS

(* No id is twice in a list. *)
Distinct(list) ==
    \A i, j \in 1 .. Len(list) : list[i].id = list[j].id => i = j

(* What the lists of bucket b hold: nodes of the bucket, each once. *)
Good(E, R, b) ==
    /\ Distinct(E) /\ Distinct(R)
    /\ \A x \in ToSet(E), y \in ToSet(R) : x.id # y.id
    /\ \A x \in ToSet(E) \cup ToSet(R) : BucketOf[x.id] = b /\ x.id # Self

GoodInv == \A b \in Buckets : Good(entries[b], replacements[b], b)

(* Only a full bucket has replacements: an entry that is deleted for good  *)
(* leaves none behind.  So a node that becomes an entry is no replacement  *)
(* whose address would be counted twice.                                   *)
FullInv ==
    \A b \in Buckets :
        /\ Len(entries[b]) <= bucketSize
        /\ replacements[b] # << >> => Len(entries[b]) = bucketSize

(* The node being revalidated is still in its bucket as it was, and its    *)
(* address the one that is counted.                                        *)
RevalInv ==
    /\ \A v \in reval : v.last \in ToSet(entries[v.bi])
    /\ \A v, w \in reval : v = w

(* A node that counts as live has answered. *)
LiveInv ==
    /\ bootLive \subseteq answered
    /\ \A n \in AllNodes : n.live => n.id \in answered

(* The counters count the nodes of N. *)
Public(N, s) == {n \in N : n.ip \notin Lan /\ Subnet[n.ip] = s}
Local(N, s, b) == {n \in Public(N, s) : BucketOf[n.id] = b}
Counts(T, B, N) ==
    \A s \in Subnets :
        /\ IsFiniteSet(Public(N, s))
        /\ T[s] = Cardinality(Public(N, s))
        /\ \A b \in Buckets : B[b][s] = Cardinality(Local(N, s, b))

CountInv == Counts(tableIps, bucketIps, AllNodes)

(* No counter is over its limit: an address that was taken out can go in   *)
(* again.                                                                  *)
Limits(T, B) ==
    \A s \in Subnets :
        /\ T[s] <= tableIPLimit
        /\ \A b \in Buckets : B[b][s] <= bucketIPLimit

LimitInv == Limits(tableIps, bucketIps)

(* The invariant of the lists and the counters, and the whole one. *)
StoreInv ==
    /\ entries \in [Buckets -> Seq(Node)] /\ replacements \in [Buckets -> Seq(Node)]
    /\ tableIps \in IpCount /\ bucketIps \in [Buckets -> IpCount]
    /\ GoodInv /\ FullInv /\ CountInv /\ LimitInv

Inv == TypeOK /\ StoreInv /\ RevalInv /\ LiveInv

-----------------------------------------------------------------------------
(* Lists. *)

(* What removing one element of a sequence leaves. *)
LEMMA RemoveAtFacts ==
    ASSUME NEW S, NEW q \in Seq(S), NEW i \in 1 .. Len(q)
    PROVE  LET p == RemoveAt(q, i)
           IN  /\ p \in Seq(S)
               /\ Len(p) = Len(q) - 1
               /\ \A j \in 1 .. Len(p) : p[j] = IF j < i THEN q[j] ELSE q[j + 1]
  <1> DEFINE a == SubSeq(q, 1, i - 1)
             b == SubSeq(q, i + 1, Len(q))
  <1>1. /\ a \in Seq(S) /\ Len(a) = i - 1
        /\ \A j \in 1 .. i - 1 : a[j] = q[j]
    OBVIOUS
  <1>2. /\ b \in Seq(S) /\ Len(b) = Len(q) - i
        /\ \A j \in 1 .. Len(q) - i : b[j] = q[j + i]
    OBVIOUS
  <1> HIDE DEF a, b
  <1>3. /\ a \o b \in Seq(S) /\ Len(a \o b) = Len(q) - 1
        /\ \A j \in 1 .. Len(a \o b) :
              (a \o b)[j] = IF j < i THEN a[j] ELSE b[j - (i - 1)]
    BY <1>1, <1>2
  <1>4. \A j \in 1 .. Len(q) - 1 :
              (a \o b)[j] = IF j < i THEN q[j] ELSE q[j + 1]
    BY <1>1, <1>2, <1>3
  <1> QED
    BY <1>3, <1>4 DEF a, b, RemoveAt

(* What a sequence is without its last element. *)
LEMMA FrontFacts ==
    ASSUME NEW S, NEW q \in Seq(S), q # << >>
    PROVE  /\ Front(q) \in Seq(S)
           /\ Len(Front(q)) = Len(q) - 1
           /\ \A j \in 1 .. Len(q) - 1 : Front(q)[j] = q[j]
  BY DEF Front

(* The elements of a sequence. *)
LEMMA InToSet ==
    ASSUME NEW S, NEW q \in Seq(S)
    PROVE  \A x : x \in ToSet(q) <=> \E i \in 1 .. Len(q) : q[i] = x
  BY DEF ToSet

-----------------------------------------------------------------------------
(* Lists of nodes. *)

(* A list has an id when one of its nodes does. *)
LEMMA HasIdMeans ==
    ASSUME NEW q \in Seq(Node), NEW id
    PROVE  HasId(q, id) <=> \E x \in ToSet(q) : x.id = id
  BY InToSet DEF HasId

(* In a list without duplicates an id stands for one node. *)
LEMMA DistinctMeans ==
    ASSUME NEW q \in Seq(Node), Distinct(q), NEW x \in ToSet(q), NEW y \in ToSet(q),
           x.id = y.id
    PROVE  x = y
  BY InToSet DEF Distinct

(* A node goes to the end of a list, ... *)
LEMMA AppendList ==
    ASSUME NEW q \in Seq(Node), NEW n \in Node
    PROVE  LET p == Append(q, n)
           IN  /\ p \in Seq(Node) /\ Len(p) = Len(q) + 1
               /\ ToSet(p) = ToSet(q) \cup {n}
               /\ Distinct(q) /\ ~ HasId(q, n.id) => Distinct(p)
  <1> DEFINE p == Append(q, n)
  <1>1. /\ p \in Seq(Node) /\ Len(p) = Len(q) + 1 /\ Len(q) \in Nat
        /\ \A i \in 1 .. Len(q) + 1 : p[i] = IF i <= Len(q) THEN q[i] ELSE n
    OBVIOUS
  <1> HIDE DEF p
  <1>2. ASSUME NEW x PROVE x \in ToSet(p) <=> x \in ToSet(q) \cup {n}
    <2>1. x \in ToSet(p) <=> \E i \in 1 .. Len(p) : p[i] = x
      BY <1>1, InToSet
    <2>2. x \in ToSet(q) <=> \E i \in 1 .. Len(q) : q[i] = x
      BY InToSet
    <2>3. ASSUME x = n PROVE \E i \in 1 .. Len(p) : p[i] = x
      <3>1. Len(q) + 1 \in 1 .. Len(p) /\ p[Len(q) + 1] = n
        BY <1>1
      <3> QED BY <2>3, <3>1
    <2> QED BY <1>1, <2>1, <2>2, <2>3
  <1>3. ASSUME Distinct(q), ~ HasId(q, n.id) PROVE Distinct(p)
    BY <1>1, <1>3 DEF Distinct, HasId
  <1> QED BY <1>1, <1>2, <1>3 DEF p

(* ... or to its front. *)
LEMMA ConsList ==
    ASSUME NEW q \in Seq(Node), NEW n \in Node
    PROVE  LET p == <<n>> \o q
           IN  /\ p \in Seq(Node) /\ Len(p) = Len(q) + 1
               /\ ToSet(p) = ToSet(q) \cup {n}
               /\ Distinct(q) /\ ~ HasId(q, n.id) => Distinct(p)
  <1> DEFINE p == <<n>> \o q
  <1>1. /\ p \in Seq(Node) /\ Len(p) = Len(q) + 1 /\ Len(q) \in Nat
        /\ \A i \in 1 .. Len(q) + 1 : p[i] = IF i = 1 THEN n ELSE q[i - 1]
    OBVIOUS
  <1> HIDE DEF p
  <1>2. ASSUME NEW x PROVE x \in ToSet(p) <=> x \in ToSet(q) \cup {n}
    <2>1. x \in ToSet(p) <=> \E i \in 1 .. Len(p) : p[i] = x
      BY <1>1, InToSet
    <2>2. x \in ToSet(q) <=> \E i \in 1 .. Len(q) : q[i] = x
      BY InToSet
    <2>3. ASSUME x = n PROVE \E i \in 1 .. Len(p) : p[i] = x
      <3>1. 1 \in 1 .. Len(p) /\ p[1] = n
        BY <1>1
      <3> QED BY <2>3, <3>1
    <2>4. ASSUME NEW i \in 1 .. Len(q), q[i] = x PROVE \E j \in 1 .. Len(p) : p[j] = x
      <3>1. i + 1 \in 1 .. Len(p) /\ p[i + 1] = q[i]
        BY <1>1
      <3> QED BY <2>4, <3>1
    <2>5. ASSUME NEW i \in 1 .. Len(p), p[i] = x PROVE x = n \/ \E j \in 1 .. Len(q) : q[j] = x
      <3>1. i = 1 \/ i - 1 \in 1 .. Len(q)
        BY <1>1
      <3> QED BY <1>1, <2>5, <3>1
    <2> QED BY <2>1, <2>2, <2>3, <2>4, <2>5
  <1>3. ASSUME Distinct(q), ~ HasId(q, n.id) PROVE Distinct(p)
    <2> SUFFICES ASSUME NEW i \in 1 .. Len(p), NEW j \in 1 .. Len(p), p[i].id = p[j].id
                 PROVE  i = j
      BY DEF Distinct
    <2>0. ASSUME NEW k \in 1 .. Len(p), k # 1 PROVE p[k].id # p[1].id
      <3>1. k - 1 \in 1 .. Len(q) /\ p[k] = q[k - 1] /\ p[1] = n
        BY <1>1, <2>0
      <3> QED BY <1>3, <3>1 DEF HasId
    <2>1. CASE i = 1 \/ j = 1
      BY <2>0, <2>1
    <2>2. CASE i # 1 /\ j # 1
      <3>1. i - 1 \in 1 .. Len(q) /\ j - 1 \in 1 .. Len(q)
            /\ q[i - 1].id = q[j - 1].id
        BY <1>1, <2>2
      <3>2. i - 1 = j - 1
        BY <1>3, <3>1 DEF Distinct
      <3> QED BY <3>2
    <2> QED BY <2>1, <2>2
  <1> QED BY <1>1, <1>2, <1>3 DEF p

(* A node leaves a list. *)
LEMMA RemoveList ==
    ASSUME NEW q \in Seq(Node), Distinct(q), NEW i \in 1 .. Len(q)
    PROVE  LET p == RemoveAt(q, i)
           IN  /\ p \in Seq(Node) /\ Len(p) = Len(q) - 1
               /\ ToSet(p) = ToSet(q) \ {q[i]}
               /\ Distinct(p)
               /\ ~ HasId(p, q[i].id)
  <1> DEFINE p == RemoveAt(q, i)
  <1>1. /\ p \in Seq(Node) /\ Len(p) = Len(q) - 1 /\ Len(q) \in Nat
        /\ \A j \in 1 .. Len(p) : p[j] = IF j < i THEN q[j] ELSE q[j + 1]
    BY RemoveAtFacts
  <1> HIDE DEF p
  <1>2. ASSUME NEW j \in 1 .. Len(p)
        PROVE  \E k \in 1 .. Len(q) : k # i /\ p[j] = q[k]
    <2>1. CASE j < i
      BY <1>1, <2>1
    <2>2. CASE j >= i
      <3>1. j + 1 \in 1 .. Len(q) /\ j + 1 # i /\ p[j] = q[j + 1]
        BY <1>1, <2>2
      <3> QED BY <3>1
    <2> QED BY <1>1, <2>1, <2>2
  <1>3. ASSUME NEW k \in 1 .. Len(q), k # i PROVE \E j \in 1 .. Len(p) : p[j] = q[k]
    <2>1. CASE k < i
      BY <1>1, <2>1
    <2>2. CASE k > i
      <3>1. k - 1 \in 1 .. Len(p) /\ p[k - 1] = q[k]
        BY <1>1, <2>2
      <3> QED BY <3>1
    <2> QED BY <1>3, <2>1, <2>2
  <1>4. \A k \in 1 .. Len(q) : q[k].id = q[i].id => k = i
    BY DEF Distinct
  <1>5. ~ HasId(p, q[i].id)
    <2> SUFFICES ASSUME NEW j \in 1 .. Len(p), p[j].id = q[i].id PROVE FALSE
      BY DEF HasId
    <2> QED BY <1>2, <1>4
  <1>6. ASSUME NEW x PROVE x \in ToSet(p) <=> x \in ToSet(q) \ {q[i]}
    <2>1. x \in ToSet(p) <=> \E j \in 1 .. Len(p) : p[j] = x
      BY <1>1, InToSet
    <2>2. x \in ToSet(q) <=> \E j \in 1 .. Len(q) : q[j] = x
      BY InToSet
    <2> QED BY <1>2, <1>3, <1>4, <2>1, <2>2
  <1>7. Distinct(p)
    <2> SUFFICES ASSUME NEW j \in 1 .. Len(p), NEW k \in 1 .. Len(p), p[j].id = p[k].id
                 PROVE  j = k
      BY DEF Distinct
    <2> DEFINE f(x) == IF x < i THEN x ELSE x + 1
    <2>1. f(j) \in 1 .. Len(q) /\ f(k) \in 1 .. Len(q) /\ p[j] = q[f(j)] /\ p[k] = q[f(k)]
      BY <1>1
    <2>2. f(j) = f(k)
      BY <2>1 DEF Distinct
    <2> QED BY <1>1, <2>2
  <1> QED BY <1>1, <1>5, <1>6, <1>7 DEF p

(* Its last one: Front removes the node at the end. *)
LEMMA FrontList ==
    ASSUME NEW q \in Seq(Node), Distinct(q), q # << >>
    PROVE  /\ Front(q) \in Seq(Node) /\ Len(Front(q)) = Len(q) - 1
           /\ Last(q) \in ToSet(q) /\ Last(q) \in Node
           /\ ToSet(Front(q)) = ToSet(q) \ {Last(q)}
           /\ Distinct(Front(q))
           /\ ~ HasId(Front(q), Last(q).id)
  <1>1. Len(q) \in 1 .. Len(q) /\ Last(q) = q[Len(q)] /\ Len(q) \in Nat
    BY DEF Last
  <1>2. Front(q) = RemoveAt(q, Len(q))
    <2>1. /\ RemoveAt(q, Len(q)) \in Seq(Node) /\ Len(RemoveAt(q, Len(q))) = Len(q) - 1
          /\ \A j \in 1 .. Len(q) - 1 : RemoveAt(q, Len(q))[j] = q[j]
      BY <1>1, RemoveAtFacts
    <2>2. /\ Front(q) \in Seq(Node) /\ Len(Front(q)) = Len(q) - 1
          /\ \A j \in 1 .. Len(q) - 1 : Front(q)[j] = q[j]
      BY FrontFacts
    <2> QED BY <1>1, <2>1, <2>2, SeqEqual
  <1>3. Last(q) \in ToSet(q) /\ Last(q) \in Node
    BY <1>1, InToSet
  <1> QED BY <1>1, <1>2, <1>3, RemoveList

(* deleteNode removes the node with this id, if there is one. *)
LEMMA DeleteList ==
    ASSUME NEW q \in Seq(Node), Distinct(q), NEW n \in Node
    PROVE  LET p == deleteNode(q, n)
           IN  /\ p \in Seq(Node) /\ Distinct(p) /\ ~ HasId(p, n.id)
               /\ ToSet(p) = {x \in ToSet(q) : x.id # n.id}
               /\ ~ HasId(q, n.id) => p = q
               /\ HasId(q, n.id) => Len(p) = Len(q) - 1
  <1>1. CASE ~ HasId(q, n.id)
    BY <1>1, HasIdMeans DEF deleteNode
  <1>2. CASE HasId(q, n.id)
    <2> DEFINE i == FirstIndex(q, n.id)
    <2>1. PICK k \in 1 .. Len(q) : q[k].id = n.id
      BY <1>2 DEF HasId
    <2>2. \A j \in 1 .. k - 1 : q[j].id # n.id
      BY <2>1 DEF Distinct
    <2>3. i \in 1 .. Len(q) /\ q[i].id = n.id
      BY <2>1, <2>2 DEF FirstIndex
    <2> HIDE DEF i
    <2>4. deleteNode(q, n) = RemoveAt(q, i)
      BY <1>2 DEF deleteNode, i
    <2>5. q[i] \in ToSet(q) /\ \A x \in ToSet(q) : x.id = n.id <=> x = q[i]
      <3>1. q[i] \in ToSet(q)
        BY <2>3, InToSet
      <3> QED BY <2>3, <3>1, DistinctMeans
    <2> QED BY <1>2, <2>3, <2>4, <2>5, RemoveList, SMTT(30)
  <1> QED BY <1>1, <1>2

(* pushNode puts a node at the front and drops the last one of a full list. *)
LEMMA PushList ==
    ASSUME NEW q \in Seq(Node), Distinct(q), NEW n \in Node, ~ HasId(q, n.id),
           NEW max \in Nat \ {0}
    PROVE  LET p == pushNode(q, n, max)
           IN  /\ p \in Seq(Node) /\ Distinct(p)
               /\ IF Len(q) < max
                  THEN ToSet(p) = ToSet(q) \cup {n}
                  ELSE /\ Last(q) \in ToSet(q) /\ Last(q) \in Node
                       /\ ToSet(p) = (ToSet(q) \ {Last(q)}) \cup {n}
  <1>1. CASE Len(q) < max
    BY <1>1, ConsList DEF pushNode
  <1>2. CASE ~ Len(q) < max
    <2>1. q # << >>
      BY <1>2
    <2>2. /\ Front(q) \in Seq(Node) /\ Distinct(Front(q))
          /\ Last(q) \in ToSet(q) /\ Last(q) \in Node
          /\ ToSet(Front(q)) = ToSet(q) \ {Last(q)}
      BY <2>1, FrontList
    <2>3. ~ HasId(Front(q), n.id)
      BY <2>2, HasIdMeans
    <2>4. pushNode(q, n, max) = <<n>> \o Front(q)
      BY <1>2 DEF pushNode
    <2> QED BY <1>2, <2>2, <2>3, <2>4, ConsList
  <1> QED BY <1>1, <1>2

(* The two lists of a bucket, in the words of NodesAreUnique. *)
LEMMA GoodMeans ==
    ASSUME NEW E \in Seq(Node), NEW R \in Seq(Node), NEW b, Good(E, R, b)
    PROVE  LET list == E \o R
           IN  /\ \A i \in 1 .. Len(list) : BucketOf[list[i].id] = b /\ list[i].id # Self
               /\ \A i, j \in 1 .. Len(list) : list[i].id = list[j].id => i = j
  <1> DEFINE list == E \o R
             e == Len(E)
  <1>1. /\ e \in Nat /\ Len(R) \in Nat /\ Len(list) = e + Len(R)
        /\ \A i \in 1 .. Len(list) : list[i] = IF i <= e THEN E[i] ELSE R[i - e]
    OBVIOUS
  <1> HIDE DEF list
  <1>2. /\ \A i \in 1 .. e : E[i] \in ToSet(E)
        /\ \A i \in 1 .. Len(R) : R[i] \in ToSet(R)
    BY InToSet
  <1>3. ASSUME NEW i \in 1 .. Len(list)
        PROVE  BucketOf[list[i].id] = b /\ list[i].id # Self
    <2>1. list[i] \in ToSet(E) \cup ToSet(R)
      <3>1. CASE i <= e
        BY <1>1, <1>2, <3>1
      <3>2. CASE i > e
        <4>1. i - e \in 1 .. Len(R) /\ list[i] = R[i - e]
          BY <1>1, <3>2
        <4> QED BY <1>2, <4>1
      <3> QED BY <1>1, <3>1, <3>2
    <2> QED BY <2>1 DEF Good
  <1>4. ASSUME NEW i \in 1 .. Len(list), NEW j \in 1 .. Len(list), i <= e, j > e
        PROVE  list[i].id # list[j].id
    <2>1. i \in 1 .. e /\ list[i] = E[i] /\ j - e \in 1 .. Len(R) /\ list[j] = R[j - e]
      BY <1>1, <1>4
    <2> QED BY <1>2, <2>1 DEF Good
  <1>5. ASSUME NEW i \in 1 .. Len(list), NEW j \in 1 .. Len(list), list[i].id = list[j].id
        PROVE  i = j
    <2>1. CASE i <= e /\ j <= e
      <3>1. i \in 1 .. e /\ j \in 1 .. e /\ E[i].id = E[j].id
        BY <1>1, <1>5, <2>1
      <3> QED BY <3>1 DEF Good, Distinct
    <2>2. CASE i > e /\ j > e
      <3>1. i - e \in 1 .. Len(R) /\ j - e \in 1 .. Len(R) /\ R[i - e].id = R[j - e].id
        BY <1>1, <1>5, <2>2
      <3>2. i - e = j - e
        BY <3>1 DEF Good, Distinct
      <3> QED BY <1>1, <3>2
    <2> QED BY <1>1, <1>4, <1>5, <2>1, <2>2
  <1> QED BY <1>3, <1>5 DEF list

-----------------------------------------------------------------------------
(* Counters. *)

(* What addIP and removeIP do to a pair of counters. *)
LEMMA AddIPFacts ==
    ASSUME NEW T \in IpCount, NEW C \in IpCount, NEW ip \in Ips
    PROVE  LET u == AddIP([tab |-> T, bucket |-> C], ip)
           IN  /\ u.tab \in IpCount /\ u.bucket \in IpCount
               /\ u = [tab |-> u.tab, bucket |-> u.bucket]
               /\ \A s \in Subnets :
                     /\ u.tab[s] = T[s] + (IF ip \notin Lan /\ s = Subnet[ip] THEN 1 ELSE 0)
                     /\ u.bucket[s] = C[s] + (IF ip \notin Lan /\ s = Subnet[ip] THEN 1 ELSE 0)
  <1> DEFINE z == Subnet[ip]
             X == [T EXCEPT ![z] = @ + 1]
             Y == [C EXCEPT ![z] = @ + 1]
  <1>1. z \in Subnets
    BY TableAssumption
  <1>2. /\ X \in IpCount /\ Y \in IpCount
        /\ \A s \in Subnets : /\ X[s] = IF s = z THEN T[s] + 1 ELSE T[s]
                             /\ Y[s] = IF s = z THEN C[s] + 1 ELSE C[s]
    BY <1>1 DEF IpCount
  <1>3. \A s \in Subnets : T[s] \in Nat /\ C[s] \in Nat
    BY DEF IpCount
  <1>4. AddIP([tab |-> T, bucket |-> C], ip) =
           IF ip \in Lan THEN [tab |-> T, bucket |-> C] ELSE [tab |-> X, bucket |-> Y]
    BY DEF AddIP
  <1> HIDE DEF X, Y, z
  <1>5. CASE ip \in Lan
    BY <1>3, <1>4, <1>5
  <1>6. CASE ip \notin Lan
    BY <1>2, <1>3, <1>4, <1>6 DEF z
  <1> QED BY <1>5, <1>6

(* What RemoveIP makes of the counters of the table and a bucket. *)
LEMMA RemoveIPFacts ==
    ASSUME NEW T \in IpCount, NEW C \in IpCount, NEW ip \in Ips,
           ip \notin Lan => T[Subnet[ip]] > 0 /\ C[Subnet[ip]] > 0
    PROVE  LET u == RemoveIP([tab |-> T, bucket |-> C], ip)
           IN  /\ u.tab \in IpCount /\ u.bucket \in IpCount
               /\ u = [tab |-> u.tab, bucket |-> u.bucket]
               /\ \A s \in Subnets :
                     /\ u.tab[s] = T[s] - (IF ip \notin Lan /\ s = Subnet[ip] THEN 1 ELSE 0)
                     /\ u.bucket[s] = C[s] - (IF ip \notin Lan /\ s = Subnet[ip] THEN 1 ELSE 0)
  <1> DEFINE z == Subnet[ip]
             X == [T EXCEPT ![z] = Less(@)]
             Y == [C EXCEPT ![z] = Less(@)]
  <1>1. z \in Subnets
    BY TableAssumption
  <1>2. \A s \in Subnets : T[s] \in Nat /\ C[s] \in Nat
    BY DEF IpCount
  <1>3. RemoveIP([tab |-> T, bucket |-> C], ip) =
           IF ip \in Lan THEN [tab |-> T, bucket |-> C] ELSE [tab |-> X, bucket |-> Y]
    BY DEF RemoveIP
  <1>4. CASE ip \in Lan
    <2> HIDE DEF X, Y, z
    <2> QED BY <1>2, <1>3, <1>4
  <1>5. CASE ip \notin Lan
    <2>1. Less(T[z]) = T[z] - 1 /\ Less(C[z]) = C[z] - 1
          /\ T[z] - 1 \in Nat /\ C[z] - 1 \in Nat
      BY <1>1, <1>2, <1>5 DEF Less
    <2>2. /\ X \in IpCount /\ Y \in IpCount
          /\ \A s \in Subnets : /\ X[s] = IF s = z THEN T[s] - 1 ELSE T[s]
                               /\ Y[s] = IF s = z THEN C[s] - 1 ELSE C[s]
      BY <1>1, <2>1 DEF IpCount
    <2> HIDE DEF X, Y, z
    <2> QED BY <1>2, <1>3, <1>5, <2>2 DEF z
  <1> QED BY <1>4, <1>5

(* One more node, counted. *)
LEMMA CountsAdd ==
    ASSUME NEW T \in IpCount, NEW B \in [Buckets -> IpCount], NEW N, Counts(T, B, N),
           NEW n \in Node, n \notin N, NEW b \in Buckets, b = BucketOf[n.id]
    PROVE  LET u == AddIP([tab |-> T, bucket |-> B[b]], n.ip)
           IN  /\ u.tab \in IpCount /\ u.bucket \in IpCount
               /\ Counts(u.tab, [B EXCEPT ![b] = u.bucket], N \cup {n})
  <1> DEFINE u == AddIP([tab |-> T, bucket |-> B[b]], n.ip)
             M == N \cup {n}
  <1>1. CASE n.ip \in Lan
    <2>1. u.tab = T /\ u.bucket = B[b] /\ [B EXCEPT ![b] = u.bucket] = B
      BY <1>1 DEF AddIP
    <2>2. \A s : Public(M, s) = Public(N, s)
      BY <1>1 DEF Public
    <2>3. \A s, c : Local(M, s, c) = Local(N, s, c)
      BY <2>2 DEF Local
    <2>4. B[b] \in IpCount
      OBVIOUS
    <2> HIDE DEF u, M
    <2>5. Counts(T, B, M)
      BY <2>2, <2>3 DEF Counts
    <2> QED BY <2>1, <2>4, <2>5 DEF u, M
  <1>2. CASE n.ip \notin Lan
    <2> DEFINE z == Subnet[n.ip]
    <2>0. n.ip \in Ips /\ z \in Subnets
      BY TableAssumption DEF Node
    <2>1. B[b] \in IpCount
      OBVIOUS
    <2>2. /\ u.tab \in IpCount /\ u.bucket \in IpCount
          /\ \A s \in Subnets : /\ u.tab[s] = T[s] + (IF s = z THEN 1 ELSE 0)
                               /\ u.bucket[s] = B[b][s] + (IF s = z THEN 1 ELSE 0)
      <3> DEFINE D == B[b]
      <3>1. D \in IpCount /\ u = AddIP([tab |-> T, bucket |-> D], n.ip)
        BY <2>1
      <3> HIDE DEF D, u
      <3>2. LET w == AddIP([tab |-> T, bucket |-> D], n.ip)
            IN  /\ w.tab \in IpCount /\ w.bucket \in IpCount
                /\ w = [tab |-> w.tab, bucket |-> w.bucket]
                /\ \A s \in Subnets :
                      /\ w.tab[s] = T[s] + (IF n.ip \notin Lan /\ s = Subnet[n.ip] THEN 1 ELSE 0)
                      /\ w.bucket[s] = D[s] + (IF n.ip \notin Lan /\ s = Subnet[n.ip] THEN 1 ELSE 0)
        BY <2>0, <3>1, AddIPFacts, ZenonT(60)
      <3> QED BY <1>2, <3>1, <3>2 DEF D
    <2>3. \A c \in Buckets : \A s \in Subnets : T[s] \in Nat /\ B[c][s] \in Nat
      BY DEF IpCount
    <2> HIDE DEF u, z
    <2> DEFINE C == [B EXCEPT ![b] = u.bucket]
    <2>4. \A s \in Subnets : u.tab[s] = IF s = z THEN T[s] + 1 ELSE T[s]
      BY <2>2, <2>3
    <2>5. \A c \in Buckets : \A s \in Subnets :
             C[c][s] = IF c = b /\ s = z THEN B[c][s] + 1 ELSE B[c][s]
      BY <2>2, <2>3
    <2> HIDE DEF C
    <2>6. ASSUME NEW s \in Subnets
          PROVE  /\ IsFiniteSet(Public(M, s))
                 /\ u.tab[s] = Cardinality(Public(M, s))
                 /\ \A c \in Buckets : C[c][s] = Cardinality(Local(M, s, c))
      <3>0. /\ IsFiniteSet(Public(N, s)) /\ T[s] = Cardinality(Public(N, s))
            /\ \A c \in Buckets : B[c][s] = Cardinality(Local(N, s, c))
        BY DEF Counts
      <3>1. CASE s # z
        <4>1. Public(M, s) = Public(N, s)
          BY <3>1 DEF Public, z
        <4>2. \A c : Local(M, s, c) = Local(N, s, c)
          BY <4>1 DEF Local
        <4> QED BY <2>4, <2>5, <3>0, <3>1, <4>1, <4>2
      <3>2. CASE s = z
        <4>1. Public(M, s) = Public(N, s) \cup {n} /\ n \notin Public(N, s)
          BY <1>2, <3>2 DEF Public, z
        <4>2. /\ IsFiniteSet(Public(M, s))
              /\ Cardinality(Public(M, s)) = Cardinality(Public(N, s)) + 1
          <5> HIDE DEF M
          <5> QED BY <3>0, <4>1, FS_AddElement
        <4>3. ASSUME NEW c \in Buckets PROVE C[c][s] = Cardinality(Local(M, s, c))
          <5>1. CASE c = b
            <6>1. Local(M, s, c) = Local(N, s, c) \cup {n} /\ n \notin Local(N, s, c)
              BY <4>1, <5>1 DEF Local
            <6>2. IsFiniteSet(Local(N, s, c))
              BY <3>0, FS_Subset DEF Local
            <6>3. Cardinality(Local(M, s, c)) = Cardinality(Local(N, s, c)) + 1
              BY <6>1, <6>2, FS_AddElement
            <6> QED BY <2>5, <3>0, <3>2, <5>1, <6>3
          <5>2. CASE c # b
            <6>1. Local(M, s, c) = Local(N, s, c)
              BY <4>1, <5>2 DEF Local
            <6> QED BY <2>5, <3>0, <5>2, <6>1
          <5> QED BY <5>1, <5>2
        <4> QED BY <2>4, <3>0, <3>2, <4>2, <4>3
      <3> QED BY <3>1, <3>2
    <2>7. Counts(u.tab, C, M)
      BY <2>6 DEF Counts
    <2> QED BY <2>2, <2>7 DEF u, C
  <1> QED BY <1>1, <1>2

(* One node less, uncounted; the counters were positive. *)
LEMMA CountsRemove ==
    ASSUME NEW T \in IpCount, NEW B \in [Buckets -> IpCount], NEW N, Counts(T, B, N),
           NEW n \in Node, n \in N, NEW b \in Buckets, b = BucketOf[n.id]
    PROVE  LET u == RemoveIP([tab |-> T, bucket |-> B[b]], n.ip)
           IN  /\ u.tab \in IpCount /\ u.bucket \in IpCount
               /\ Counts(u.tab, [B EXCEPT ![b] = u.bucket], N \ {n})
               /\ n.ip \notin Lan => T[Subnet[n.ip]] > 0 /\ B[b][Subnet[n.ip]] > 0
  <1> DEFINE u == RemoveIP([tab |-> T, bucket |-> B[b]], n.ip)
             M == N \ {n}
  <1>1. CASE n.ip \in Lan
    <2>1. u.tab = T /\ u.bucket = B[b] /\ [B EXCEPT ![b] = u.bucket] = B
      BY <1>1 DEF RemoveIP
    <2>2. \A s : Public(M, s) = Public(N, s)
      BY <1>1 DEF Public
    <2>3. \A s, c : Local(M, s, c) = Local(N, s, c)
      BY <2>2 DEF Local
    <2>4. B[b] \in IpCount
      OBVIOUS
    <2> HIDE DEF u, M
    <2>5. Counts(T, B, M)
      BY <2>2, <2>3 DEF Counts
    <2> QED BY <1>1, <2>1, <2>4, <2>5 DEF u, M
  <1>2. CASE n.ip \notin Lan
    <2> DEFINE z == Subnet[n.ip]
    <2>0. n.ip \in Ips /\ z \in Subnets
      BY TableAssumption DEF Node
    <2>a. /\ n \in Public(N, z) /\ n \in Local(N, z, b)
          /\ IsFiniteSet(Public(N, z)) /\ IsFiniteSet(Local(N, z, b))
      <3>1. n \in Public(N, z)
        BY <1>2 DEF Public
      <3>2. n \in Local(N, z, b)
        BY <3>1 DEF Local
      <3>3. IsFiniteSet(Public(N, z))
        BY <2>0 DEF Counts
      <3>4. IsFiniteSet(Local(N, z, b))
        BY <3>3, FS_Subset DEF Local
      <3> QED BY <3>1, <3>2, <3>3, <3>4
    <2>b. T[z] = Cardinality(Public(N, z)) /\ B[b][z] = Cardinality(Local(N, z, b))
      BY <2>0 DEF Counts
    <2>c. /\ Cardinality(Public(N, z) \ {n}) = T[z] - 1
          /\ Cardinality(Local(N, z, b) \ {n}) = B[b][z] - 1
      <3>1. Cardinality(Public(N, z) \ {n}) = Cardinality(Public(N, z)) - 1
        BY <2>a, FS_RemoveElement
      <3>2. Cardinality(Local(N, z, b) \ {n}) = Cardinality(Local(N, z, b)) - 1
        BY <2>a, FS_RemoveElement
      <3> QED BY <2>b, <3>1, <3>2
    <2>d. T[z] \in Nat /\ T[z] > 0 /\ B[b][z] \in Nat /\ B[b][z] > 0
      <3>1. Public(N, z) # {} /\ Local(N, z, b) # {}
        BY <2>a
      <3>2. T[z] # 0 /\ B[b][z] # 0
        BY <2>a, <2>b, <3>1, FS_EmptySet
      <3>3. T[z] \in Nat /\ B[b][z] \in Nat
        BY <2>0 DEF IpCount
      <3> QED BY <3>2, <3>3
    <2>1. B[b] \in IpCount
      OBVIOUS
    <2>2. /\ u.tab \in IpCount /\ u.bucket \in IpCount
          /\ \A s \in Subnets : /\ u.tab[s] = T[s] - (IF s = z THEN 1 ELSE 0)
                               /\ u.bucket[s] = B[b][s] - (IF s = z THEN 1 ELSE 0)
      <3> DEFINE D == B[b]
      <3>1. D \in IpCount /\ u = RemoveIP([tab |-> T, bucket |-> D], n.ip)
        BY <2>1
      <3> HIDE DEF D, u
      <3>3. n.ip \notin Lan => T[Subnet[n.ip]] > 0 /\ D[Subnet[n.ip]] > 0
        BY <2>d DEF D
      <3>2. LET w == RemoveIP([tab |-> T, bucket |-> D], n.ip)
            IN  /\ w.tab \in IpCount /\ w.bucket \in IpCount
                /\ w = [tab |-> w.tab, bucket |-> w.bucket]
                /\ \A s \in Subnets :
                      /\ w.tab[s] = T[s] - (IF n.ip \notin Lan /\ s = Subnet[n.ip] THEN 1 ELSE 0)
                      /\ w.bucket[s] = D[s] - (IF n.ip \notin Lan /\ s = Subnet[n.ip] THEN 1 ELSE 0)
        BY <2>0, <3>1, <3>3, RemoveIPFacts, ZenonT(60)
      <3> QED BY <1>2, <3>1, <3>2 DEF D
    <2>3. \A c \in Buckets : \A s \in Subnets : T[s] \in Nat /\ B[c][s] \in Nat
      BY DEF IpCount
    <2> HIDE DEF u, z
    <2> DEFINE C == [B EXCEPT ![b] = u.bucket]
    <2>4. \A s \in Subnets : u.tab[s] = IF s = z THEN T[s] - 1 ELSE T[s]
      BY <2>2, <2>3
    <2>5. \A c \in Buckets : \A s \in Subnets :
             C[c][s] = IF c = b /\ s = z THEN B[c][s] - 1 ELSE B[c][s]
      BY <2>2, <2>3
    <2> HIDE DEF C
    <2>6. ASSUME NEW s \in Subnets
          PROVE  /\ IsFiniteSet(Public(M, s))
                 /\ u.tab[s] = Cardinality(Public(M, s))
                 /\ \A c \in Buckets : C[c][s] = Cardinality(Local(M, s, c))
      <3>0. /\ IsFiniteSet(Public(N, s)) /\ T[s] = Cardinality(Public(N, s))
            /\ \A c \in Buckets : B[c][s] = Cardinality(Local(N, s, c))
        BY DEF Counts
      <3>1. CASE s # z
        <4>1. Public(M, s) = Public(N, s)
          BY <3>1 DEF Public, z
        <4>2. \A c : Local(M, s, c) = Local(N, s, c)
          BY <4>1 DEF Local
        <4> QED BY <2>4, <2>5, <3>0, <3>1, <4>1, <4>2
      <3>2. CASE s = z
        <4>1. Public(M, s) = Public(N, s) \ {n}
          BY DEF Public
        <4>2. IsFiniteSet(Public(M, s))
          BY <3>0, <4>1, FS_Subset
        <4>3. ASSUME NEW c \in Buckets PROVE C[c][s] = Cardinality(Local(M, s, c))
          <5>1. CASE c = b
            <6>1. Local(M, s, c) = Local(N, s, c) \ {n}
              BY <4>1 DEF Local
            <6> QED BY <2>5, <2>c, <3>2, <5>1, <6>1
          <5>2. CASE c # b
            <6>1. Local(M, s, c) = Local(N, s, c)
              BY <4>1, <5>2 DEF Local
            <6> QED BY <2>5, <3>0, <5>2, <6>1
          <5> QED BY <5>1, <5>2
        <4> QED BY <2>4, <2>c, <3>2, <4>1, <4>2, <4>3
      <3> QED BY <3>1, <3>2
    <2>7. Counts(u.tab, C, M)
      BY <2>6 DEF Counts
    <2> QED BY <2>2, <2>7, <2>d DEF u, C, z
  <1> QED BY <1>1, <1>2

(* The counters after the pair u of bucket b is stored. *)
Pairs == [tab : IpCount, bucket : IpCount]
Ok(u, b, N) ==
    LET B == [bucketIps EXCEPT ![b] = u.bucket]
    IN  Counts(u.tab, B, N) /\ Limits(u.tab, B)

(* The parts of a pair of counters. *)
LEMMA PairFacts ==
    ASSUME NEW u \in Pairs
    PROVE  u.tab \in IpCount /\ u.bucket \in IpCount /\ u = [tab |-> u.tab, bucket |-> u.bucket]
  BY DEF Pairs

(* The pair an operation on a bucket starts from. *)
LEMMA OkBefore ==
    ASSUME StoreInv, NEW b \in Buckets
    PROVE  Ipset(b) \in Pairs /\ Ok(Ipset(b), b, AllNodes)
  <1>1. Ipset(b) \in Pairs /\ Ipset(b).tab = tableIps /\ Ipset(b).bucket = bucketIps[b]
    BY DEF Ipset, StoreInv, Pairs
  <1>2. [bucketIps EXCEPT ![b] = bucketIps[b]] = bucketIps
    BY DEF StoreInv
  <1> QED BY <1>1, <1>2 DEF Ok, StoreInv, CountInv, LimitInv

(* An operation that stores a pair that is right keeps the counters right. *)
LEMMA OkAfter ==
    ASSUME StoreInv, NEW b \in Buckets, NEW u \in Pairs, SetIps(b, u), Ok(u, b, AllNodes')
    PROVE  tableIps' \in IpCount /\ bucketIps' \in [Buckets -> IpCount] /\ CountInv' /\ LimitInv'
  <1>1. tableIps' = u.tab /\ bucketIps' = [bucketIps EXCEPT ![b] = u.bucket]
    BY DEF SetIps
  <1>2. tableIps' \in IpCount /\ bucketIps' \in [Buckets -> IpCount]
    BY <1>1, PairFacts DEF StoreInv
  <1>3. Counts(tableIps', bucketIps', AllNodes') /\ Limits(tableIps', bucketIps')
    BY <1>1 DEF Ok
  <1> QED BY <1>2, <1>3 DEF CountInv, LimitInv, Counts, Limits, Public, Local

(* Counting an address that is admitted, for a node that comes in. *)
LEMMA OkAdd ==
    ASSUME bucketIps \in [Buckets -> IpCount], NEW b \in Buckets, NEW u \in Pairs,
           NEW N, Ok(u, b, N), NEW n \in Node, n \notin N, BucketOf[n.id] = b,
           AddIPOk(u, n.ip)
    PROVE  AddIP(u, n.ip) \in Pairs /\ Ok(AddIP(u, n.ip), b, N \cup {n})
  <1> DEFINE T == u.tab
             B == [bucketIps EXCEPT ![b] = u.bucket]
             w == AddIP(u, n.ip)
             C == [B EXCEPT ![b] = w.bucket]
  <1>1. T \in IpCount /\ B \in [Buckets -> IpCount] /\ B[b] = u.bucket
    BY PairFacts
  <1>2. u = [tab |-> T, bucket |-> B[b]] /\ u = [tab |-> T, bucket |-> u.bucket]
    BY <1>1, PairFacts
  <1>3. C = [bucketIps EXCEPT ![b] = w.bucket]
    BY <1>1
  <1>4. Counts(T, B, N) /\ Limits(T, B)
    BY DEF Ok
  <1>5. n.ip \in Ips
    BY DEF Node
  <1>6. AddIPOk(u, n.ip) <=>
           (n.ip \in Lan \/ (T[Subnet[n.ip]] < tableIPLimit /\ B[b][Subnet[n.ip]] < bucketIPLimit))
    BY <1>1 DEF AddIPOk
  <1>0. u.bucket \in IpCount
    BY PairFacts
  <1> HIDE DEF T, B
  <1>7. /\ w.tab \in IpCount /\ w.bucket \in IpCount
        /\ w = [tab |-> w.tab, bucket |-> w.bucket]
        /\ \A s \in Subnets :
              /\ w.tab[s] = T[s] + (IF n.ip \notin Lan /\ s = Subnet[n.ip] THEN 1 ELSE 0)
              /\ w.bucket[s] = u.bucket[s] + (IF n.ip \notin Lan /\ s = Subnet[n.ip] THEN 1 ELSE 0)
    <2> DEFINE D == u.bucket
               y == AddIP([tab |-> T, bucket |-> D], n.ip)
    <2>1. T \in IpCount /\ D \in IpCount /\ n.ip \in Ips
      BY <1>0, <1>1, <1>5
    <2>2. w = y
      BY <1>2
    <2> HIDE DEF D, w
    <2>4. /\ y.tab \in IpCount /\ y.bucket \in IpCount
          /\ y = [tab |-> y.tab, bucket |-> y.bucket]
          /\ \A s \in Subnets :
                /\ y.tab[s] = T[s] + (IF n.ip \notin Lan /\ s = Subnet[n.ip] THEN 1 ELSE 0)
                /\ y.bucket[s] = D[s] + (IF n.ip \notin Lan /\ s = Subnet[n.ip] THEN 1 ELSE 0)
      BY <2>1, AddIPFacts, ZenonT(60)
    <2> HIDE DEF y
    <2> QED BY <2>2, <2>4 DEF D
  <1>8. Counts(w.tab, C, N \cup {n})
    <2>1. LET x == AddIP([tab |-> T, bucket |-> B[b]], n.ip)
          IN  /\ x.tab \in IpCount /\ x.bucket \in IpCount
              /\ Counts(x.tab, [B EXCEPT ![b] = x.bucket], N \cup {n})
      BY <1>1, <1>4, CountsAdd, Zenon
    <2> QED BY <1>2, <2>1
  <1> HIDE DEF w
  <1>9. Limits(w.tab, C)
    <2> SUFFICES ASSUME NEW s \in Subnets
                 PROVE  /\ w.tab[s] <= tableIPLimit
                        /\ \A c \in Buckets : C[c][s] <= bucketIPLimit
      BY DEF Limits
    <2>1. /\ T[s] \in Nat /\ T[s] <= tableIPLimit /\ u.bucket[s] \in Nat
          /\ \A c \in Buckets : B[c][s] <= bucketIPLimit
          /\ tableIPLimit \in Nat /\ bucketIPLimit \in Nat
      BY <1>0, <1>1, <1>4, TableAssumption DEF Limits, IpCount
    <2>2. w.tab[s] <= tableIPLimit /\ w.bucket[s] <= bucketIPLimit
      BY <1>1, <1>6, <1>7, <2>1
    <2>3. \A c \in Buckets : C[c][s] = IF c = b THEN w.bucket[s] ELSE B[c][s]
      BY <1>1
    <2> QED BY <2>1, <2>2, <2>3
  <1>10. Ok(w, b, N \cup {n})
    BY <1>3, <1>8, <1>9 DEF Ok
  <1>11. w \in Pairs
    BY <1>7 DEF Pairs
  <1> QED BY <1>10, <1>11 DEF w

(* An address that was taken out can go in again, which restores the pair. *)
LEMMA OkRemove ==
    ASSUME bucketIps \in [Buckets -> IpCount], NEW b \in Buckets, NEW u \in Pairs,
           NEW N, Ok(u, b, N), NEW n \in Node, n \in N, BucketOf[n.id] = b
    PROVE  LET w == RemoveIP(u, n.ip)
           IN  /\ w \in Pairs /\ Ok(w, b, N \ {n})
               /\ AddIPOk(w, n.ip) /\ AddIP(w, n.ip) = u
  <1> DEFINE T == u.tab
             B == [bucketIps EXCEPT ![b] = u.bucket]
             w == RemoveIP(u, n.ip)
             C == [B EXCEPT ![b] = w.bucket]
  <1>1. T \in IpCount /\ B \in [Buckets -> IpCount] /\ B[b] = u.bucket
    BY PairFacts
  <1>2. u = [tab |-> T, bucket |-> B[b]] /\ u = [tab |-> T, bucket |-> u.bucket]
    BY <1>1, PairFacts
  <1>3. C = [bucketIps EXCEPT ![b] = w.bucket]
    BY <1>1
  <1>4. Counts(T, B, N) /\ Limits(T, B)
    BY DEF Ok
  <1>5. n.ip \in Ips /\ Subnet[n.ip] \in Subnets
    BY TableAssumption DEF Node
  <1>0. u.bucket \in IpCount
    BY PairFacts
  <1> HIDE DEF T, B
  <1>6. /\ Counts(w.tab, C, N \ {n})
        /\ n.ip \notin Lan => T[Subnet[n.ip]] > 0 /\ u.bucket[Subnet[n.ip]] > 0
    <2>1. LET x == RemoveIP([tab |-> T, bucket |-> B[b]], n.ip)
          IN  /\ x.tab \in IpCount /\ x.bucket \in IpCount
              /\ Counts(x.tab, [B EXCEPT ![b] = x.bucket], N \ {n})
              /\ n.ip \notin Lan => T[Subnet[n.ip]] > 0 /\ B[b][Subnet[n.ip]] > 0
      BY <1>1, <1>4, CountsRemove, Zenon
    <2> QED BY <1>1, <1>2, <2>1
  <1>7. /\ w.tab \in IpCount /\ w.bucket \in IpCount
        /\ w = [tab |-> w.tab, bucket |-> w.bucket]
        /\ \A s \in Subnets :
              /\ w.tab[s] = T[s] - (IF n.ip \notin Lan /\ s = Subnet[n.ip] THEN 1 ELSE 0)
              /\ w.bucket[s] = u.bucket[s] - (IF n.ip \notin Lan /\ s = Subnet[n.ip] THEN 1 ELSE 0)
    <2> DEFINE D == u.bucket
               y == RemoveIP([tab |-> T, bucket |-> D], n.ip)
    <2>1. T \in IpCount /\ D \in IpCount /\ n.ip \in Ips
      BY <1>0, <1>1, <1>5
    <2>2. w = y
      BY <1>2
    <2>3. n.ip \notin Lan => T[Subnet[n.ip]] > 0 /\ D[Subnet[n.ip]] > 0
      BY <1>6
    <2> HIDE DEF D, w
    <2>4. /\ y.tab \in IpCount /\ y.bucket \in IpCount
          /\ y = [tab |-> y.tab, bucket |-> y.bucket]
          /\ \A s \in Subnets :
                /\ y.tab[s] = T[s] - (IF n.ip \notin Lan /\ s = Subnet[n.ip] THEN 1 ELSE 0)
                /\ y.bucket[s] = D[s] - (IF n.ip \notin Lan /\ s = Subnet[n.ip] THEN 1 ELSE 0)
      BY <2>1, <2>3, RemoveIPFacts, ZenonT(60)
    <2> HIDE DEF y
    <2> QED BY <2>2, <2>4 DEF D
  <1> HIDE DEF w
  <1>8. \A s \in Subnets : /\ T[s] \in Nat /\ T[s] <= tableIPLimit
                          /\ u.bucket[s] \in Nat /\ u.bucket[s] <= bucketIPLimit
                          /\ \A c \in Buckets : B[c][s] <= bucketIPLimit
    BY <1>0, <1>1, <1>4 DEF Limits, IpCount
  <1>9. tableIPLimit \in Nat /\ bucketIPLimit \in Nat
    BY TableAssumption
  <1>10. Limits(w.tab, C)
    <2> SUFFICES ASSUME NEW s \in Subnets
                 PROVE  /\ w.tab[s] <= tableIPLimit
                        /\ \A c \in Buckets : C[c][s] <= bucketIPLimit
      BY DEF Limits
    <2>2. w.tab[s] <= tableIPLimit /\ w.bucket[s] <= bucketIPLimit
      BY <1>7, <1>8, <1>9
    <2>3. \A c \in Buckets : C[c][s] = IF c = b THEN w.bucket[s] ELSE B[c][s]
      BY <1>1
    <2> QED BY <1>8, <2>2, <2>3
  <1>11. w \in Pairs /\ Ok(w, b, N \ {n})
    BY <1>3, <1>6, <1>7, <1>10 DEF Ok, Pairs
  <1>12. AddIPOk(w, n.ip)
    <2>1. CASE n.ip \notin Lan
      <3>1. w.tab[Subnet[n.ip]] = T[Subnet[n.ip]] - 1
            /\ w.bucket[Subnet[n.ip]] = u.bucket[Subnet[n.ip]] - 1
        BY <1>5, <1>7, <2>1
      <3>2. w.tab[Subnet[n.ip]] < tableIPLimit /\ w.bucket[Subnet[n.ip]] < bucketIPLimit
        BY <1>5, <1>8, <1>9, <3>1
      <3> QED BY <3>2 DEF AddIPOk
    <2>2. CASE n.ip \in Lan
      BY <2>2 DEF AddIPOk
    <2> QED BY <2>1, <2>2
  <1>13. AddIP(w, n.ip) = u
    <2> DEFINE t == w.tab
               k == w.bucket
               y == AddIP([tab |-> t, bucket |-> k], n.ip)
    <2>0. t \in IpCount /\ k \in IpCount /\ AddIP(w, n.ip) = y
      BY <1>7
    <2>1. LET x == AddIP([tab |-> t, bucket |-> k], n.ip)
          IN  /\ x.tab \in IpCount /\ x.bucket \in IpCount
              /\ x = [tab |-> x.tab, bucket |-> x.bucket]
              /\ \A s \in Subnets :
                    /\ x.tab[s] = t[s] + (IF n.ip \notin Lan /\ s = Subnet[n.ip] THEN 1 ELSE 0)
                    /\ x.bucket[s] = k[s] + (IF n.ip \notin Lan /\ s = Subnet[n.ip] THEN 1 ELSE 0)
      <3> HIDE DEF t, k
      <3> QED BY <1>5, <2>0, AddIPFacts, ZenonT(60)
    <2> HIDE DEF y
    <2>2. \A s \in Subnets : y.tab[s] = T[s] /\ y.bucket[s] = u.bucket[s]
      BY <1>7, <1>8, <2>1 DEF y
    <2>3. y.tab \in IpCount /\ y.bucket \in IpCount /\ y = [tab |-> y.tab, bucket |-> y.bucket]
      BY <2>1 DEF y
    <2>4. y.tab = T /\ y.bucket = u.bucket
      BY <1>0, <1>1, <2>2, <2>3 DEF IpCount
    <2> QED BY <1>2, <2>0, <2>3, <2>4
  <1> QED BY <1>11, <1>12, <1>13 DEF w

-----------------------------------------------------------------------------
(* Buckets. *)

(* The nodes of a bucket. *)
Cell(b) == ToSet(entries[b]) \cup ToSet(replacements[b])

(* The elements of a list of nodes are nodes. *)
LEMMA ToSetType ==
    ASSUME NEW q \in Seq(Node) PROVE ToSet(q) \subseteq Node
  BY InToSet

(* A bucket holds the nodes of the table that belong there, each id once. *)
LEMMA CellFacts ==
    ASSUME StoreInv
    PROVE  /\ AllNodes \subseteq Node
           /\ \A b \in Buckets : Cell(b) = {x \in AllNodes : BucketOf[x.id] = b}
           /\ \A x, y \in AllNodes : x.id = y.id => x = y
  <1>1. ASSUME NEW b \in Buckets
        PROVE  /\ entries[b] \in Seq(Node) /\ replacements[b] \in Seq(Node)
               /\ Good(entries[b], replacements[b], b)
    BY DEF StoreInv, GoodInv
  <1>2. AllNodes = UNION {Cell(b) : b \in Buckets}
    BY DEF AllNodes, Cell
  <1>3. ASSUME NEW b \in Buckets, NEW x \in Cell(b) PROVE x \in Node /\ BucketOf[x.id] = b
    BY <1>1, ToSetType DEF Cell, Good
  <1>4. ASSUME NEW b \in Buckets, NEW x \in Cell(b), NEW y \in Cell(b), x.id = y.id PROVE x = y
    <2>1. CASE x \in ToSet(entries[b]) /\ y \in ToSet(entries[b])
      BY <1>1, <1>4, <2>1, DistinctMeans DEF Good
    <2>2. CASE x \in ToSet(replacements[b]) /\ y \in ToSet(replacements[b])
      BY <1>1, <1>4, <2>2, DistinctMeans DEF Good
    <2> QED BY <1>1, <1>4, <2>1, <2>2 DEF Cell, Good
  <1> HIDE DEF Cell
  <1>5. AllNodes \subseteq Node
    BY <1>2, <1>3
  <1>6. \A b \in Buckets : Cell(b) = {x \in AllNodes : BucketOf[x.id] = b}
    BY <1>2, <1>3
  <1>7. ASSUME NEW x \in AllNodes, NEW y \in AllNodes, x.id = y.id PROVE x = y
    <2>1. PICK b \in Buckets : x \in Cell(b)
      BY <1>2
    <2>2. y \in Cell(b)
      BY <1>6, <1>7, <2>1
    <2> QED BY <1>4, <1>7, <2>1, <2>2
  <1> QED BY <1>5, <1>6, <1>7

(* A step that gives bucket b the lists E and R: the nodes of X leave it    *)
(* and those of Y come.                                                    *)
NewLists(b, E, R, X, Y) ==
    /\ E \in Seq(Node) /\ R \in Seq(Node)
    /\ entries' = [entries EXCEPT ![b] = E]
    /\ replacements' = [replacements EXCEPT ![b] = R]
    /\ Good(E, R, b) /\ Len(E) <= bucketSize /\ (R # << >> => Len(E) = bucketSize)
    /\ X \subseteq Cell(b) /\ ToSet(E) \cup ToSet(R) = (Cell(b) \ X) \cup Y

(* Such a step keeps the lists of every bucket good. *)
LEMMA BucketStep ==
    ASSUME StoreInv, NEW b \in Buckets, NEW E, NEW R, NEW X, NEW Y, NewLists(b, E, R, X, Y)
    PROVE  /\ entries' \in [Buckets -> Seq(Node)] /\ replacements' \in [Buckets -> Seq(Node)]
           /\ GoodInv' /\ FullInv'
           /\ AllNodes' = (AllNodes \ X) \cup Y
  <1> USE DEF NewLists
  <1>1. entries \in [Buckets -> Seq(Node)] /\ replacements \in [Buckets -> Seq(Node)]
    BY DEF StoreInv
  <1>2. /\ entries' \in [Buckets -> Seq(Node)] /\ replacements' \in [Buckets -> Seq(Node)]
        /\ entries'[b] = E /\ replacements'[b] = R
        /\ \A c \in Buckets : c # b => entries'[c] = entries[c] /\ replacements'[c] = replacements[c]
    BY <1>1
  <1>3. GoodInv'
    <2> SUFFICES ASSUME NEW c \in Buckets PROVE Good(entries'[c], replacements'[c], c)
      BY DEF GoodInv, Good, Distinct
    <2>1. CASE c = b
      BY <1>2, <2>1
    <2>2. CASE c # b
      BY <1>2, <2>2 DEF StoreInv, GoodInv
    <2> QED BY <2>1, <2>2
  <1>4. FullInv'
    <2> SUFFICES ASSUME NEW c \in Buckets
                 PROVE  /\ Len(entries'[c]) <= bucketSize
                        /\ replacements'[c] # << >> => Len(entries'[c]) = bucketSize
      BY DEF FullInv
    <2>1. CASE c = b
      BY <1>2, <2>1
    <2>2. CASE c # b
      BY <1>2, <2>2 DEF StoreInv, FullInv
    <2> QED BY <2>1, <2>2
  <1>5. \A c \in Buckets : Cell(c)' = IF c = b THEN (Cell(b) \ X) \cup Y ELSE Cell(c)
    BY <1>2 DEF Cell
  <1>6. AllNodes = UNION {Cell(c) : c \in Buckets} /\ AllNodes' = UNION {Cell(c)' : c \in Buckets}
    BY DEF AllNodes, Cell
  <1>7. \A c \in Buckets : Cell(c) = {x \in AllNodes : BucketOf[x.id] = c}
    BY CellFacts
  <1> HIDE DEF Cell
  <1>8. ASSUME NEW x PROVE x \in AllNodes' <=> x \in (AllNodes \ X) \cup Y
    <2>1. x \in AllNodes' <=> \E c \in Buckets : x \in Cell(c)'
      BY <1>6
    <2>2. x \in AllNodes <=> \E c \in Buckets : x \in Cell(c)
      BY <1>6
    <2>3. ASSUME NEW c \in Buckets, x \in Cell(c)' PROVE x \in (AllNodes \ X) \cup Y
      BY <1>5, <1>7, <2>3
    <2>4. ASSUME x \in (AllNodes \ X) \cup Y PROVE \E c \in Buckets : x \in Cell(c)'
      <3>1. CASE x \in Y
        BY <1>5, <3>1
      <3>2. CASE x \in AllNodes \ X
        BY <1>5, <2>2, <3>2
      <3> QED BY <2>4, <3>1, <3>2
    <2> QED BY <2>1, <2>3, <2>4
  <1> QED BY <1>2, <1>3, <1>4, <1>8

(* Adding nodes never takes an id out of the entries. *)
KeepsIds ==
    \A c \in Buckets : \A x \in ToSet(entries[c]) : \E y \in ToSet(entries'[c]) : y.id = x.id

(* A replacement is added, perhaps in the place of the oldest one. *)
LEMMA ReplacementStep ==
    ASSUME StoreInv, NEW n \in Node, n.id # Self, NEW b \in Buckets, b = BucketOf[n.id],
           ~ HasId(entries[b], n.id), Len(entries[b]) >= bucketSize, UNCHANGED entries,
           ~ HasId(replacements[b], n.id), AddIPOk(Ipset(b), n.ip),
           replacements' = [replacements EXCEPT ![b] = pushNode(@, n, maxReplacements)],
           SetIps(b, IF Len(replacements[b]) < maxReplacements THEN AddIP(Ipset(b), n.ip)
                     ELSE RemoveIP(AddIP(Ipset(b), n.ip), Last(replacements[b]).ip))
    PROVE  StoreInv' /\ AllNodes' \subseteq AllNodes \cup {n}
  <1> DEFINE E == entries[b]
             R == replacements[b]
             P == pushNode(R, n, maxReplacements)
             o == Last(R)
             X == IF Len(R) < maxReplacements THEN {} ELSE {o}
             u == AddIP(Ipset(b), n.ip)
  <1>1. /\ E \in Seq(Node) /\ R \in Seq(Node) /\ Good(E, R, b) /\ Len(E) = bucketSize
        /\ maxReplacements \in Nat \ {0} /\ bucketSize \in Nat
    <2>1. E \in Seq(Node) /\ R \in Seq(Node) /\ Good(E, R, b) /\ Len(E) <= bucketSize
      BY DEF StoreInv, GoodInv, FullInv
    <2> QED BY <2>1, TableAssumption
  <1>2. /\ P \in Seq(Node) /\ Distinct(P)
        /\ IF Len(R) < maxReplacements
           THEN ToSet(P) = ToSet(R) \cup {n}
           ELSE /\ o \in ToSet(R) /\ o \in Node
                /\ ToSet(P) = (ToSet(R) \ {o}) \cup {n}
    BY <1>1, PushList DEF Good
  <1>3. ToSet(P) = (ToSet(R) \ X) \cup {n} /\ X \subseteq ToSet(R)
    BY <1>2
  <1>4. /\ \A x \in ToSet(E) : x.id # n.id
        /\ \A x \in ToSet(R) : x.id # n.id
    BY <1>1, HasIdMeans
  <1>5. entries' = [entries EXCEPT ![b] = E] /\ replacements' = [replacements EXCEPT ![b] = P]
    BY DEF StoreInv
  <1> HIDE DEF P, X, E, R
  <1>6. Good(E, P, b)
    BY <1>1, <1>2, <1>3, <1>4 DEF Good
  <1>7. Cell(b) = ToSet(E) \cup ToSet(R)
    BY DEF Cell, E, R
  <1>8. X \subseteq Cell(b) /\ ToSet(E) \cup ToSet(P) = (Cell(b) \ X) \cup {n}
    <2>1. ToSet(E) \cap X = {}
      BY <1>1, <1>3 DEF Good
    <2> QED BY <1>3, <1>7, <2>1
  <1>9. /\ entries' \in [Buckets -> Seq(Node)] /\ replacements' \in [Buckets -> Seq(Node)]
        /\ GoodInv' /\ FullInv'
        /\ AllNodes' = (AllNodes \ X) \cup {n}
    <2>0. E \in Seq(Node) /\ P \in Seq(Node) /\ Len(E) <= bucketSize /\ Len(E) = bucketSize
      BY <1>1, <1>2
    <2>1. NewLists(b, E, P, X, {n})
      BY <1>5, <1>6, <1>8, <2>0, Zenon DEF NewLists
    <2> QED BY <2>1, BucketStep
  <1>10. Cell(b) = {x \in AllNodes : BucketOf[x.id] = b}
    BY CellFacts
  <1>11. n \notin AllNodes
    BY <1>4, <1>7, <1>10
  <1>12. Ipset(b) \in Pairs /\ Ok(Ipset(b), b, AllNodes) /\ bucketIps \in [Buckets -> IpCount]
    BY OkBefore DEF StoreInv
  <1>13. u \in Pairs /\ Ok(u, b, AllNodes \cup {n})
    BY <1>11, <1>12, OkAdd
  <1> HIDE DEF u
  <1>14. CASE Len(R) < maxReplacements
    <2>1. SetIps(b, u) /\ AllNodes' = AllNodes \cup {n}
      BY <1>9, <1>14 DEF u, R, X
    <2> QED BY <1>9, <1>13, <2>1, OkAfter DEF StoreInv
  <1>15. CASE ~ Len(R) < maxReplacements
    <2> DEFINE w == RemoveIP(u, o.ip)
    <2>1. X = {o} /\ o \in Node /\ o \in ToSet(R)
      BY <1>2, <1>15 DEF X
    <2>2. o \in AllNodes \cup {n} /\ BucketOf[o.id] = b /\ o # n
      BY <1>4, <1>7, <1>10, <2>1
    <2>3. w \in Pairs /\ Ok(w, b, (AllNodes \cup {n}) \ {o})
      BY <1>12, <1>13, <2>1, <2>2, OkRemove
    <2>4. SetIps(b, w)
      BY <1>15 DEF u, R
    <2>5. AllNodes' = (AllNodes \cup {n}) \ {o}
      BY <1>9, <2>1, <2>2
    <2> HIDE DEF w
    <2> QED BY <1>9, <2>3, <2>4, <2>5, OkAfter DEF StoreInv
  <1> QED BY <1>14, <1>15

(* An entry is added.  The bucket was not full, so it has no replacements. *)
LEMMA EntryStep ==
    ASSUME StoreInv, NEW n \in Node, n.id # Self, NEW b \in Buckets, b = BucketOf[n.id],
           ~ HasId(entries[b], n.id), Len(entries[b]) < bucketSize,
           AddIPOk(Ipset(b), n.ip), SetIps(b, AddIP(Ipset(b), n.ip)),
           entries' = [entries EXCEPT ![b] = Append(@, n)],
           replacements' = [replacements EXCEPT ![b] = deleteNode(@, n)]
    PROVE  /\ StoreInv' /\ AllNodes' \subseteq AllNodes \cup {n}
           /\ \A c \in Buckets : ToSet(entries[c]) \subseteq ToSet(entries'[c])
  <1> DEFINE E == entries[b]
             R == replacements[b]
             P == Append(E, n)
             u == AddIP(Ipset(b), n.ip)
  <1>1. /\ E \in Seq(Node) /\ Good(E, R, b) /\ Len(E) \in Nat /\ R = << >>
        /\ bucketSize \in Nat
    <2>1. /\ E \in Seq(Node) /\ R \in Seq(Node) /\ Good(E, R, b)
          /\ R # << >> => Len(E) = bucketSize
      BY DEF StoreInv, GoodInv, FullInv
    <2> QED BY <2>1, TableAssumption
  <1>2. ToSet(R) = {} /\ deleteNode(R, n) = R /\ R \in Seq(Node)
    <2>1. ~ HasId(R, n.id)
      BY <1>1 DEF HasId
    <2> QED BY <1>1, <2>1 DEF deleteNode, ToSet
  <1>3. /\ P \in Seq(Node) /\ Len(P) = Len(E) + 1 /\ ToSet(P) = ToSet(E) \cup {n}
        /\ Distinct(P)
    BY <1>1, AppendList DEF Good
  <1>4. \A x \in ToSet(E) : x.id # n.id
    BY <1>1, HasIdMeans
  <1>5. entries' = [entries EXCEPT ![b] = P] /\ replacements' = [replacements EXCEPT ![b] = R]
    BY <1>2
  <1>6. Len(P) <= bucketSize
    BY <1>1, <1>3
  <1> HIDE DEF P, E, R
  <1>7. Good(P, R, b)
    BY <1>1, <1>2, <1>3 DEF Good
  <1>8. Cell(b) = ToSet(E) /\ ToSet(P) \cup ToSet(R) = (Cell(b) \ {}) \cup {n}
    BY <1>2, <1>3 DEF Cell, E, R
  <1>9. /\ entries' \in [Buckets -> Seq(Node)] /\ replacements' \in [Buckets -> Seq(Node)]
        /\ GoodInv' /\ FullInv'
        /\ AllNodes' = (AllNodes \ {}) \cup {n}
    <2>1. NewLists(b, P, R, {}, {n})
      BY <1>1, <1>2, <1>3, <1>5, <1>6, <1>7, <1>8 DEF NewLists
    <2> QED BY <2>1, BucketStep
  <1>10. n \notin AllNodes
    BY <1>4, <1>8, CellFacts
  <1>11. Ipset(b) \in Pairs /\ Ok(Ipset(b), b, AllNodes) /\ bucketIps \in [Buckets -> IpCount]
    BY OkBefore DEF StoreInv
  <1>12. u \in Pairs /\ Ok(u, b, AllNodes \cup {n})
    BY <1>10, <1>11, OkAdd
  <1>13. AllNodes' = AllNodes \cup {n} /\ SetIps(b, u)
    BY <1>9
  <1> HIDE DEF u
  <1>14. StoreInv'
    BY <1>9, <1>12, <1>13, OkAfter DEF StoreInv
  <1>15. ASSUME NEW c \in Buckets PROVE ToSet(entries[c]) \subseteq ToSet(entries'[c])
    <2>1. CASE c = b
      <3>1. entries'[c] = P /\ entries[c] = E
        BY <1>5, <2>1 DEF StoreInv, E
      <3> QED BY <1>3, <3>1
    <2>2. CASE c # b
      BY <1>5, <2>2 DEF StoreInv
    <2> QED BY <2>1, <2>2
  <1> QED BY <1>13, <1>14, <1>15

(* An entry moves to the front of its bucket, as the node object n. *)
LEMMA MoveStep ==
    ASSUME StoreInv, NEW b \in Buckets, NEW n \in Node,
           NEW i \in 1 .. Len(entries[b]), entries[b][i].id = n.id,
           entries' = [entries EXCEPT ![b] = <<n>> \o RemoveAt(@, i)],
           UNCHANGED replacements
    PROVE  /\ entries' \in [Buckets -> Seq(Node)] /\ replacements' \in [Buckets -> Seq(Node)]
           /\ GoodInv' /\ FullInv' /\ KeepsIds
           /\ AllNodes' = (AllNodes \ {entries[b][i]}) \cup {n}
           /\ n \notin AllNodes \ {entries[b][i]}
  <1> DEFINE E == entries[b]
             R == replacements[b]
             old == E[i]
             Q == RemoveAt(E, i)
             P == <<n>> \o Q
  <1>1. E \in Seq(Node) /\ R \in Seq(Node) /\ Good(E, R, b) /\ Len(E) <= bucketSize
        /\ (R # << >> => Len(E) = bucketSize)
    BY DEF StoreInv, GoodInv, FullInv
  <1>2. entries' = [entries EXCEPT ![b] = P] /\ replacements' = [replacements EXCEPT ![b] = R]
    BY DEF StoreInv
  <1>3. old \in ToSet(E) /\ old \in Node /\ old.id = n.id /\ i \in 1 .. Len(E)
    BY <1>1, InToSet
  <1> HIDE DEF E, R, old
  <1>4. /\ Q \in Seq(Node) /\ Len(Q) = Len(E) - 1 /\ ToSet(Q) = ToSet(E) \ {old}
        /\ Distinct(Q) /\ ~ HasId(Q, old.id)
    BY <1>1, <1>3, RemoveList DEF Good, old
  <1> HIDE DEF Q
  <1>5. /\ P \in Seq(Node) /\ Len(P) = Len(Q) + 1 /\ ToSet(P) = ToSet(Q) \cup {n} /\ Distinct(P)
    BY <1>3, <1>4, ConsList
  <1>6. Len(P) = Len(E)
    BY <1>1, <1>4, <1>5
  <1> HIDE DEF P
  <1>7. Good(P, R, b)
    BY <1>1, <1>3, <1>4, <1>5 DEF Good
  <1>8. Cell(b) = ToSet(E) \cup ToSet(R) /\ old \in Cell(b) /\ old \notin ToSet(R)
    BY <1>1, <1>3 DEF Cell, E, R, Good
  <1>9. NewLists(b, P, R, {old}, {n})
    <2>1. {old} \subseteq Cell(b) /\ ToSet(P) \cup ToSet(R) = (Cell(b) \ {old}) \cup {n}
      BY <1>4, <1>5, <1>8
    <2> QED BY <1>1, <1>2, <1>5, <1>6, <1>7, <2>1 DEF NewLists
  <1>10. /\ entries' \in [Buckets -> Seq(Node)] /\ replacements' \in [Buckets -> Seq(Node)]
         /\ GoodInv' /\ FullInv'
         /\ AllNodes' = (AllNodes \ {old}) \cup {n}
    BY <1>9, BucketStep
  <1>11. n \notin AllNodes \ {old}
    <2>1. old \in AllNodes
      BY <1>8, CellFacts
    <2> QED BY <1>3, <2>1, CellFacts
  <1>12. KeepsIds
    <2> SUFFICES ASSUME NEW c \in Buckets, NEW x \in ToSet(entries[c])
                 PROVE  \E y \in ToSet(entries'[c]) : y.id = x.id
      BY DEF KeepsIds
    <2>1. CASE c = b
      <3>1. entries'[c] = P /\ entries[c] = E
        BY <1>2, <2>1 DEF StoreInv, E
      <3> QED BY <1>3, <1>4, <1>5, <3>1
    <2>2. CASE c # b
      BY <1>2, <2>2 DEF StoreInv
    <2> QED BY <2>1, <2>2
  <1> QED BY <1>10, <1>11, <1>12 DEF old, E

(* A step that leaves the lists and the counters alone. *)
LEMMA SameStep ==
    ASSUME StoreInv, UNCHANGED <<entries, replacements, tableIps, bucketIps>>
    PROVE  StoreInv' /\ AllNodes' = AllNodes /\ KeepsIds
  <1>1. AllNodes' = AllNodes
    BY DEF AllNodes
  <1>2. KeepsIds
    BY DEF KeepsIds
  <1>3. GoodInv' /\ FullInv'
    BY DEF StoreInv, GoodInv, FullInv, Good, Distinct
  <1>4. CountInv' /\ LimitInv'
    BY <1>1 DEF StoreInv, CountInv, LimitInv, Counts, Limits, Public, Local
  <1> QED BY <1>1, <1>2, <1>3, <1>4 DEF StoreInv

(* bump moves an entry to the front.  A new address is counted in the place *)
(* of the old one; when it is over a limit, the old one is counted again.  *)
LEMMA BumpStep ==
    ASSUME StoreInv, NEW b \in Buckets, NEW n \in Node, bump(b, n), UNCHANGED replacements
    PROVE  StoreInv' /\ AllNodes' \subseteq AllNodes \cup {n} /\ KeepsIds
  <1>1. CASE ~ HasId(entries[b], n.id) /\ UNCHANGED <<entries, tableIps, bucketIps>>
    BY <1>1, SameStep
  <1>2. CASE \E i \in 1 .. Len(entries[b]) : bumpInBucket(b, n, i)
    <2>1. PICK i \in 1 .. Len(entries[b]) : bumpInBucket(b, n, i)
      BY <1>2
    <2> DEFINE old == entries[b][i]
               u == RemoveIP(Ipset(b), old.ip)
               Move == entries' = [entries EXCEPT ![b] = <<n>> \o RemoveAt(@, i)]
    <2>2. old.id = n.id
      BY <2>1 DEF bumpInBucket
    <2>3. old \in AllNodes /\ old \in Node /\ BucketOf[old.id] = b /\ BucketOf[n.id] = b
      <3>1. entries[b] \in Seq(Node)
        BY DEF StoreInv
      <3>2. old \in ToSet(entries[b])
        BY <3>1, InToSet
      <3>3. old \in Cell(b)
        BY <3>2 DEF Cell
      <3> QED BY <2>2, <3>3, CellFacts
    <2>4. Ipset(b) \in Pairs /\ Ok(Ipset(b), b, AllNodes) /\ bucketIps \in [Buckets -> IpCount]
      BY OkBefore DEF StoreInv
    <2>5. /\ u \in Pairs /\ Ok(u, b, AllNodes \ {old})
          /\ AddIPOk(u, old.ip) /\ AddIP(u, old.ip) = Ipset(b)
      <3> HIDE DEF old
      <3> QED BY <2>3, <2>4, OkRemove, ZenonT(60)
    <2>6. ASSUME Move
          PROVE  /\ entries' \in [Buckets -> Seq(Node)] /\ replacements' \in [Buckets -> Seq(Node)]
                 /\ GoodInv' /\ FullInv' /\ KeepsIds
                 /\ AllNodes' = (AllNodes \ {old}) \cup {n}
                 /\ n \notin AllNodes \ {old}
      BY <2>2, <2>6, MoveStep
    <2>7. \/ n.ip = old.ip /\ Move /\ UNCHANGED <<tableIps, bucketIps>>
          \/ n.ip # old.ip /\ AddIPOk(u, n.ip) /\ Move /\ SetIps(b, AddIP(u, n.ip))
          \/ /\ n.ip # old.ip /\ ~ AddIPOk(u, n.ip)
             /\ SetIps(b, IF AddIPOk(u, old.ip) THEN AddIP(u, old.ip) ELSE u)
             /\ UNCHANGED entries
      BY <2>1 DEF bumpInBucket
    <2>8. SetIps(b, Ipset(b)) <=> UNCHANGED <<tableIps, bucketIps>>
      BY DEF SetIps, Ipset, StoreInv
    <2> HIDE DEF old, u, Move
    <2>9. ASSUME Move, AddIPOk(u, n.ip), SetIps(b, AddIP(u, n.ip))
          PROVE  StoreInv' /\ AllNodes' \subseteq AllNodes \cup {n} /\ KeepsIds
      <3> DEFINE w == AddIP(u, n.ip)
                 N == AllNodes \ {old}
      <3>1. w \in Pairs /\ Ok(w, b, N \cup {n})
        <4>1. n \notin N /\ Ok(u, b, N) /\ u \in Pairs
          BY <2>5, <2>6, <2>9
        <4> HIDE DEF N
        <4> QED BY <2>3, <2>4, <2>9, <4>1, OkAdd
      <3>2. SetIps(b, w) /\ Ok(w, b, AllNodes')
        BY <2>6, <2>9, <3>1
      <3> HIDE DEF w, N
      <3>3. tableIps' \in IpCount /\ bucketIps' \in [Buckets -> IpCount] /\ CountInv' /\ LimitInv'
        BY <3>1, <3>2, OkAfter
      <3>4. StoreInv'
        BY <2>6, <2>9, <3>3 DEF StoreInv
      <3> QED BY <2>6, <2>9, <3>4
    <2>10. CASE n.ip = old.ip /\ Move /\ UNCHANGED <<tableIps, bucketIps>>
      BY <2>5, <2>8, <2>9, <2>10
    <2>11. CASE n.ip # old.ip /\ AddIPOk(u, n.ip) /\ Move /\ SetIps(b, AddIP(u, n.ip))
      BY <2>9, <2>11
    <2>12. CASE /\ n.ip # old.ip /\ ~ AddIPOk(u, n.ip)
                /\ SetIps(b, IF AddIPOk(u, old.ip) THEN AddIP(u, old.ip) ELSE u)
                /\ UNCHANGED entries
      BY <2>5, <2>8, <2>12, SameStep
    <2> QED BY <2>7, <2>10, <2>11, <2>12
  <1> QED BY <1>1, <1>2 DEF bump

(* Only the node that is being revalidated leaves the entries. *)
KeepsOthers(id) ==
    \A c \in Buckets : \A x \in ToSet(entries[c]) :
        x.id # id => \E y \in ToSet(entries'[c]) : y.id = x.id

(* The pinged node is still the last one: it is the same object, counted   *)
(* once, and goes.                                                         *)
LEMMA LastFacts ==
    ASSUME StoreInv, NEW v \in [bi : Buckets, last : Node],
           v.last \in ToSet(entries[v.bi]), StillLast(v.bi, v.last)
    PROVE  LET E == entries[v.bi]
           IN  /\ v.bi \in Buckets /\ v.last \in Node /\ E \in Seq(Node) /\ E # << >>
               /\ Good(E, replacements[v.bi], v.bi)
               /\ v.last = Last(E)
               /\ v.last \in AllNodes /\ BucketOf[v.last.id] = v.bi
               /\ RemoveIP(Ipset(v.bi), v.last.ip) \in Pairs
               /\ Ok(RemoveIP(Ipset(v.bi), v.last.ip), v.bi, AllNodes \ {v.last})
  <1> DEFINE b == v.bi
             n == v.last
             E == entries[b]
  <1>1. b \in Buckets /\ n \in Node
    OBVIOUS
  <1>2. n \in ToSet(E) /\ E # << >> /\ Last(E).id = n.id
    BY DEF StillLast
  <1> HIDE DEF b, n
  <1>3. E \in Seq(Node) /\ Good(E, replacements[b], b)
    BY <1>1 DEF StoreInv, GoodInv
  <1>4. n \in Cell(b)
    BY <1>2 DEF Cell
  <1> HIDE DEF E
  <1>5. n = Last(E)
    <2>1. Distinct(E)
      BY <1>3 DEF Good
    <2>2. Last(E) \in ToSet(E)
      BY <1>2, <1>3, <2>1, FrontList
    <2> QED BY <1>2, <1>3, <2>1, <2>2, DistinctMeans
  <1>6. n \in AllNodes /\ BucketOf[n.id] = b
    BY <1>1, <1>4, CellFacts
  <1>7. Ipset(b) \in Pairs /\ Ok(Ipset(b), b, AllNodes) /\ bucketIps \in [Buckets -> IpCount]
    BY <1>1, OkBefore DEF StoreInv
  <1>8. RemoveIP(Ipset(b), n.ip) \in Pairs /\ Ok(RemoveIP(Ipset(b), n.ip), b, AllNodes \ {n})
    BY <1>1, <1>6, <1>7, OkRemove
  <1> QED BY <1>1, <1>2, <1>3, <1>5, <1>6, <1>8 DEF b, n, E

(* It is deleted when no replacement waits, ... *)
LEMMA DeleteStep ==
    ASSUME StoreInv, NEW v \in [bi : Buckets, last : Node],
           v.last \in ToSet(entries[v.bi]), ReplaceDelete(v)
    PROVE  StoreInv' /\ AllNodes' \subseteq AllNodes /\ KeepsOthers(v.last.id)
  <1> DEFINE b == v.bi
             n == v.last
             E == entries[b]
             R == replacements[b]
             P == deleteNode(E, n)
             u == RemoveIP(Ipset(b), n.ip)
  <1>1. /\ R = << >> /\ entries' = [entries EXCEPT ![b] = P]
        /\ SetIps(b, u) /\ replacements' = replacements /\ StillLast(b, n)
    BY DEF ReplaceDelete
  <1>2. /\ b \in Buckets /\ n \in Node /\ E \in Seq(Node) /\ E # << >>
        /\ Good(E, R, b) /\ n = Last(E) /\ n \in AllNodes /\ BucketOf[n.id] = b
        /\ u \in Pairs /\ Ok(u, b, AllNodes \ {n})
    BY <1>1, LastFacts
  <1>3. replacements' = [replacements EXCEPT ![b] = R]
    BY <1>1 DEF StoreInv
  <1>4. n \in ToSet(E) /\ Distinct(E) /\ Len(E) <= bucketSize /\ bucketSize \in Nat /\ Len(E) \in Nat
    BY <1>2, TableAssumption DEF Good, StoreInv, FullInv
  <1>5. Cell(b) = ToSet(E) /\ ToSet(R) = {} /\ R \in Seq(Node)
    BY <1>1, <1>2 DEF Cell, ToSet
  <1> HIDE DEF b, n, E, R, P, u
  <1>6. HasId(E, n.id)
    BY <1>2, <1>4, HasIdMeans
  <1>7. /\ P \in Seq(Node) /\ Distinct(P) /\ ToSet(P) = {x \in ToSet(E) : x.id # n.id}
        /\ Len(P) = Len(E) - 1
    BY <1>2, <1>4, <1>6, DeleteList DEF P
  <1>8. ToSet(P) = ToSet(E) \ {n}
    BY <1>2, <1>4, <1>7, DistinctMeans
  <1>9. Good(P, R, b)
    BY <1>2, <1>5, <1>7, <1>8 DEF Good
  <1>10. NewLists(b, P, R, {n}, {})
    <2>1. {n} \subseteq Cell(b) /\ ToSet(P) \cup ToSet(R) = (Cell(b) \ {n}) \cup {}
      BY <1>4, <1>5, <1>8
    <2>2. Len(P) <= bucketSize
      BY <1>4, <1>7
    <2> QED BY <1>1, <1>3, <1>5, <1>7, <1>9, <2>1, <2>2, Zenon DEF NewLists
  <1>11. /\ entries' \in [Buckets -> Seq(Node)] /\ replacements' \in [Buckets -> Seq(Node)]
         /\ GoodInv' /\ FullInv'
         /\ AllNodes' = (AllNodes \ {n}) \cup {}
    BY <1>2, <1>10, BucketStep
  <1>12. AllNodes' = AllNodes \ {n}
    BY <1>11
  <1>13. tableIps' \in IpCount /\ bucketIps' \in [Buckets -> IpCount] /\ CountInv' /\ LimitInv'
    BY <1>1, <1>2, <1>12, OkAfter
  <1>14. StoreInv'
    BY <1>11, <1>13 DEF StoreInv
  <1>15. KeepsOthers(n.id)
    <2> SUFFICES ASSUME NEW c \in Buckets, NEW x \in ToSet(entries[c]), x.id # n.id
                 PROVE  x \in ToSet(entries'[c])
      BY DEF KeepsOthers
    <2>1. CASE c = b
      <3>1. entries'[c] = P /\ entries[c] = E
        BY <1>1, <2>1 DEF StoreInv, E
      <3> QED BY <1>7, <3>1
    <2>2. CASE c # b
      BY <1>1, <2>2 DEF StoreInv
    <2> QED BY <2>1, <2>2
  <1> QED BY <1>12, <1>14, <1>15 DEF n

(* ... and replaced otherwise.  The replacement was counted before. *)
LEMMA ReplaceStep ==
    ASSUME StoreInv, NEW v \in [bi : Buckets, last : Node],
           v.last \in ToSet(entries[v.bi]),
           NEW i \in 1 .. Len(replacements[v.bi]), ReplaceWith(v, i)
    PROVE  StoreInv' /\ AllNodes' \subseteq AllNodes /\ KeepsOthers(v.last.id)
  <1> DEFINE b == v.bi
             n == v.last
             E == entries[b]
             R == replacements[b]
             r == R[i]
             F == Front(E)
             P == Append(F, r)
             Q == deleteNode(R, r)
             u == RemoveIP(Ipset(b), n.ip)
  <1>1. /\ StillLast(b, n) /\ SetIps(b, u)
        /\ entries' = [entries EXCEPT ![b] = P]
        /\ replacements' = [replacements EXCEPT ![b] = Q]
    BY DEF ReplaceWith
  <1>2. /\ b \in Buckets /\ n \in Node /\ E \in Seq(Node) /\ E # << >>
        /\ Good(E, R, b) /\ n = Last(E) /\ n \in AllNodes /\ BucketOf[n.id] = b
        /\ u \in Pairs /\ Ok(u, b, AllNodes \ {n})
    BY <1>1, LastFacts
  <1>3. /\ R \in Seq(Node) /\ n \in ToSet(E) /\ Distinct(E) /\ Distinct(R)
        /\ Len(E) <= bucketSize /\ (R # << >> => Len(E) = bucketSize)
        /\ i \in 1 .. Len(R)
    BY <1>2 DEF Good, StoreInv, FullInv
  <1>4. Cell(b) = ToSet(E) \cup ToSet(R)
    BY DEF Cell
  <1> HIDE DEF b, n, E, R, P, Q, u
  <1>5. r \in Node /\ r \in ToSet(R) /\ Len(E) = bucketSize
    <2>1. R # << >>
      BY <1>3
    <2> QED BY <1>3, <2>1, InToSet
  <1> HIDE DEF r
  <1>6. /\ F \in Seq(Node) /\ Len(F) = Len(E) - 1 /\ ToSet(F) = ToSet(E) \ {n} /\ Distinct(F)
    BY <1>2, <1>3, FrontList
  <1> HIDE DEF F
  <1>7. \A x \in ToSet(E) : x.id # r.id
    BY <1>2, <1>5 DEF Good
  <1>8. ~ HasId(F, r.id)
    BY <1>6, <1>7, HasIdMeans
  <1>9. P \in Seq(Node) /\ Len(P) = Len(F) + 1 /\ ToSet(P) = ToSet(F) \cup {r} /\ Distinct(P)
    BY <1>5, <1>6, <1>8, AppendList DEF P
  <1>10. Len(P) = bucketSize /\ Len(P) <= bucketSize
    <2>1. bucketSize \in Nat
      BY TableAssumption
    <2> QED BY <1>5, <1>6, <1>9, <2>1
  <1>11. Q \in Seq(Node) /\ Distinct(Q) /\ ToSet(Q) = {x \in ToSet(R) : x.id # r.id}
    BY <1>3, <1>5, DeleteList DEF Q
  <1>12. ToSet(Q) = ToSet(R) \ {r}
    BY <1>3, <1>5, <1>11, DistinctMeans
  <1>13. Good(P, Q, b)
    <2>1. \A x \in ToSet(P), y \in ToSet(Q) : x.id # y.id
      BY <1>2, <1>6, <1>9, <1>11 DEF Good
    <2>2. \A x \in ToSet(P) \cup ToSet(Q) : x \in ToSet(E) \cup ToSet(R)
      BY <1>5, <1>6, <1>9, <1>12
    <2> QED BY <1>2, <1>9, <1>11, <2>1, <2>2 DEF Good
  <1>14. NewLists(b, P, Q, {n}, {})
    <2>1. n \notin ToSet(R)
      BY <1>2, <1>3 DEF Good
    <2>2. {n} \subseteq Cell(b) /\ ToSet(P) \cup ToSet(Q) = (Cell(b) \ {n}) \cup {}
      BY <1>3, <1>4, <1>5, <1>6, <1>9, <1>12, <2>1
    <2> QED BY <1>1, <1>9, <1>10, <1>11, <1>13, <2>2, Zenon DEF NewLists
  <1>15. /\ entries' \in [Buckets -> Seq(Node)] /\ replacements' \in [Buckets -> Seq(Node)]
         /\ GoodInv' /\ FullInv'
         /\ AllNodes' = (AllNodes \ {n}) \cup {}
    BY <1>2, <1>14, BucketStep
  <1>16. AllNodes' = AllNodes \ {n}
    BY <1>15
  <1>17. tableIps' \in IpCount /\ bucketIps' \in [Buckets -> IpCount] /\ CountInv' /\ LimitInv'
    BY <1>1, <1>2, <1>16, OkAfter
  <1>18. StoreInv'
    BY <1>15, <1>17 DEF StoreInv
  <1>19. KeepsOthers(n.id)
    <2> SUFFICES ASSUME NEW c \in Buckets, NEW x \in ToSet(entries[c]), x.id # n.id
                 PROVE  x \in ToSet(entries'[c])
      BY DEF KeepsOthers
    <2>1. CASE c = b
      <3>1. entries'[c] = P /\ entries[c] = E
        BY <1>1, <2>1 DEF StoreInv, E
      <3> QED BY <1>6, <1>9, <3>1
    <2>2. CASE c # b
      BY <1>1, <2>2 DEF StoreInv
    <2> QED BY <2>1, <2>2
  <1> QED BY <1>16, <1>18, <1>19 DEF n

(* AddSeenNode, whichever way out it takes, adds at most its node and no   *)
(* entry leaves.                                                           *)
LEMMA AddStep ==
    ASSUME StoreInv, NEW n \in Node, AddSeenNode(n)
    PROVE  /\ StoreInv' /\ AllNodes' \subseteq AllNodes \cup {n}
           /\ \A c \in Buckets : ToSet(entries[c]) \subseteq ToSet(entries'[c])
  <1>1. CASE UNCHANGED <<entries, replacements, tableIps, bucketIps>>
    BY <1>1, SameStep
  <1>2. CASE n.id # Self
    <2> DEFINE b == BucketOf[n.id]
    <2>1. b \in Buckets
      BY TableAssumption DEF Node
    <2> HIDE DEF b
    <2>2. ASSUME addReplacement(n, b), ~ UNCHANGED <<entries, replacements, tableIps, bucketIps>>
          PROVE  StoreInv' /\ AllNodes' \subseteq AllNodes \cup {n} /\ UNCHANGED entries
      <3>1. /\ ~ HasId(entries[b], n.id) /\ Len(entries[b]) >= bucketSize /\ UNCHANGED entries
            /\ ~ HasId(replacements[b], n.id) /\ AddIPOk(Ipset(b), n.ip)
            /\ replacements' = [replacements EXCEPT ![b] = pushNode(@, n, maxReplacements)]
            /\ SetIps(b, IF Len(replacements[b]) < maxReplacements THEN AddIP(Ipset(b), n.ip)
                          ELSE RemoveIP(AddIP(Ipset(b), n.ip), Last(replacements[b]).ip))
        BY <2>2 DEF addReplacement
      <3> QED BY <1>2, <2>1, <3>1, ReplacementStep DEF b
    <2>3. ASSUME AddEntry(n, b), ~ UNCHANGED <<entries, replacements, tableIps, bucketIps>>
          PROVE  /\ StoreInv' /\ AllNodes' \subseteq AllNodes \cup {n}
                 /\ \A c \in Buckets : ToSet(entries[c]) \subseteq ToSet(entries'[c])
      <3>1. /\ ~ HasId(entries[b], n.id) /\ Len(entries[b]) < bucketSize
            /\ AddIPOk(Ipset(b), n.ip) /\ SetIps(b, AddIP(Ipset(b), n.ip))
            /\ entries' = [entries EXCEPT ![b] = Append(@, n)]
            /\ replacements' = [replacements EXCEPT ![b] = deleteNode(@, n)]
        BY <2>3 DEF AddEntry
      <3> QED BY <1>2, <2>1, <3>1, EntryStep DEF b
    <2>4. \/ UNCHANGED <<entries, replacements, tableIps, bucketIps>>
          \/ addReplacement(n, b) \/ AddEntry(n, b)
      BY <1>2 DEF AddSeenNode, AddSelf, AddKnown, b
    <2> QED BY <1>1, <2>2, <2>3, <2>4
  <1>3. CASE n.id = Self
    BY <1>1, <1>3 DEF AddSeenNode, AddSelf
  <1> QED BY <1>2, <1>3

-----------------------------------------------------------------------------
(* The invariant. *)

(* The table starts within the invariant. *)
LEMMA InitInv ==
    Init => Inv
  <1> SUFFICES ASSUME Init PROVE Inv
    OBVIOUS
  <1>0. << >> \in Seq(Node) /\ Len(<< >>) = 0 /\ bucketSize \in Nat
    BY TableAssumption
  <1>1. \A b \in Buckets : entries[b] = << >> /\ replacements[b] = << >>
    BY DEF Init
  <1>2. AllNodes = {}
    BY <1>1 DEF AllNodes, ToSet
  <1>3. TypeOK
    <2>1. entries \in [Buckets -> Seq(Node)] /\ replacements \in [Buckets -> Seq(Node)]
      BY <1>0 DEF Init
    <2>2. tableIps \in IpCount /\ bucketIps \in [Buckets -> IpCount]
      BY DEF Init, IpCount
    <2> QED BY <2>1, <2>2 DEF Init, TypeOK
  <1>4. GoodInv
    BY <1>1 DEF GoodInv, Good, Distinct, ToSet
  <1>5. FullInv
    BY <1>0, <1>1 DEF FullInv
  <1>6. CountInv
    <2>1. \A s : Public(AllNodes, s) = {}
      BY <1>2 DEF Public
    <2>2. \A s, b : Local(AllNodes, s, b) = {}
      BY <2>1 DEF Local
    <2>3. IsFiniteSet({}) /\ Cardinality({}) = 0
      BY FS_EmptySet
    <2>4. \A s \in Subnets : tableIps[s] = 0 /\ \A b \in Buckets : bucketIps[b][s] = 0
      BY DEF Init
    <2> QED BY <2>1, <2>2, <2>3, <2>4 DEF CountInv, Counts
  <1>7. LimitInv
    BY TableAssumption DEF Init, LimitInv, Limits
  <1>8. RevalInv /\ LiveInv
    BY <1>2 DEF Init, RevalInv, LiveInv
  <1> QED BY <1>3, <1>4, <1>5, <1>6, <1>7, <1>8 DEF Inv, StoreInv, TypeOK

(* A node comes.  The one being revalidated stays where it is. *)
LEMMA AddKeepsInv ==
    ASSUME Inv, NEW n \in Node, n.live = FALSE, AddSeenNode(n)
    PROVE  Inv' /\ KeepsIds
  <1>1. /\ StoreInv' /\ AllNodes' \subseteq AllNodes \cup {n}
        /\ \A c \in Buckets : ToSet(entries[c]) \subseteq ToSet(entries'[c])
    BY AddStep DEF Inv
  <1>2. bootLive' = bootLive /\ reval' = reval /\ answered' = answered
    BY DEF AddSeenNode
  <1>3. TypeOK'
    BY <1>1, <1>2 DEF Inv, TypeOK, StoreInv
  <1>4. RevalInv'
    <2>1. \A v \in reval : v.bi \in Buckets
      BY DEF Inv, TypeOK
    <2> QED BY <1>1, <1>2, <2>1 DEF Inv, RevalInv
  <1>5. LiveInv'
    BY <1>1, <1>2 DEF Inv, LiveInv
  <1>6. KeepsIds
    BY <1>1 DEF KeepsIds
  <1> QED BY <1>1, <1>3, <1>4, <1>5, <1>6 DEF Inv

(* A node that answered is bumped, as the object n. *)
LEMMA BumpKeepsInv ==
    ASSUME Inv, NEW v \in reval, NEW n \in Node, n.id = v.last.id,
           bump(v.bi, n), UNCHANGED replacements, reval' = {},
           bootLive' \subseteq bootLive \cup {v.last.id},
           answered' = answered \cup {v.last.id}
    PROVE  Inv' /\ KeepsIds
  <1>0. v.bi \in Buckets /\ v.last.id \in Ids
    BY DEF Inv, TypeOK, Node
  <1>1. StoreInv' /\ AllNodes' \subseteq AllNodes \cup {n} /\ KeepsIds
    BY <1>0, BumpStep DEF Inv
  <1>2. TypeOK'
    <2>1. bootLive' \subseteq Ids /\ answered' \subseteq Ids
      BY <1>0 DEF Inv, TypeOK
    <2> QED BY <1>1, <2>1 DEF TypeOK, StoreInv
  <1>3. RevalInv'
    BY DEF RevalInv
  <1>4. LiveInv'
    BY <1>1 DEF Inv, LiveInv
  <1> QED BY <1>1, <1>2, <1>3, <1>4 DEF Inv

(* A node that did not answer is replaced, if it is still the last one. *)
LEMMA FailKeepsInv ==
    ASSUME Inv, NEW v \in reval, RevalidateFail(v)
    PROVE  Inv' /\ KeepsOthers(v.last.id)
  <1>0. v \in [bi : Buckets, last : Node] /\ v.last \in ToSet(entries[v.bi]) /\ StoreInv
    BY DEF Inv, TypeOK, RevalInv
  <1>1. StoreInv' /\ AllNodes' \subseteq AllNodes /\ KeepsOthers(v.last.id)
    <2>1. CASE ReplaceMoved(v)
      <3>1. StoreInv' /\ AllNodes' = AllNodes /\ KeepsIds
        BY <1>0, <2>1, SameStep DEF ReplaceMoved
      <3> QED BY <3>1 DEF KeepsIds, KeepsOthers
    <2>2. CASE ReplaceDelete(v)
      BY <1>0, <2>2, DeleteStep
    <2>3. CASE \E i \in 1 .. Len(replacements[v.bi]) : ReplaceWith(v, i)
      BY <1>0, <2>3, ReplaceStep
    <2> QED BY <2>1, <2>2, <2>3 DEF RevalidateFail
  <1>2. reval' = {} /\ bootLive' = bootLive /\ answered' = answered
    BY DEF RevalidateFail
  <1>3. TypeOK'
    BY <1>1, <1>2 DEF Inv, TypeOK, StoreInv
  <1>4. RevalInv' /\ LiveInv'
    BY <1>1, <1>2 DEF Inv, RevalInv, LiveInv
  <1> QED BY <1>1, <1>3, <1>4 DEF Inv

(* What a step may take out of the entries. *)
Leaves == KeepsIds \/ (answered' = answered /\ \E v \in reval : KeepsOthers(v.last.id))

(* Every step keeps the invariant. *)
LEMMA NextInv ==
    ASSUME Inv, [Next]_vars
    PROVE  Inv' /\ Leaves
  <1>1. ASSUME NEW n \in Nursery, LoadBootNode(n) PROVE Inv' /\ KeepsIds
    <2>1. BootNode(n) \in Node /\ BootNode(n).live = FALSE
      BY TableAssumption DEF BootNode, Node
    <2> QED BY <1>1, <2>1, AddKeepsInv DEF LoadBootNode
  <1>2. ASSUME NEW id \in Ids, NEW ip \in Addresses[id], AddFreshNode(id, ip)
        PROVE  Inv' /\ KeepsIds
    <2>1. NewNode(id, ip) \in Node /\ NewNode(id, ip).live = FALSE
      BY TableAssumption DEF NewNode, Node
    <2> QED BY <1>2, <2>1, AddKeepsInv DEF AddFreshNode
  <1>3. ASSUME NEW b \in Buckets, nodeToRevalidate(b) PROVE Inv' /\ KeepsIds
    <2>0. /\ entries[b] # << >> /\ reval' = {[bi |-> b, last |-> Last(entries[b])]}
          /\ UNCHANGED <<entries, replacements, tableIps, bucketIps>>
          /\ UNCHANGED <<bootLive, answered>>
      BY <1>3 DEF nodeToRevalidate
    <2>1. StoreInv' /\ AllNodes' = AllNodes /\ KeepsIds
      BY <2>0, SameStep DEF Inv
    <2>2. Last(entries[b]) \in ToSet(entries[b]) /\ Last(entries[b]) \in Node
      <3>1. entries[b] \in Seq(Node) /\ Distinct(entries[b])
        BY DEF Inv, StoreInv, GoodInv, Good
      <3> QED BY <2>0, <3>1, FrontList
    <2>3. TypeOK'
      BY <2>0, <2>1, <2>2 DEF Inv, TypeOK
    <2>4. RevalInv'
      BY <2>0, <2>2 DEF RevalInv
    <2>5. LiveInv'
      BY <2>0, <2>1 DEF Inv, LiveInv
    <2> QED BY <2>1, <2>3, <2>4, <2>5 DEF Inv
  <1>4. ASSUME NEW v \in reval, RevalidateOk(v) PROVE Inv' /\ KeepsIds
    <2> DEFINE n == [v.last EXCEPT !.live = ~ v.last.boot]
    <2>1. v.last \in Node
      BY DEF Inv, TypeOK
    <2>2. n \in Node /\ n.id = v.last.id
      BY <2>1 DEF Node
    <2>3. /\ reval' = {} /\ bump(v.bi, n) /\ UNCHANGED replacements
          /\ bootLive' \subseteq bootLive \cup {v.last.id}
          /\ answered' = answered \cup {v.last.id}
      BY <1>4 DEF RevalidateOk
    <2> HIDE DEF n
    <2> QED BY <2>2, <2>3, BumpKeepsInv
  <1>5. ASSUME NEW v \in reval, NEW ip \in Addresses[v.last.id], RevalidateNewRecord(v, ip)
        PROVE  Inv' /\ KeepsIds
    <2> DEFINE n == [v.last EXCEPT !.ip = ip, !.boot = FALSE, !.live = TRUE]
    <2>1. v.last \in Node /\ ip \in Ips
      <3>1. v.last \in Node /\ v.last.id \in Ids
        BY DEF Inv, TypeOK, Node
      <3> QED BY <3>1, TableAssumption
    <2>2. n \in Node /\ n.id = v.last.id
      BY <2>1 DEF Node
    <2>3. /\ reval' = {} /\ bump(v.bi, n) /\ UNCHANGED replacements
          /\ bootLive' \subseteq bootLive \cup {v.last.id}
          /\ answered' = answered \cup {v.last.id}
      BY <1>5 DEF RevalidateNewRecord
    <2> HIDE DEF n
    <2> QED BY <2>2, <2>3, BumpKeepsInv
  <1>6. ASSUME NEW v \in reval, RevalidateFail(v) PROVE Inv' /\ Leaves
    BY <1>6, FailKeepsInv DEF RevalidateFail, Leaves
  <1>7. CASE UNCHANGED vars
    <2>1. /\ UNCHANGED <<entries, replacements, tableIps, bucketIps>>
          /\ UNCHANGED <<bootLive, reval, answered>>
      BY <1>7 DEF vars
    <2>2. StoreInv' /\ AllNodes' = AllNodes /\ KeepsIds
      BY <2>1, SameStep DEF Inv
    <2> QED BY <2>1, <2>2 DEF Inv, TypeOK, RevalInv, LiveInv, Leaves
  <1> QED BY <1>1, <1>2, <1>3, <1>4, <1>5, <1>6, <1>7 DEF Next, Leaves

(* The table keeps its invariant whatever nodes announce themselves and    *)
(* however their revalidations end.                                        *)
THEOREM TableInvariant ==
    Spec => []Inv
  <1>1. Inv /\ [Next]_vars => Inv'
    BY NextInv
  <1> QED BY <1>1, InitInv, PTL DEF Spec

(* Every node is in its own bucket and there once, the local node nowhere: *)
(* what addition, promotion and bumping of nodes keep true of the lists.   *)
THEOREM EachNodeOnce ==
    Spec => []NodesAreUnique
  <1>1. Inv => NodesAreUnique
    <2> SUFFICES ASSUME Inv, NEW b \in Buckets
                 PROVE  LET list == entries[b] \o replacements[b]
                        IN  /\ \A i \in 1 .. Len(list) : BucketOf[list[i].id] = b /\ list[i].id # Self
                            /\ \A i, j \in 1 .. Len(list) : list[i].id = list[j].id => i = j
      BY DEF NodesAreUnique
    <2>1. /\ entries[b] \in Seq(Node) /\ replacements[b] \in Seq(Node)
          /\ Good(entries[b], replacements[b], b)
      BY DEF Inv, StoreInv, GoodInv
    <2> QED BY <2>1, GoodMeans
  <1> QED BY <1>1, TableInvariant, PTL

(* addIP and removeIP are balanced: each counter is the number of public   *)
(* addresses the table, or the bucket, holds.                              *)
THEOREM AddressesAreCounted ==
    Spec => []IpAccounting
  <1>1. Inv => IpAccounting
    <2> SUFFICES ASSUME Inv, NEW s \in Subnets
                 PROVE  /\ tableIps[s] = Cardinality(Held(s))
                        /\ \A b \in Buckets :
                              bucketIps[b][s] = Cardinality({n \in Held(s) : BucketOf[n.id] = b})
      BY DEF IpAccounting
    <2>1. Held(s) = Public(AllNodes, s)
      BY DEF Held, Public
    <2>2. \A b \in Buckets : Local(AllNodes, s, b) = {n \in Held(s) : BucketOf[n.id] = b}
      BY <2>1 DEF Local
    <2>3. /\ tableIps[s] = Cardinality(Public(AllNodes, s))
          /\ \A b \in Buckets : bucketIps[b][s] = Cardinality(Local(AllNodes, s, b))
      BY DEF Inv, StoreInv, CountInv, Counts
    <2> QED BY <2>1, <2>2, <2>3
  <1> QED BY <1>1, TableInvariant, PTL

(* A node FindnodeByID passes on, or copyLiveNodes saves, has answered a   *)
(* ping of doRevalidate.                                                   *)
THEOREM LiveNodesAnswered ==
    Spec => []OnlyAnsweredAreLive
  <1>1. Inv => OnlyAnsweredAreLive
    BY DEF Inv, LiveInv, OnlyAnsweredAreLive, GetCountPositive
  <1> QED BY <1>1, TableInvariant, PTL

(* No step takes an entry out of the table except the revalidation of that *)
(* entry, which was not answered.                                          *)
THEOREM OnlyFailuresEvict ==
    Spec => OnlyThePingedLeave
  <1>1. ASSUME Inv, Inv', [Next]_vars
        PROVE  [\A id \in Ids : InTable(id) /\ ~ InTable(id)' =>
                   /\ \E v \in reval : v.last.id = id
                   /\ answered' = answered]_vars
    <2> SUFFICES ASSUME NEW id \in Ids, InTable(id), ~ InTable(id)'
                 PROVE  (\E v \in reval : v.last.id = id) /\ answered' = answered
      OBVIOUS
    <2> DEFINE c == BucketOf[id]
    <2>1. c \in Buckets
      BY TableAssumption
    <2>2. entries[c] \in Seq(Node) /\ entries'[c] \in Seq(Node)
      BY <1>1, <2>1 DEF Inv, TypeOK
    <2>3. PICK x \in ToSet(entries[c]) : x.id = id
      BY <2>2, HasIdMeans DEF InTable
    <2>4. ~ \E y \in ToSet(entries'[c]) : y.id = id
      BY <2>2, InToSet DEF InTable, HasId
    <2>5. Leaves
      BY <1>1, NextInv
    <2> QED BY <2>1, <2>3, <2>4, <2>5 DEF Leaves, KeepsIds, KeepsOthers
  <1> QED BY <1>1, TableInvariant, PTL DEF Spec, OnlyThePingedLeave
=============================================================================
