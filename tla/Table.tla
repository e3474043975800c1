------------------------------- MODULE Table -------------------------------
(***************************************************************************)
(* The Kademlia node table: crawler/net/discovery/table/table.go.          *)
(*                                                                         *)
(* Each bucket has a list of entries, the most recently active first, and  *)
(* a list of replacements that wait for an entry to fail.  Entries and     *)
(* replacements are counted per subnet, in the bucket and in the table, so *)
(* that no network takes more than its share.  Goroutines add nodes under  *)
(* the table's mutex; doRevalidate picks the last entry of a bucket under  *)
(* the mutex, pings it without, and applies the outcome under the mutex    *)
(* again, when the bucket may have changed.                                *)
(*                                                                         *)
(* The events the table reports through nodedHook are left out: they say   *)
(* what the step itself shows, but for Removed (see README.md).            *)
(* addVerifiedNode and delete have no caller and are not modelled.         *)
(***************************************************************************)
EXTENDS Integers, SequencesExt

CONSTANTS
    Ids,                \* node ids
    Self,               \* the id of the local node
    Buckets,            \* bucket indices
    BucketOf,           \* BucketOf[id]: the bucket of an id
    Ips, Lan,           \* IP addresses, and those of the local network
    Subnets, Subnet,    \* Subnet[ip]: the /24 an address belongs to
    Addresses,          \* Addresses[id]: the addresses a node may announce
    Nursery,            \* bootstrap nodes: a set of [id, ip] records
    bucketSize, maxReplacements, bucketIPLimit, tableIPLimit

ASSUME TableAssumption ==
    /\ Self \in Ids
    /\ BucketOf \in [Ids -> Buckets]
    /\ Lan \subseteq Ips
    /\ Subnet \in [Ips -> Subnets]
    /\ Addresses \in [Ids -> SUBSET Ips]
    /\ Nursery \subseteq [id : Ids, ip : Ips]
    /\ bucketSize \in Nat \ {0} /\ maxReplacements \in Nat \ {0}
    /\ bucketIPLimit \in Nat /\ tableIPLimit \in Nat

VARIABLES
    entries,        \* entries[b]: the bucket's entries
    replacements,   \* replacements[b]: its replacement list
    tableIps,       \* Table.ips: addresses counted per subnet
    bucketIps,      \* bucketIps[b]: bucket.ips
    bootLive,       \* bootstrap nodes whose object has livenessChecks > 0
    reval,          \* what doRevalidate is pinging: a set, empty or a singleton
    answered        \* history: ids that answered a ping of doRevalidate

vars == <<entries, replacements, tableIps, bucketIps, bootLive, reval,
          answered>>

(* A node object.  boot: it is the nursery's object, shared by every       *)
(* insertion of that bootstrap node.  live abstracts livenessChecks > 0.   *)
Node == [id : Ids, ip : Ips, boot : BOOLEAN, live : BOOLEAN]
(* Defective node: it is born live. *)
NewNodeLive(id, ip) == [id |-> id, ip |-> ip, boot |-> FALSE, live |-> TRUE]

NewNode(id, ip) == [id |-> id, ip |-> ip, boot |-> FALSE, live |-> FALSE]
BootNode(n) == [id |-> n.id, ip |-> n.ip, boot |-> TRUE, live |-> FALSE]

GetCountPositive(n) == IF n.boot THEN n.id \in bootLive ELSE n.live

IpCount == [Subnets -> Nat]

TypeOK ==
    /\ entries \in [Buckets -> Seq(Node)]
    /\ replacements \in [Buckets -> Seq(Node)]
    /\ tableIps \in IpCount
    /\ bucketIps \in [Buckets -> IpCount]
    /\ bootLive \subseteq Ids
    /\ reval \subseteq [bi : Buckets, last : Node]
    /\ answered \subseteq Ids

Init ==
    /\ entries = [b \in Buckets |-> << >>]
    /\ replacements = [b \in Buckets |-> << >>]
    /\ tableIps = [s \in Subnets |-> 0]
    /\ bucketIps = [b \in Buckets |-> [s \in Subnets |-> 0]]
    /\ bootLive = {} /\ reval = {} /\ answered = {}

-----------------------------------------------------------------------------
(* Address limits.  u is the pair of counters an address is counted in.    *)

Ipset(b) == [tab |-> tableIps, bucket |-> bucketIps[b]]
SetIps(b, u) ==
    /\ tableIps' = u.tab
    /\ bucketIps' = [bucketIps EXCEPT ![b] = u.bucket]

(* addIP succeeds: the table's limit is tested first and the table's count *)
(* is taken back when the bucket's limit is reached.                       *)
AddIPOk(u, ip) ==
    \/ ip \in Lan
    \/ /\ u.tab[Subnet[ip]] < tableIPLimit
       /\ u.bucket[Subnet[ip]] < bucketIPLimit

AddIP(u, ip) ==
    IF ip \in Lan THEN u
    ELSE [tab    |-> [u.tab EXCEPT ![Subnet[ip]] = @ + 1],
          bucket |-> [u.bucket EXCEPT ![Subnet[ip]] = @ + 1]]

Less(n) == IF n > 0 THEN n - 1 ELSE 0
RemoveIP(u, ip) ==
    IF ip \in Lan THEN u
    ELSE [tab    |-> [u.tab EXCEPT ![Subnet[ip]] = Less(@)],
          bucket |-> [u.bucket EXCEPT ![Subnet[ip]] = Less(@)]]

-----------------------------------------------------------------------------
(* Lists of nodes. *)

HasId(list, id) == \E i \in 1 .. Len(list) : list[i].id = id
FirstIndex(list, id) ==
    CHOOSE i \in 1 .. Len(list) :
        list[i].id = id /\ \A j \in 1 .. i - 1 : list[j].id # id
deleteNode(list, n) ==
    IF HasId(list, n.id) THEN RemoveAt(list, FirstIndex(list, n.id)) ELSE list
pushNode(list, n, max) ==
    IF Len(list) < max THEN <<n>> \o list ELSE <<n>> \o Front(list)

-----------------------------------------------------------------------------
(* AddSeenNode, one action per way out of it.                              *)

AddSelf(n) ==
    /\ n.id = Self
    /\ UNCHANGED <<entries, replacements, tableIps, bucketIps>>

AddKnown(n, b) ==
    /\ HasId(entries[b], n.id)
    /\ UNCHANGED <<entries, replacements, tableIps, bucketIps>>

(* Defective variants: a replacement is added again; the oldest entry is   *)
(* evicted.                                                                *)
addReplacementAgain(n, b) ==
    /\ ~ HasId(entries[b], n.id)
    /\ Len(entries[b]) >= bucketSize /\ AddIPOk(Ipset(b), n.ip)
    /\ replacements' = [replacements EXCEPT ![b] = pushNode(@, n, maxReplacements + 1)]
    /\ SetIps(b, AddIP(Ipset(b), n.ip))
    /\ UNCHANGED entries

addReplacementEvicting(n, b) ==
    /\ ~ HasId(entries[b], n.id)
    /\ Len(entries[b]) >= bucketSize
    /\ entries' = [entries EXCEPT ![b] = <<n>> \o Front(@)]
    /\ UNCHANGED <<replacements, tableIps, bucketIps>>

addReplacement(n, b) ==
    /\ ~ HasId(entries[b], n.id)
    /\ Len(entries[b]) >= bucketSize
    /\ UNCHANGED entries
    /\ \/ /\ HasId(replacements[b], n.id) \/ ~ AddIPOk(Ipset(b), n.ip)
          /\ UNCHANGED <<replacements, tableIps, bucketIps>>
       \/ /\ ~ HasId(replacements[b], n.id) /\ AddIPOk(Ipset(b), n.ip)
          /\ replacements' = [replacements EXCEPT ![b] = pushNode(@, n, maxReplacements)]
          /\ LET u == AddIP(Ipset(b), n.ip)
             IN  SetIps(b, IF Len(replacements[b]) < maxReplacements THEN u
                           ELSE RemoveIP(u, Last(replacements[b]).ip))

AddEntry(n, b) ==
    /\ ~ HasId(entries[b], n.id)
    /\ Len(entries[b]) < bucketSize
    /\ \/ /\ ~ AddIPOk(Ipset(b), n.ip)
          /\ UNCHANGED <<entries, replacements, tableIps, bucketIps>>
       \/ /\ AddIPOk(Ipset(b), n.ip)
          /\ SetIps(b, AddIP(Ipset(b), n.ip))
          /\ entries' = [entries EXCEPT ![b] = Append(@, n)]
          /\ replacements' = [replacements EXCEPT ![b] = deleteNode(@, n)]

AddSeenNode(n) ==
    /\ \/ AddSelf(n)
       \/ /\ n.id # Self
          /\ LET b == BucketOf[n.id]
             IN  AddKnown(n, b) \/ addReplacement(n, b) \/ AddEntry(n, b)
    /\ UNCHANGED <<bootLive, reval, answered>>

(* loadSeedNodes offers the nursery's own objects and fresh objects from   *)
(* the database; a ping's sender is a fresh object.                        *)
LoadBootNode(n) == AddSeenNode(BootNode(n))
AddFreshNode(id, ip) == AddSeenNode(NewNode(id, ip))

-----------------------------------------------------------------------------
(* doRevalidate.  The loop of Run keeps one revalidation at a time.        *)

nodeToRevalidate(b) ==
    /\ reval = {}
    /\ entries[b] # << >>
    /\ reval' = {[bi |-> b, last |-> Last(entries[b])]}
    /\ UNCHANGED <<entries, replacements, tableIps, bucketIps, bootLive, answered>>

(* Defective bump: the old address is not counted again when the new one   *)
(* is over a limit.                                                        *)
bumpInBucketForgets(b, n, i) ==
    LET old == entries[b][i]
        u   == RemoveIP(Ipset(b), old.ip)
    IN  /\ old.id = n.id
        /\ n.ip # old.ip /\ ~ AddIPOk(u, n.ip)
        /\ SetIps(b, u)
        /\ UNCHANGED entries

(* bumpInBucket, for the entry at position i: the address is recounted     *)
(* when it changed, and the node stays as it was if the new one is over a  *)
(* limit.                                                                  *)
bumpInBucket(b, n, i) ==
    LET old == entries[b][i]
        u   == RemoveIP(Ipset(b), old.ip)
        Move == entries' = [entries EXCEPT ![b] = <<n>> \o RemoveAt(@, i)]
    IN  /\ old.id = n.id
        /\ \/ /\ n.ip = old.ip
              /\ Move
              /\ UNCHANGED <<tableIps, bucketIps>>
           \/ /\ n.ip # old.ip /\ AddIPOk(u, n.ip)
              /\ Move
              /\ SetIps(b, AddIP(u, n.ip))
           \/ /\ n.ip # old.ip /\ ~ AddIPOk(u, n.ip)
              /\ SetIps(b, IF AddIPOk(u, old.ip) THEN AddIP(u, old.ip) ELSE u)
              /\ UNCHANGED entries

(* The entry to bump, if it is still there. *)
bump(b, n) ==
    \/ \E i \in 1 .. Len(entries[b]) : bumpInBucket(b, n, i)
    \/ ~ HasId(entries[b], n.id) /\ UNCHANGED <<entries, tableIps, bucketIps>>

(* The node answered, without news: the object in the table is bumped. *)
RevalidateOk(v) ==
    /\ v \in reval /\ reval' = {}
    /\ bump(v.bi, [v.last EXCEPT !.live = ~ v.last.boot])
    /\ bootLive' = bootLive \cup {id \in {v.last.id} : v.last.boot}
    /\ answered' = answered \cup {v.last.id}
    /\ UNCHANGED replacements

(* CheckRelayIP: a public node cannot announce a LAN address. *)
RelayOk(from, ip) == ip \in Lan => from \in Lan

(* The node answered with a higher sequence number and served a new record,*)
(* perhaps with another address: a new object that inherits the checks.    *)
RevalidateNewRecord(v, ip) ==
    /\ v \in reval /\ reval' = {}
    /\ RelayOk(v.last.ip, ip)
    /\ bump(v.bi, [v.last EXCEPT !.ip = ip, !.boot = FALSE, !.live = TRUE])
    /\ answered' = answered \cup {v.last.id}
    /\ UNCHANGED <<replacements, bootLive>>

StillLast(b, n) == entries[b] # << >> /\ Last(entries[b]).id = n.id

(* No answer: replace.  It does nothing when the entry has moved, deletes  *)
(* it when there is no replacement, and else puts one in its place.        *)
ReplaceMoved(v) ==
    /\ ~ StillLast(v.bi, v.last)
    /\ UNCHANGED <<entries, replacements, tableIps, bucketIps>>

ReplaceDelete(v) ==
    /\ StillLast(v.bi, v.last)
    /\ replacements[v.bi] = << >>
    /\ entries' = [entries EXCEPT ![v.bi] = deleteNode(@, v.last)]
    /\ SetIps(v.bi, RemoveIP(Ipset(v.bi), v.last.ip))
    /\ UNCHANGED replacements

ReplaceWith(v, i) ==
    LET b == v.bi
        r == replacements[b][i]
    IN  /\ StillLast(b, v.last)
        /\ replacements' = [replacements EXCEPT ![b] = deleteNode(@, r)]
        /\ entries' = [entries EXCEPT ![b] = Append(Front(@), r)]
        /\ SetIps(b, RemoveIP(Ipset(b), v.last.ip))
    
RevalidateFail(v) ==
    /\ v \in reval /\ reval' = {}
    /\ \/ ReplaceMoved(v)
       \/ ReplaceDelete(v)
       \/ \E i \in 1 .. Len(replacements[v.bi]) : ReplaceWith(v, i)
    /\ UNCHANGED <<bootLive, answered>>

-----------------------------------------------------------------------------
Next ==
    \/ \E n \in Nursery : LoadBootNode(n)
    \/ \E id \in Ids : \E ip \in Addresses[id] : AddFreshNode(id, ip)
    \/ \E b \in Buckets : nodeToRevalidate(b)
    \/ \E v \in reval :
          \/ RevalidateOk(v) \/ RevalidateFail(v)
          \/ \E ip \in Addresses[v.last.id] : RevalidateNewRecord(v, ip)

Spec == Init /\ [][Next]_vars

-----------------------------------------------------------------------------
(* Properties. *)

InTable(id) == HasId(entries[BucketOf[id]], id)

(* Every node the table holds, entries and replacements. *)
AllNodes == UNION {ToSet(entries[b]) \cup ToSet(replacements[b]) : b \in Buckets}

(* The nodes that count against the limits of subnet s. *)
Held(s) == {n \in AllNodes : n.ip \notin Lan /\ Subnet[n.ip] = s}

(* A node is in its own bucket, once: never twice among the entries, never *)
(* twice among the replacements, never in both; and never the local node.  *)
NodesAreUnique ==
    \A b \in Buckets :
        LET list == entries[b] \o replacements[b]
        IN  /\ \A i \in 1 .. Len(list) : BucketOf[list[i].id] = b /\ list[i].id # Self
            /\ \A i, j \in 1 .. Len(list) : list[i].id = list[j].id => i = j

(* The counters of the table and of the buckets are exactly the number of  *)
(* public addresses held: through every insertion, eviction, replacement   *)
(* and change of address no count is leaked and none is lost.              *)
IpAccounting ==
    \A s \in Subnets :
        /\ tableIps[s] = Cardinality(Held(s))
        /\ \A b \in Buckets :
              bucketIps[b][s] = Cardinality({n \in Held(s) : BucketOf[n.id] = b})

(* An entry leaves the table only through its own revalidation: however    *)
(* many nodes announce themselves, they never push out a node that has not *)
(* failed to answer.                                                       *)
OnlyThePingedLeave ==
    [][\A id \in Ids : InTable(id) /\ ~ InTable(id)' =>
          /\ \E v \in reval : v.last.id = id
          /\ answered' = answered]_vars

(* The nodes FindnodeByID passes on as live and copyLiveNodes saves as     *)
(* seeds have answered a ping.                                             *)
OnlyAnsweredAreLive ==
    \A n \in AllNodes : GetCountPositive(n) => n.id \in answered

=============================================================================
