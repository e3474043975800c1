--------------------------- MODULE ScannerProofs ---------------------------
(***************************************************************************)
(* Proofs about the port scanner, for every set of addresses and of        *)
(* workers and every value of the bounds.                                  *)
(***************************************************************************)
EXTENDS Scanner, FiniteSetTheorems, TLAPS

(* The workers that scan an address are finitely many: they can be counted *)
(* although nothing is said of the set of workers.                         *)
On(ip) == {w \in Workers : worker[w] = ip}
FiniteInv == \A ip \in Ips : IsFiniteSet(On(ip))

(* Past its select the loop has an address. *)
LoopInv == loop.at # "select" => loop.ip \in Ips

TypeInv == TypeOK /\ LoopInv /\ FiniteInv

(* A process that is down, and the ip command, have nothing of the topic   *)
(* and no result for the store.                                            *)
Quiet == proc = "down" \/ command = "ip"
QuietInv ==
    Quiet => /\ topic = << >> /\ consumer = "none" /\ decoder = "none"
             /\ loop = Select /\ \A ip \in Ips : finished[ip] = 0

DownInv == proc = "down" => \A w \in Workers : worker[w] = "none"

(* Only the ip command asks for addresses, and at most one worker has an   *)
(* address that was asked for.                                             *)
AskedInv ==
    /\ proc = "down" \/ command = "event" => \A ip \in Ips : asked[ip] = "none"
    /\ command = "ip" =>
          \A w \in Workers :
             worker[w] \in Ips =>
                /\ asked[worker[w]] = "taken"
                /\ \A v \in Workers : worker[v] = worker[w] => v = w

ModeInv == QuietInv /\ DownInv /\ AskedInv

(* A scan of the event command has its mark, or lost it to time. *)
JobInv ==
    command = "event" =>
       \A ip \in Ips : Jobs(ip) > 0 => ip \in marks \/ ip \in outlived

(* The ip command sets no mark: those it finds were settled before. *)
LeftInv == Quiet => marks \subseteq settled

MarkInv == JobInv /\ LeftInv /\ MarksStandForScans /\ TwinScansNeedExpiry

Inv == TypeInv /\ ModeInv /\ MarkInv

-----------------------------------------------------------------------------
(* Counting scans. *)

(* Where the loop waits for a worker. *)
Offers(ip) == loop.at = "offer" /\ loop.ip = ip

(* There are some number of scans of an address. *)
LEMMA JobsNat ==
    ASSUME TypeInv, NEW ip \in Ips
    PROVE  Jobs(ip) \in Nat /\ Cardinality(On(ip)) \in Nat /\ finished[ip] \in Nat
  <1>1. Cardinality(On(ip)) \in Nat
    BY FS_CardinalityType DEF TypeInv, FiniteInv
  <1>2. finished[ip] \in Nat
    BY DEF TypeInv, TypeOK
  <1> QED BY <1>1, <1>2 DEF Jobs, On

(* What Jobs counts. *)
LEMMA JobsSum ==
    ASSUME NEW ip
    PROVE  Jobs(ip) = Cardinality(On(ip)) + finished[ip] + (IF Offers(ip) THEN 1 ELSE 0)
  BY DEF Jobs, On, Offers

(* An address without a worker, a result or an offer is not scanned. *)
LEMMA NoJobs ==
    ASSUME NEW ip, On(ip) = {}, finished[ip] = 0, ~ Offers(ip)
    PROVE  Jobs(ip) = 0
  BY JobsSum, FS_EmptySet

(* What the loop adds to the scans of an address. *)
Offer(ip) == IF Offers(ip) THEN 1 ELSE 0

(* How the scans of an address change with what Jobs counts. *)
LEMMA JobsChange ==
    ASSUME TypeInv, NEW ip \in Ips, NEW d \in Int, NEW e \in Int, NEW f \in Int,
           Cardinality(On(ip))' = Cardinality(On(ip)) + d,
           finished'[ip] = finished[ip] + e,
           Offer(ip)' = Offer(ip) + f
    PROVE  Jobs(ip)' = Jobs(ip) + d + e + f
  <1>1. Jobs(ip) = Cardinality(On(ip)) + finished[ip] + Offer(ip)
    BY JobsSum DEF Offer
  <1>2. Jobs(ip)' = Cardinality(On(ip))' + finished'[ip] + Offer(ip)'
    BY DEF Jobs, On, Offer, Offers
  <1>3. Cardinality(On(ip)) \in Nat /\ finished[ip] \in Nat /\ Offer(ip) \in Nat
    BY JobsNat DEF Offer
  <1> QED BY <1>1, <1>2, <1>3

(* The scans of an address stay when nothing it counts changes. *)
LEMMA SameJobs ==
    ASSUME NEW ip, worker' = worker, finished'[ip] = finished[ip],
           Offers(ip)' <=> Offers(ip)
    PROVE  Jobs(ip)' = Jobs(ip)
  BY DEF Jobs, Offers

(* A worker takes an address. *)
LEMMA WorkerTakes ==
    ASSUME TypeInv, NEW w \in Workers, NEW ip \in Ips, worker[w] = "none",
           worker' = [worker EXCEPT ![w] = ip]
    PROVE  /\ \A i \in Ips : IsFiniteSet(On(i)')
           /\ Cardinality(On(ip)') = Cardinality(On(ip)) + 1
           /\ \A i \in Ips \ {ip} : On(i)' = On(i)
  <1>1. On(ip)' = On(ip) \cup {w} /\ w \notin On(ip)
    BY ScannerAssumption DEF On, TypeInv, TypeOK
  <1>2. \A i \in Ips \ {ip} : On(i)' = On(i)
    BY ScannerAssumption DEF On, TypeInv, TypeOK
  <1>3. IsFiniteSet(On(ip)') /\ Cardinality(On(ip)') = Cardinality(On(ip)) + 1
    BY <1>1, FS_AddElement DEF TypeInv, FiniteInv
  <1>4. ASSUME NEW i \in Ips PROVE IsFiniteSet(On(i)')
    BY <1>2, <1>3 DEF TypeInv, FiniteInv
  <1> QED BY <1>2, <1>3, <1>4

(* A worker leaves its address. *)
LEMMA WorkerLeaves ==
    ASSUME TypeInv, NEW w \in Workers, NEW ip \in Ips, worker[w] = ip,
           worker' = [worker EXCEPT ![w] = "none"]
    PROVE  /\ \A i \in Ips : IsFiniteSet(On(i)')
           /\ Cardinality(On(ip)') = Cardinality(On(ip)) - 1
           /\ \A i \in Ips \ {ip} : On(i)' = On(i)
  <1>1. On(ip)' = On(ip) \ {w} /\ w \in On(ip)
    BY ScannerAssumption DEF On, TypeInv, TypeOK
  <1>2. \A i \in Ips \ {ip} : On(i)' = On(i)
    BY ScannerAssumption DEF On, TypeInv, TypeOK
  <1>3. IsFiniteSet(On(ip)') /\ Cardinality(On(ip)') = Cardinality(On(ip)) - 1
    BY <1>1, FS_RemoveElement DEF TypeInv, FiniteInv
  <1>4. ASSUME NEW i \in Ips PROVE IsFiniteSet(On(i)')
    BY <1>2, <1>3 DEF TypeInv, FiniteInv
  <1> QED BY <1>2, <1>3, <1>4

(* With the ip command an address has one scan at most. *)
LEMMA AskedOnce ==
    ASSUME TypeInv, ModeInv, command = "ip", NEW ip \in Ips
    PROVE  Jobs(ip) <= 1
  <1>1. finished[ip] = 0 /\ ~ Offers(ip)
    BY DEF ModeInv, QuietInv, Quiet, Select, Offers
  <1>2. CASE On(ip) = {}
    BY <1>1, <1>2, NoJobs
  <1>3. CASE On(ip) # {}
    <2>1. PICK w \in Workers : worker[w] = ip
      BY <1>3 DEF On
    <2>2. On(ip) = {w}
      BY <2>1 DEF On, ModeInv, AskedInv
    <2>3. Cardinality(On(ip)) = 1
      BY <2>2, FS_Singleton
    <2> QED BY <1>1, <2>3, JobsSum
  <1> QED BY <1>2, <1>3

-----------------------------------------------------------------------------
(* Types. *)

(* A process that has just been started has its types and scans nothing. *)
LEMMA FreshFacts ==
    ASSUME NEW c \in {"event", "ip"}, NEW cons, NEW dec, NEW l, NEW w, NEW f, NEW a,
           Fresh(c, cons, dec, l, w, f, a)
    PROVE  /\ cons = "none" /\ dec = "none" /\ l = Select
           /\ w \in [Workers -> Ips \cup {"none"}] /\ \A x \in Workers : w[x] = "none"
           /\ f \in [Ips -> Nat] /\ \A ip \in Ips : f[ip] = 0
           /\ a \in [Ips -> {"none", "offered", "taken", "done"}]
           /\ c = "event" => \A ip \in Ips : a[ip] = "none"
  BY DEF Fresh

(* No idle worker is on an address. *)
LEMMA IdleFinite ==
    ASSUME NEW W, \A w \in Workers : W[w] = "none"
    PROVE  \A ip \in Ips : /\ {w \in Workers : W[w] = ip} = {}
                           /\ IsFiniteSet({w \in Workers : W[w] = ip})
  <1>1. \A ip \in Ips : {w \in Workers : W[w] = ip} = {}
    BY ScannerAssumption
  <1> QED BY <1>1, FS_EmptySet

(* What a step of the broker or the loop leaves finite. *)
LEMMA StillFinite ==
    ASSUME FiniteInv, UNCHANGED worker
    PROVE  FiniteInv'
  BY DEF FiniteInv, On

(* Every step keeps the types. *)
LEMMA TypeStep ==
    ASSUME TypeInv, Next
    PROVE  TypeInv'
  <1> USE DEF TypeInv
  <1>0. Select \in [at : {"select", "cache", "offer"}, ip : Ips \cup {"none"}]
    BY DEF Select
  <1>1. ASSUME NEW m \in Messages, Publish(m) PROVE TypeInv'
    <2>1. topic' \in Seq(Messages) /\ Len(topic') <= MaxTopic
      BY <1>1, ScannerAssumption DEF Publish, TypeOK
    <2> QED BY <1>1, <2>1, StillFinite DEF Publish, TypeOK, LoopInv, redisVars
  <1>2. CASE Consume
    <2>1. Head(topic) \in Messages /\ Tail(topic) \in Seq(Messages)
          /\ Len(Tail(topic)) <= MaxTopic
      BY <1>2, ScannerAssumption DEF Consume, TypeOK
    <2> QED BY <1>2, <2>1, StillFinite DEF Consume, TypeOK, LoopInv, redisVars
  <1>3. CASE Notify
    BY <1>3, StillFinite DEF Notify, TypeOK, LoopInv, redisVars
  <1>4. CASE TakeNode
    BY <1>0, <1>4, StillFinite DEF TakeNode, LoopFrame, TypeOK, LoopInv, redisVars, Select
  <1>5. CASE CacheScan
    <2>1. loop.ip \in Ips
      BY <1>5 DEF CacheScan, LoopInv
    <2>2. loop' = Select \/ loop' = [loop EXCEPT !.at = "offer"]
      BY <1>5 DEF CacheScan
    <2>3. loop' \in [at : {"select", "cache", "offer"}, ip : Ips \cup {"none"}] /\ LoopInv'
      BY <1>0, <2>1, <2>2 DEF TypeOK, LoopInv, Select
    <2>4. marks' \subseteq Ips /\ settled' \subseteq Ips
      BY <1>5, <2>1 DEF CacheScan, TypeOK
    <2> QED BY <1>5, <2>3, <2>4, StillFinite DEF CacheScan, LoopFrame, TypeOK
  <1>6. CASE CacheScanError
    <2>1. loop.ip \in Ips
      BY <1>6 DEF CacheScanError, LoopInv
    <2>2. marks' \subseteq Ips /\ settled' \subseteq Ips
      BY <1>6, <2>1 DEF CacheScanError, TypeOK
    <2> QED BY <1>0, <1>6, <2>2, StillFinite
            DEF CacheScanError, LoopFrame, TypeOK, LoopInv, Select
  <1>7. CASE ScanNoWait
    <2>1. loop.ip \in Ips
      BY <1>7 DEF ScanNoWait, LoopInv
    <2>2. PICK w \in Workers :
             worker[w] = "none" /\ worker' = [worker EXCEPT ![w] = loop.ip]
      BY <1>7 DEF ScanNoWait
    <2>3. FiniteInv'
      BY <2>1, <2>2, WorkerTakes DEF FiniteInv
    <2> QED BY <1>0, <1>7, <2>1, <2>2, <2>3
            DEF ScanNoWait, LoopFrame, TypeOK, LoopInv, Select, redisVars
  <1>8. CASE ScanNoWaitCancelled
    <2>1. loop.ip \in Ips
      BY <1>8 DEF ScanNoWaitCancelled, LoopInv
    <2> QED BY <1>0, <1>8, <2>1, StillFinite
            DEF ScanNoWaitCancelled, JobSettled, LoopFrame, TypeOK, LoopInv, Select
  <1>9. ASSUME NEW w \in Workers, ScanItem(w) PROVE TypeInv'
    <2>1. FiniteInv'
      BY <1>9, WorkerLeaves DEF ScanItem, FiniteInv
    <2>2. finished' \in [Ips -> Nat]
          /\ asked' \in [Ips -> {"none", "offered", "taken", "done"}]
      BY <1>9 DEF ScanItem, TypeOK
    <2> QED BY <1>9, <2>1, <2>2 DEF ScanItem, TypeOK, LoopInv, redisVars
  <1>10. ASSUME NEW w \in Workers, NEW ip \in Ips, Scan(w, ip) PROVE TypeInv'
    <2>1. FiniteInv'
      BY <1>10, WorkerTakes DEF Scan, FiniteInv
    <2> QED BY <1>10, <2>1 DEF Scan, TypeOK, LoopInv, redisVars
  <1>11. ASSUME NEW ip \in Ips, CreateScanRecord(ip) \/ RecordLost(ip) PROVE TypeInv'
    <2>1. finished' \in [Ips -> Nat]
      BY <1>11 DEF CreateScanRecord, RecordLost, TypeOK
    <2> QED BY <1>11, <2>1, StillFinite
            DEF CreateScanRecord, RecordLost, JobSettled, TypeOK, LoopInv
  <1>12. ASSUME NEW ip \in Ips, MarkExpires(ip) PROVE TypeInv'
    BY <1>12, StillFinite DEF MarkExpires, runVars, TypeOK, LoopInv
  <1>13. CASE Interrupt
    BY <1>13, StillFinite DEF Interrupt, runVars, redisVars, TypeOK, LoopInv
  <1>14. CASE Ends
    <2>1. Fresh("event", consumer', decoder', loop', worker', finished', asked')
      BY <1>14 DEF Ends
    <2>2. /\ consumer' = "none" /\ decoder' = "none" /\ loop' = Select
          /\ worker' \in [Workers -> Ips \cup {"none"}]
          /\ \A x \in Workers : worker'[x] = "none"
          /\ finished' \in [Ips -> Nat]
          /\ asked' \in [Ips -> {"none", "offered", "taken", "done"}]
      BY <2>1, FreshFacts
    <2>3. FiniteInv'
      BY <2>2, IdleFinite DEF FiniteInv, On
    <2> QED BY <1>0, <1>14, <2>2, <2>3, ScannerAssumption
            DEF Ends, TypeOK, LoopInv, Select
  <1>15. CASE Restart
    <2>1. command' \in {"event", "ip"}
          /\ Fresh(command', consumer', decoder', loop', worker', finished', asked')
      BY <1>15 DEF Restart
    <2>2. /\ consumer' = "none" /\ decoder' = "none" /\ loop' = Select
          /\ worker' \in [Workers -> Ips \cup {"none"}]
          /\ \A x \in Workers : worker'[x] = "none"
          /\ finished' \in [Ips -> Nat]
          /\ asked' \in [Ips -> {"none", "offered", "taken", "done"}]
      BY <2>1, FreshFacts
    <2>3. FiniteInv'
      BY <2>2, IdleFinite DEF FiniteInv, On
    <2> QED BY <1>0, <1>15, <2>1, <2>2, <2>3 DEF Restart, redisVars, TypeOK, LoopInv, Select
  <1> QED
    BY <1>1, <1>2, <1>3, <1>4, <1>5, <1>6, <1>7, <1>8, <1>9, <1>10, <1>11, <1>12,
       <1>13, <1>14, <1>15
    DEF Next, Loop, Exit, StartReturns, runIpScanner, ConnectionCloses, runStatus

-----------------------------------------------------------------------------
(* The two commands. *)

(* What neither the ip command nor a process that is down does. *)
LEMMA QuietMeans ==
    ASSUME TypeInv, QuietInv,
           \/ \E m \in Messages : Publish(m)
           \/ Consume \/ Notify \/ Loop
           \/ \E ip \in Ips : CreateScanRecord(ip) \/ RecordLost(ip)
    PROVE  ~ Quiet
  <1> SUFFICES ASSUME Quiet PROVE FALSE
    OBVIOUS
  <1>1. /\ topic = << >> /\ consumer = "none" /\ decoder = "none"
        /\ loop.at = "select" /\ \A ip \in Ips : finished[ip] = 0
    BY DEF QuietInv, Select
  <1>2. decoder \notin Messages
    BY <1>1, ScannerAssumption DEF Messages
  <1>3. ~ (\E m \in Messages : Publish(m)) /\ ~ Consume /\ ~ Notify
    BY <1>1 DEF Publish, Consume, Notify, Quiet
  <1>4. ~ Loop
    BY <1>1, <1>2 DEF Loop, TakeNode, CacheScan, CacheScanError, ScanNoWait,
                      ScanNoWaitCancelled
  <1>5. ~ \E ip \in Ips : CreateScanRecord(ip) \/ RecordLost(ip)
    BY <1>1 DEF CreateScanRecord, RecordLost
  <1> QED BY <1>3, <1>4, <1>5

(* Every step keeps what tells the commands apart. *)
LEMMA ModeStep ==
    ASSUME TypeInv, ModeInv, Next
    PROVE  ModeInv'
  <1>1. CASE /\ \/ \E m \in Messages : Publish(m)
                \/ Consume \/ Notify \/ Loop
                \/ \E ip \in Ips : CreateScanRecord(ip) \/ RecordLost(ip)
    <2>1. ~ Quiet
      BY <1>1, QuietMeans DEF ModeInv
    <2>2. UNCHANGED <<command, proc, asked>>
      BY <1>1 DEF Publish, Consume, Notify, Loop, TakeNode, CacheScan, CacheScanError,
                  ScanNoWait, ScanNoWaitCancelled, LoopFrame, CreateScanRecord, RecordLost
    <2> QED BY <2>1, <2>2 DEF ModeInv, Quiet, QuietInv, DownInv, AskedInv
  <1>2. ASSUME NEW w \in Workers, ScanItem(w) PROVE ModeInv'
    <2>1. proc # "down" /\ UNCHANGED <<command, proc, topic, consumer, decoder, loop>>
      BY <1>2, ScannerAssumption DEF ScanItem, ModeInv, DownInv
    <2>2. CASE command = "event"
      BY <1>2, <2>1, <2>2 DEF ScanItem, ModeInv, Quiet, QuietInv, DownInv, AskedInv
    <2>3. CASE command # "event"
      <3>1. command = "ip"
        BY <2>3 DEF TypeInv, TypeOK
      <3>2. UNCHANGED finished /\ asked' = [asked EXCEPT ![worker[w]] = "done"]
        BY <1>2, <2>3 DEF ScanItem
      <3>3. AskedInv'
        <4>1. ASSUME NEW u \in Workers, worker'[u] \in Ips
              PROVE  /\ u # w /\ worker'[u] = worker[u] /\ worker[u] \in Ips
                     /\ worker[u] # worker[w]
          <5>1. u # w /\ worker'[u] = worker[u]
            BY <1>2, <4>1, ScannerAssumption DEF ScanItem, TypeInv, TypeOK
          <5> QED BY <1>2, <3>1, <4>1, <5>1 DEF ModeInv, AskedInv
        <4>2. ASSUME NEW u \in Workers, worker'[u] \in Ips
              PROVE  asked'[worker'[u]] = "taken"
          BY <1>2, <3>1, <3>2, <4>1, <4>2 DEF ModeInv, AskedInv, TypeInv, TypeOK
        <4>3. ASSUME NEW u \in Workers, worker'[u] \in Ips,
                     NEW v \in Workers, worker'[v] = worker'[u]
              PROVE  v = u
          BY <3>1, <4>1, <4>3 DEF ModeInv, AskedInv
        <4> QED BY <2>1, <3>1, <4>2, <4>3 DEF AskedInv
      <3> QED BY <2>1, <3>1, <3>2, <3>3 DEF ModeInv, Quiet, QuietInv, DownInv
    <2> QED BY <2>2, <2>3
  <1>3. ASSUME NEW w \in Workers, NEW ip \in Ips, Scan(w, ip) PROVE ModeInv'
    <2>1. proc # "down" /\ command = "ip"
      BY <1>3 DEF Scan, ModeInv, AskedInv, TypeInv, TypeOK
    <2>2. \A u \in Workers : worker[u] # ip
      BY <1>3, <2>1 DEF Scan, ModeInv, AskedInv
    <2>3. AskedInv'
      <3>1. ASSUME NEW u \in Workers, worker'[u] \in Ips
            PROVE  \/ u = w /\ worker'[u] = ip
                   \/ u # w /\ worker'[u] = worker[u] /\ worker[u] # ip
        BY <1>3, <2>2 DEF Scan, TypeInv, TypeOK
      <3>2. ASSUME NEW u \in Workers, worker'[u] \in Ips
            PROVE  asked'[worker'[u]] = "taken"
        BY <1>3, <2>1, <3>1, <3>2 DEF Scan, ModeInv, AskedInv, TypeInv, TypeOK
      <3>3. ASSUME NEW u \in Workers, worker'[u] \in Ips,
                   NEW v \in Workers, worker'[v] = worker'[u]
            PROVE  v = u
        BY <2>1, <3>1, <3>3 DEF ModeInv, AskedInv
      <3>4. UNCHANGED <<command, proc>>
        BY <1>3 DEF Scan
      <3> QED BY <2>1, <3>2, <3>3, <3>4 DEF AskedInv
    <2> QED BY <1>3, <2>1, <2>3 DEF Scan, ModeInv, Quiet, QuietInv, DownInv
  <1>4. ASSUME NEW ip \in Ips, MarkExpires(ip) PROVE ModeInv'
    BY <1>4 DEF MarkExpires, runVars, ModeInv, Quiet, QuietInv, DownInv, AskedInv
  <1>5. CASE Interrupt
    BY <1>5 DEF Interrupt, runVars, ModeInv, Quiet, QuietInv, DownInv, AskedInv
  <1>6. CASE Ends
    <2>1. Fresh("event", consumer', decoder', loop', worker', finished', asked')
          /\ proc' = "down" /\ topic' = << >>
      BY <1>6 DEF Ends
    <2>2. /\ consumer' = "none" /\ decoder' = "none" /\ loop' = Select
          /\ \A x \in Workers : worker'[x] = "none"
          /\ \A ip \in Ips : finished'[ip] = 0
          /\ \A ip \in Ips : asked'[ip] = "none"
      BY <2>1, FreshFacts
    <2> QED BY <2>1, <2>2, ScannerAssumption DEF ModeInv, QuietInv, DownInv, AskedInv
  <1>7. CASE Restart
    <2>1. /\ command' \in {"event", "ip"} /\ proc' = "up" /\ topic' = << >>
          /\ Fresh(command', consumer', decoder', loop', worker', finished', asked')
      BY <1>7 DEF Restart, ModeInv, QuietInv, Quiet
    <2>2. /\ consumer' = "none" /\ decoder' = "none" /\ loop' = Select
          /\ \A x \in Workers : worker'[x] = "none"
          /\ \A ip \in Ips : finished'[ip] = 0
          /\ command' = "event" => \A ip \in Ips : asked'[ip] = "none"
      BY <2>1, FreshFacts
    <2> QED BY <2>1, <2>2, ScannerAssumption DEF ModeInv, QuietInv, DownInv, AskedInv
  <1> QED
    BY <1>1, <1>2, <1>3, <1>4, <1>5, <1>6, <1>7
    DEF Next, Exit, StartReturns, runIpScanner, ConnectionCloses, runStatus

-----------------------------------------------------------------------------
(* Marks and scans. *)

(* A step that neither starts nor ends a scan of the event command. *)
SameScans ==
    /\ UNCHANGED <<command, redisVars>> /\ (Quiet' => Quiet)
    /\ \A ip \in Ips : Jobs(ip)' = Jobs(ip)

(* Such a step changes nothing for the marks. *)
LEMMA SameScansStep ==
    ASSUME TypeInv, MarkInv, SameScans
    PROVE  MarkInv'
  BY DEF SameScans, TypeInv, TypeOK, MarkInv, JobInv, LeftInv, MarksStandForScans,
         TwinScansNeedExpiry, redisVars

(* A scan ends, recorded or not. *)
ScanEnds(ip) ==
    /\ UNCHANGED <<command, marks>> /\ (Quiet' => Quiet)
    /\ JobSettled(ip)
    /\ Jobs(ip) > 0 /\ Jobs(ip)' = Jobs(ip) - 1
    /\ \A i \in Ips \ {ip} : Jobs(i)' = Jobs(i)

(* The end of a scan keeps marks and scans together. *)
LEMMA ScanEndsStep ==
    ASSUME TypeInv, MarkInv, NEW ip \in Ips, ScanEnds(ip)
    PROVE  MarkInv'
  <1>1. \A i \in Ips : Jobs(i) \in Nat
    BY JobsNat
  <1>2. marks \subseteq Ips
    BY DEF TypeInv, TypeOK
  <1>3. JobInv'
    BY <1>1 DEF ScanEnds, JobSettled, MarkInv, JobInv, TwinScansNeedExpiry
  <1>4. LeftInv'
    BY DEF ScanEnds, JobSettled, MarkInv, LeftInv
  <1>5. MarksStandForScans'
    BY <1>1, <1>2 DEF ScanEnds, JobSettled, MarkInv, MarksStandForScans
  <1>6. TwinScansNeedExpiry'
    BY <1>1 DEF ScanEnds, JobSettled, MarkInv, TwinScansNeedExpiry
  <1> QED BY <1>3, <1>4, <1>5, <1>6 DEF MarkInv

(* A step of the ip command, which has one scan of an address at most and  *)
(* sets no mark.                                                           *)
Unmarked ==
    /\ command = "ip" /\ UNCHANGED <<command, redisVars>>
    /\ \A ip \in Ips : Jobs(ip)' \in Int /\ Jobs(ip)' <= 1

(* Such a step keeps marks and scans together. *)
LEMMA UnmarkedStep ==
    ASSUME MarkInv, Unmarked
    PROVE  MarkInv'
  <1>1. marks' \subseteq settled' /\ command' = "ip"
    BY DEF Unmarked, MarkInv, LeftInv, Quiet, redisVars
  <1>2. \A ip \in Ips : ~ (Jobs(ip)' > 1)
    BY DEF Unmarked
  <1> QED BY <1>1, <1>2
          DEF MarkInv, JobInv, LeftInv, MarksStandForScans, TwinScansNeedExpiry

(* A process that has just been started scans nothing. *)
LEMMA IdleJobs ==
    ASSUME loop' = Select, \A w \in Workers : worker'[w] = "none",
           \A ip \in Ips : finished'[ip] = 0
    PROVE  \A ip \in Ips : Jobs(ip)' = 0
  <1>1. \A ip \in Ips : {w \in Workers : worker'[w] = ip} = {}
    BY IdleFinite
  <1>2. Cardinality({}) = 0
    BY FS_EmptySet
  <1> QED BY <1>1, <1>2 DEF Jobs, Select

(* Every step keeps marks and scans together. *)
LEMMA MarkStep ==
    ASSUME Inv, Next
    PROVE  MarkInv'
  <1>0. TypeInv /\ ModeInv /\ MarkInv /\ \A ip \in Ips : Jobs(ip) \in Nat
    BY JobsNat DEF Inv
  <1>1. CASE (\E m \in Messages : Publish(m)) \/ Consume \/ Notify
    <2>1. UNCHANGED <<command, proc, worker, finished, loop, redisVars>>
      BY <1>1 DEF Publish, Consume, Notify
    <2>2. \A ip \in Ips : Offers(ip)' <=> Offers(ip)
      BY <2>1 DEF Offers
    <2>3. SameScans
      BY <2>1, <2>2, SameJobs DEF SameScans, Quiet
    <2> QED BY <1>0, <2>3, SameScansStep
  <1>2. CASE TakeNode
    <2>1. UNCHANGED <<command, proc, worker, finished, redisVars>>
          /\ loop.at # "offer" /\ loop'.at # "offer"
      BY <1>2 DEF TakeNode, LoopFrame, Select
    <2>2. \A ip \in Ips : Offers(ip)' <=> Offers(ip)
      BY <2>1 DEF Offers
    <2>3. SameScans
      BY <2>1, <2>2, SameJobs DEF SameScans, Quiet
    <2> QED BY <1>0, <2>3, SameScansStep
  <1>3. CASE CacheScan
    <2>1. /\ UNCHANGED <<command, proc, worker, finished, outlived>>
          /\ loop.at = "cache" /\ loop.ip \in Ips /\ ~ Quiet
      BY <1>0, <1>3, QuietMeans DEF CacheScan, LoopFrame, Loop, TypeInv, LoopInv, ModeInv
    <2>2. CASE loop.ip \in marks
      <3>1. UNCHANGED <<marks, settled>> /\ loop' = Select
        BY <1>3, <2>2 DEF CacheScan
      <3>2. \A ip \in Ips : Offers(ip)' <=> Offers(ip)
        BY <2>1, <3>1 DEF Offers, Select
      <3>3. SameScans
        BY <2>1, <3>1, <3>2, SameJobs DEF SameScans, Quiet, redisVars
      <3> QED BY <1>0, <3>3, SameScansStep
    <2>3. CASE loop.ip \notin marks
      <3>1. /\ marks' = marks \cup {loop.ip} /\ settled' = settled \ {loop.ip}
            /\ loop' = [loop EXCEPT !.at = "offer"]
        BY <1>3, <2>3 DEF CacheScan
      <3>2. PICK p \in Ips : p = loop.ip
        BY <2>1
      <3>3. \A ip \in Ips : ~ Offers(ip) /\ (Offers(ip)' <=> ip = p)
        BY <1>0, <2>1, <3>1, <3>2 DEF Offers, TypeInv, TypeOK
      <3>4. \A ip \in Ips \ {p} : Jobs(ip)' = Jobs(ip)
        BY <2>1, <3>3, SameJobs
      <3>5. Jobs(p)' = Jobs(p) + 1
        <4>1. Cardinality(On(p))' = Cardinality(On(p)) + 0
              /\ finished'[p] = finished[p] + 0 /\ Offer(p)' = Offer(p) + 1
          BY <1>0, <2>1, <3>3, JobsNat DEF On, Offer
        <4>2. Jobs(p)' = Jobs(p) + 0 + 0 + 1
          BY <1>0, <4>1, JobsChange
        <4> QED BY <1>0, <4>2
      <3>6. Jobs(p) > 0 => p \in outlived
        BY <1>0, <2>1, <2>3, <3>2 DEF Quiet, TypeInv, TypeOK, MarkInv, JobInv
      <3>7. ~ Quiet' /\ JobInv' /\ TwinScansNeedExpiry'
        BY <1>0, <2>1, <3>1, <3>2, <3>4, <3>5, <3>6
           DEF Quiet, MarkInv, JobInv, TwinScansNeedExpiry
      <3>8. MarksStandForScans'
        BY <1>0, <3>1, <3>2, <3>4, <3>5 DEF TypeInv, TypeOK, MarkInv, MarksStandForScans
      <3> QED BY <3>7, <3>8 DEF MarkInv, LeftInv
    <2> QED BY <2>2, <2>3
  <1>4. CASE CacheScanError
    <2>1. /\ UNCHANGED <<command, proc, worker, finished, outlived>>
          /\ loop.at = "cache" /\ loop' = Select /\ loop.ip \in Ips /\ ~ Quiet
          /\ settled' = settled \cup {loop.ip} /\ marks' \in {marks, marks \cup {loop.ip}}
      BY <1>0, <1>4, QuietMeans DEF CacheScanError, LoopFrame, Loop, TypeInv, LoopInv, ModeInv
    <2>2. \A ip \in Ips : Offers(ip)' <=> Offers(ip)
      BY <2>1 DEF Offers, Select
    <2>3. \A ip \in Ips : Jobs(ip)' = Jobs(ip)
      BY <2>1, <2>2, SameJobs
    <2>4. ~ Quiet' /\ JobInv' /\ TwinScansNeedExpiry'
      BY <1>0, <2>1, <2>3 DEF Quiet, MarkInv, JobInv, TwinScansNeedExpiry
    <2>5. MarksStandForScans'
      BY <1>0, <2>1, <2>3 DEF TypeInv, TypeOK, MarkInv, MarksStandForScans
    <2> QED BY <2>4, <2>5 DEF MarkInv, LeftInv
  <1>5. CASE ScanNoWait
    <2>1. /\ UNCHANGED <<command, proc, finished, redisVars>>
          /\ loop.at = "offer" /\ loop' = Select
      BY <1>5 DEF ScanNoWait, LoopFrame
    <2>2. PICK p \in Ips : p = loop.ip
      BY <1>0, <2>1 DEF TypeInv, LoopInv
    <2>3. PICK w \in Workers : worker[w] = "none" /\ worker' = [worker EXCEPT ![w] = p]
      BY <1>5, <2>2 DEF ScanNoWait
    <2>4. /\ Cardinality(On(p)') = Cardinality(On(p)) + 1
          /\ \A ip \in Ips \ {p} : On(ip)' = On(ip)
      BY <1>0, <2>3, WorkerTakes
    <2>5. \A ip \in Ips : Offer(ip)' = 0 /\ Offer(ip) = IF ip = p THEN 1 ELSE 0
      BY <2>1, <2>2 DEF Offer, Offers, Select
    <2>6. Jobs(p)' = Jobs(p)
      <3>1. /\ Cardinality(On(p))' = Cardinality(On(p)) + 1
            /\ finished'[p] = finished[p] + 0 /\ Offer(p)' = Offer(p) + (-1)
        BY <1>0, <2>1, <2>4, <2>5, JobsNat
      <3>2. Jobs(p)' = Jobs(p) + 1 + 0 + (-1)
        BY <1>0, <3>1, JobsChange
      <3> QED BY <1>0, <3>2
    <2>7. ASSUME NEW ip \in Ips \ {p} PROVE Jobs(ip)' = Jobs(ip)
      <3>1. /\ Cardinality(On(ip))' = Cardinality(On(ip)) + 0
            /\ finished'[ip] = finished[ip] + 0 /\ Offer(ip)' = Offer(ip) + 0
        BY <1>0, <2>1, <2>4, <2>5, JobsNat
      <3>2. Jobs(ip)' = Jobs(ip) + 0 + 0 + 0
        BY <1>0, <3>1, JobsChange
      <3> QED BY <1>0, <3>2
    <2>8. SameScans
      BY <2>1, <2>6, <2>7 DEF SameScans, Quiet
    <2> QED BY <1>0, <2>8, SameScansStep
  <1>6. CASE ScanNoWaitCancelled
    <2>1. /\ UNCHANGED <<command, proc, worker, finished, marks>>
          /\ loop.at = "offer" /\ loop' = Select /\ JobSettled(loop.ip)
      BY <1>6 DEF ScanNoWaitCancelled, LoopFrame
    <2>2. PICK p \in Ips : p = loop.ip
      BY <1>0, <2>1 DEF TypeInv, LoopInv
    <2>3. \A ip \in Ips : Offer(ip)' = 0 /\ Offer(ip) = IF ip = p THEN 1 ELSE 0
      BY <2>1, <2>2 DEF Offer, Offers, Select
    <2>4. Jobs(p) > 0 /\ Jobs(p)' = Jobs(p) - 1
      <3>1. /\ Cardinality(On(p))' = Cardinality(On(p)) + 0
            /\ finished'[p] = finished[p] + 0 /\ Offer(p)' = Offer(p) + (-1)
        BY <1>0, <2>1, <2>3, JobsNat DEF On
      <3>2. Jobs(p)' = Jobs(p) + 0 + 0 + (-1)
        BY <1>0, <3>1, JobsChange
      <3>3. Jobs(p) > 0
        BY <1>0, <2>1, <2>2, JobsNat, JobsSum DEF Offers
      <3> QED BY <1>0, <3>2, <3>3
    <2>5. ASSUME NEW ip \in Ips \ {p} PROVE Jobs(ip)' = Jobs(ip)
      <3>1. Offers(ip)' <=> Offers(ip)
        BY <2>1, <2>2, <2>5 DEF Offers, Select
      <3> QED BY <2>1, <3>1, SameJobs
    <2>6. ScanEnds(p)
      BY <2>1, <2>2, <2>4, <2>5 DEF ScanEnds, Quiet, JobSettled
    <2> QED BY <1>0, <2>6, ScanEndsStep
  <1>7. ASSUME NEW w \in Workers, ScanItem(w) PROVE MarkInv'
    <2>1. /\ UNCHANGED <<command, proc, loop, redisVars>>
          /\ worker' = [worker EXCEPT ![w] = "none"]
      BY <1>7 DEF ScanItem
    <2>2. PICK p \in Ips : p = worker[w]
      BY <1>7 DEF ScanItem
    <2>3. /\ Cardinality(On(p)') = Cardinality(On(p)) - 1
          /\ \A ip \in Ips \ {p} : On(ip)' = On(ip)
      BY <1>0, <2>1, <2>2, WorkerLeaves
    <2>4. \A ip \in Ips : Offer(ip)' = Offer(ip) /\ Offer(ip) \in Nat
      BY <2>1 DEF Offer, Offers
    <2>5. \A ip \in Ips \ {p} : finished'[ip] = finished[ip]
      BY <1>0, <1>7, <2>2 DEF ScanItem, TypeInv, TypeOK
    <2>6. ASSUME NEW ip \in Ips \ {p} PROVE Jobs(ip)' = Jobs(ip)
      <3>1. /\ Cardinality(On(ip))' = Cardinality(On(ip)) + 0
            /\ finished'[ip] = finished[ip] + 0 /\ Offer(ip)' = Offer(ip) + 0
        BY <1>0, <2>3, <2>4, <2>5, JobsNat
      <3>2. Jobs(ip)' = Jobs(ip) + 0 + 0 + 0
        BY <1>0, <3>1, JobsChange
      <3> QED BY <1>0, <3>2
    <2>7. CASE command = "event"
      <3>1. /\ Cardinality(On(p))' = Cardinality(On(p)) + (-1)
            /\ finished'[p] = finished[p] + 1 /\ Offer(p)' = Offer(p) + 0
        BY <1>0, <1>7, <2>2, <2>3, <2>4, <2>7, JobsNat DEF ScanItem, TypeInv, TypeOK
      <3>2. Jobs(p)' = Jobs(p) + (-1) + 1 + 0
        BY <1>0, <3>1, JobsChange
      <3>3. SameScans
        BY <1>0, <2>1, <2>6, <3>2 DEF SameScans, Quiet
      <3> QED BY <1>0, <3>3, SameScansStep
    <2>8. CASE command # "event"
      <3>1. /\ Cardinality(On(p))' = Cardinality(On(p)) + (-1)
            /\ finished'[p] = finished[p] + 0 /\ Offer(p)' = Offer(p) + 0
        BY <1>0, <1>7, <2>3, <2>4, <2>8, JobsNat DEF ScanItem
      <3>2. Jobs(p)' = Jobs(p) + (-1) + 0 + 0
        BY <1>0, <3>1, JobsChange
      <3>3. command = "ip" /\ Jobs(p) <= 1
        BY <1>0, <2>8, AskedOnce DEF TypeInv, TypeOK
      <3>4. Unmarked
        BY <1>0, <2>1, <2>6, <3>2, <3>3, AskedOnce DEF Unmarked
      <3> QED BY <1>0, <3>4, UnmarkedStep
    <2> QED BY <2>7, <2>8
  <1>8. ASSUME NEW w \in Workers, NEW p \in Ips, Scan(w, p) PROVE MarkInv'
    <2>1. /\ UNCHANGED <<command, proc, loop, finished, redisVars>>
          /\ worker[w] = "none" /\ worker' = [worker EXCEPT ![w] = p]
          /\ asked[p] = "offered"
      BY <1>8 DEF Scan
    <2>2. command = "ip" /\ On(p) = {}
      BY <1>0, <2>1 DEF On, ModeInv, AskedInv, TypeInv, TypeOK
    <2>3. finished[p] = 0 /\ Offer(p) = 0 /\ Offer(p)' = 0
      BY <1>0, <2>1, <2>2 DEF ModeInv, QuietInv, Quiet, Select, Offer, Offers
    <2>4. /\ Cardinality(On(p)') = Cardinality(On(p)) + 1
          /\ \A ip \in Ips \ {p} : On(ip)' = On(ip)
      BY <1>0, <2>1, WorkerTakes
    <2>5. Jobs(p)' \in Int /\ Jobs(p)' <= 1
      <3>1. Jobs(p) = 0
        BY <2>2, <2>3, NoJobs DEF Offer
      <3>2. /\ Cardinality(On(p))' = Cardinality(On(p)) + 1
            /\ finished'[p] = finished[p] + 0 /\ Offer(p)' = Offer(p) + 0
        BY <2>1, <2>3, <2>4
      <3>3. Jobs(p)' = Jobs(p) + 1 + 0 + 0
        BY <1>0, <3>2, JobsChange
      <3> QED BY <3>1, <3>3
    <2>6. ASSUME NEW ip \in Ips \ {p} PROVE Jobs(ip)' = Jobs(ip)
      BY <2>1, <2>4 DEF Jobs, On
    <2>7. Unmarked
      BY <1>0, <2>1, <2>2, <2>5, <2>6, AskedOnce DEF Unmarked
    <2> QED BY <1>0, <2>7, UnmarkedStep
  <1>9. ASSUME NEW p \in Ips, CreateScanRecord(p) \/ RecordLost(p) PROVE MarkInv'
    <2>1. /\ UNCHANGED <<command, proc, worker, loop, marks>>
          /\ finished[p] > 0 /\ JobSettled(p)
          /\ finished' = [finished EXCEPT ![p] = @ - 1]
      BY <1>9 DEF CreateScanRecord, RecordLost
    <2>2. \A ip \in Ips : On(ip)' = On(ip) /\ Offer(ip)' = Offer(ip) /\ Offer(ip) \in Nat
                         /\ (Offers(ip)' <=> Offers(ip))
      BY <2>1 DEF On, Offer, Offers
    <2>3. Jobs(p) > 0 /\ Jobs(p)' = Jobs(p) - 1
      <3>1. /\ Cardinality(On(p))' = Cardinality(On(p)) + 0
            /\ finished'[p] = finished[p] + (-1) /\ Offer(p)' = Offer(p) + 0
        BY <1>0, <2>1, <2>2, JobsNat DEF TypeInv, TypeOK
      <3>2. Jobs(p)' = Jobs(p) + 0 + (-1) + 0
        BY <1>0, <3>1, JobsChange
      <3>3. Jobs(p) > 0
        BY <1>0, <2>1, JobsNat, JobsSum
      <3> QED BY <1>0, <3>2, <3>3
    <2>4. ASSUME NEW ip \in Ips \ {p} PROVE Jobs(ip)' = Jobs(ip)
      <3>1. finished'[ip] = finished[ip]
        BY <1>0, <2>1 DEF TypeInv, TypeOK
      <3> QED BY <2>1, <2>2, <3>1, SameJobs
    <2>5. ScanEnds(p)
      BY <2>1, <2>3, <2>4 DEF ScanEnds, Quiet
    <2> QED BY <1>0, <2>5, ScanEndsStep
  <1>10. ASSUME NEW p \in Ips, MarkExpires(p) PROVE MarkInv'
    <2>1. /\ UNCHANGED <<command, proc, worker, finished, loop>>
          /\ marks' = marks \ {p} /\ settled' = settled \ {p}
          /\ outlived' = IF Jobs(p) > 0 THEN outlived \cup {p} ELSE outlived
      BY <1>10 DEF MarkExpires, runVars
    <2>2. \A ip \in Ips : Jobs(ip)' = Jobs(ip)
      BY <2>1 DEF Jobs
    <2>3. JobInv' /\ LeftInv'
      BY <1>0, <2>1, <2>2 DEF MarkInv, JobInv, LeftInv, Quiet
    <2>4. MarksStandForScans' /\ TwinScansNeedExpiry'
      BY <1>0, <2>1, <2>2
      DEF MarkInv, MarksStandForScans, TwinScansNeedExpiry, TypeInv, TypeOK
    <2> QED BY <2>3, <2>4 DEF MarkInv
  <1>11. CASE Interrupt
    <2>1. UNCHANGED <<command, worker, finished, loop, redisVars>>
          /\ proc = "up" /\ proc' = "cancelled"
      BY <1>11 DEF Interrupt, runVars
    <2>2. \A ip \in Ips : Jobs(ip)' = Jobs(ip)
      BY <2>1 DEF Jobs
    <2>3. SameScans
      BY <2>1, <2>2 DEF SameScans, Quiet
    <2> QED BY <1>0, <2>3, SameScansStep
  <1>12. CASE Ends
    <2>1. Fresh("event", consumer', decoder', loop', worker', finished', asked')
          /\ settled' = settled \cup {ip \in marks : Jobs(ip) > 0} /\ UNCHANGED marks
      BY <1>12 DEF Ends
    <2>2. /\ loop' = Select /\ \A x \in Workers : worker'[x] = "none"
          /\ \A ip \in Ips : finished'[ip] = 0
      BY <2>1, FreshFacts
    <2>3. \A ip \in Ips : Jobs(ip)' = 0
      BY <2>2, IdleJobs
    <2>4. marks' \subseteq settled' /\ marks' \subseteq Ips
      BY <1>0, <2>1 DEF MarkInv, MarksStandForScans, TypeInv, TypeOK
    <2> QED BY <2>3, <2>4
            DEF MarkInv, JobInv, LeftInv, MarksStandForScans, TwinScansNeedExpiry
  <1>13. CASE Restart
    <2>1. /\ command' \in {"event", "ip"}
          /\ Fresh(command', consumer', decoder', loop', worker', finished', asked')
          /\ proc = "down" /\ UNCHANGED redisVars
      BY <1>13 DEF Restart
    <2>2. /\ loop' = Select /\ \A x \in Workers : worker'[x] = "none"
          /\ \A ip \in Ips : finished'[ip] = 0
      BY <2>1, FreshFacts
    <2>3. \A ip \in Ips : Jobs(ip)' = 0
      BY <2>2, IdleJobs
    <2>4. marks' \subseteq settled' /\ marks' \subseteq Ips
      BY <1>0, <2>1 DEF MarkInv, LeftInv, Quiet, TypeInv, TypeOK, redisVars
    <2> QED BY <2>3, <2>4
            DEF MarkInv, JobInv, LeftInv, MarksStandForScans, TwinScansNeedExpiry
  <1> QED
    BY <1>1, <1>2, <1>3, <1>4, <1>5, <1>6, <1>7, <1>8, <1>9, <1>10, <1>11, <1>12, <1>13
    DEF Next, Loop, Exit, StartReturns, runIpScanner, ConnectionCloses, runStatus

-----------------------------------------------------------------------------
(* The theorems. *)

(* The scanner starts within the invariant. *)
LEMMA InitInv ==
    ASSUME Init
    PROVE  Inv
  <1>1. /\ command \in {"event", "ip"} /\ proc = "up" /\ topic = << >>
        /\ Fresh(command, consumer, decoder, loop, worker, finished, asked)
        /\ marks = {} /\ settled = {} /\ outlived = {}
    BY DEF Init
  <1>2. /\ consumer = "none" /\ decoder = "none" /\ loop = Select
        /\ worker \in [Workers -> Ips \cup {"none"}] /\ \A x \in Workers : worker[x] = "none"
        /\ finished \in [Ips -> Nat] /\ \A ip \in Ips : finished[ip] = 0
        /\ asked \in [Ips -> {"none", "offered", "taken", "done"}]
        /\ command = "event" => \A ip \in Ips : asked[ip] = "none"
    BY <1>1, FreshFacts
  <1>3. \A ip \in Ips : On(ip) = {} /\ IsFiniteSet(On(ip))
    BY <1>2, IdleFinite DEF On
  <1>4. \A ip \in Ips : Jobs(ip) = 0
    BY <1>2, <1>3, NoJobs DEF Select, Offers
  <1>5. TypeInv
    BY <1>1, <1>2, <1>3, ScannerAssumption
    DEF TypeInv, TypeOK, LoopInv, FiniteInv, Select
  <1>6. ModeInv
    BY <1>1, <1>2, ScannerAssumption DEF ModeInv, QuietInv, DownInv, AskedInv
  <1>7. MarkInv
    BY <1>1, <1>4 DEF MarkInv, JobInv, LeftInv, MarksStandForScans, TwinScansNeedExpiry
  <1> QED BY <1>5, <1>6, <1>7 DEF Inv

(* The scanner keeps its types and the inductive invariant. *)
THEOREM ScannerInvariant == Spec => []Inv
  <1>1. Init => Inv
    BY InitInv
  <1>2. Inv /\ [Next]_vars => Inv'
    <2> SUFFICES ASSUME Inv, [Next]_vars PROVE Inv'
      OBVIOUS
    <2>1. CASE Next
      BY <2>1, TypeStep, ModeStep, MarkStep DEF Inv
    <2>2. CASE UNCHANGED vars
      BY <2>2 DEF vars, runVars, redisVars, Inv, TypeInv, TypeOK, LoopInv, FiniteInv, On,
                  ModeInv, Quiet, QuietInv, DownInv, AskedInv, MarkInv, JobInv, LeftInv,
                  MarksStandForScans, TwinScansNeedExpiry, Jobs
    <2> QED BY <2>1, <2>2
  <1> QED BY <1>1, <1>2, PTL DEF Spec

(* For any number of addresses and workers, and however often the process  *)
(* ends and is started as either command, a mark in Redis stands for a     *)
(* scan under way or for an address that was settled.                      *)
THEOREM MarksAreKept == Spec => []MarksStandForScans
  <1>1. Inv => MarksStandForScans
    BY DEF Inv, MarkInv
  <1> QED BY <1>1, ScannerInvariant, PTL

(* For any number of workers an address is scanned twice at a time only    *)
(* when its mark expired during a scan.                                    *)
THEOREM OneScanAtATime == Spec => []TwinScansNeedExpiry
  <1>1. Inv => TwinScansNeedExpiry
    BY DEF Inv, MarkInv
  <1> QED BY <1>1, ScannerInvariant, PTL
=============================================================================
