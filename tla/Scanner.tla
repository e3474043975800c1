------------------------------- MODULE Scanner -------------------------------
(***************************************************************************)
(* The port scanner: scanner/scanner (scanner.go, nodeScanner.go,          *)
(* cache.go), its broker (scanner/broker, service/broker) and the two      *)
(* commands of scanner/cmd.                                                *)
(*                                                                         *)
(* The event command subscribes to the topic of new nodes.  A message goes *)
(* from RabbitMQ through the consumer of the topic, the goroutine that     *)
(* decodes it and the loop of nodeScanner.Start to a worker of the         *)
(* controller; each of them holds one message and waits for the next to    *)
(* take it.  Before an address is scanned it is marked in Redis for 12     *)
(* hours; when its scan is done a record is stored.  The ip command hands  *)
(* a given set of addresses to the same workers and ends with them.        *)
(*                                                                         *)
(* The process can be interrupted, which cancels its context, can exit at  *)
(* any time, and is started again; marks and records outlive it, messages  *)
(* do not.  Ports are left out: limiter.Wait fails only for a burst of     *)
(* zero or a cancelled context and the workers are given neither, so       *)
(* every scan ends at the last port and no callback channel is closed.     *)
(* The controller's done channel is nil, its branches are never taken.     *)
(***************************************************************************)
EXTENDS Integers, FiniteSets, Sequences

CONSTANTS
    Ips,        \* global unicast addresses
    Workers,    \* the controller's threads
    MaxTopic,   \* bound on the messages waiting in RabbitMQ
    MaxOutlived \* bound on the scans under way whose mark has expired

ASSUME ScannerAssumption ==
    /\ {"none", "invalid", "ended"} \cap Ips = {}
    /\ Workers # {} /\ MaxTopic \in Nat /\ MaxOutlived \in Nat

VARIABLES
    command,    \* "event" or "ip"
    proc,       \* the process: "up", "cancelled" (its context) or "down"
    topic,      \* messages of the topic that RabbitMQ has not delivered
    consumer,   \* the message rabbitBroker.consume passes on
    decoder,    \* the node the goroutine of SubscribeNewNodes passes on
    loop,       \* nodeScanner.Start: where it is and the address it has
    worker,     \* the address each worker scans
    finished,   \* results in callback channels, per address
    asked,      \* ip command: how far the Scan of each address is
    marks,      \* the addresses marked in Redis
    settled,    \* history: addresses that, since their mark was set, were
                \* recorded, or given up because of a cancellation, an exit or
                \* an error of the cache or the store
    outlived    \* history: addresses whose mark expired during their scan

runVars == <<topic, consumer, decoder, loop, worker, finished, asked>>
redisVars == <<marks, settled, outlived>>
vars == <<command, proc, runVars, redisVars>>

(* A node to scan, or a message that does not decode, or whose record is   *)
(* invalid or has no global unicast address.                               *)
Messages == Ips \cup {"invalid"}

TypeOK ==
    /\ command \in {"event", "ip"} /\ proc \in {"up", "cancelled", "down"}
    /\ topic \in Seq(Messages) /\ Len(topic) <= MaxTopic
    /\ consumer \in Messages \cup {"none"} /\ decoder \in Messages \cup {"none"}
    /\ loop \in [at : {"select", "cache", "offer"}, ip : Ips \cup {"none"}]
    /\ worker \in [Workers -> Ips \cup {"none"}]
    /\ finished \in [Ips -> Nat]
    /\ asked \in [Ips -> {"none", "offered", "taken", "done"}]
    /\ marks \subseteq Ips /\ settled \subseteq Ips
    /\ outlived \subseteq Ips

Select == [at |-> "select", ip |-> "none"]

(* The state of a process that has just been started. *)
Fresh(c, cons, dec, l, w, f, a) ==
    /\ cons = "none" /\ dec = "none" /\ l = Select
    /\ w = [x \in Workers |-> "none"] /\ f = [i \in Ips |-> 0]
    /\ \/ c = "event" /\ a = [i \in Ips |-> "none"]
       \/ /\ c = "ip"
          /\ \E S \in SUBSET Ips \ {{}} :
                a = [i \in Ips |-> IF i \in S THEN "offered" ELSE "none"]

Init ==
    /\ command \in {"event", "ip"} /\ proc = "up" /\ topic = << >>
    /\ Fresh(command, consumer, decoder, loop, worker, finished, asked)
    /\ marks = {} /\ settled = {} /\ outlived = {}

(* The scans of an address that were started and have not been recorded. *)
Jobs(ip) ==
    Cardinality({w \in Workers : worker[w] = ip}) + finished[ip]
    + (IF loop.at = "offer" /\ loop.ip = ip THEN 1 ELSE 0)

JobSettled(ip) ==
    /\ settled' = settled \cup {ip}
    /\ outlived' = IF Jobs(ip) = 1 THEN outlived \ {ip} ELSE outlived

-----------------------------------------------------------------------------
(* The broker.                                                             *)

(* A crawler publishes.  The topic's queue exists as long as the scanner   *)
(* consumes it (auto-delete); without it RabbitMQ drops the message.       *)
Publish(m) ==
    /\ command = "event" /\ proc # "down" /\ Len(topic) < MaxTopic
    /\ topic' = Append(topic, m)
    /\ UNCHANGED <<command, proc, consumer, decoder, loop, worker, finished,
                   asked, redisVars>>

(* The consumer takes a delivery, which RabbitMQ counts as acknowledged. *)
Consume ==
    /\ consumer = "none" /\ topic # << >>
    /\ consumer' = Head(topic) /\ topic' = Tail(topic)
    /\ UNCHANGED <<command, proc, decoder, loop, worker, finished, asked, redisVars>>

(* Defective decoder: it ends at a message it cannot decode. *)
NotifyEnds ==
    /\ consumer # "none" /\ decoder = "none"
    /\ \/ decoder' = consumer
       \/ consumer = "invalid" /\ decoder' = "ended"
    /\ consumer' = "none"
    /\ UNCHANGED <<command, proc, topic, loop, worker, finished, asked, redisVars>>

(* Feed.Notify waits until the decoding goroutine reads its channel; that  *)
(* one drops what it cannot decode.                                        *)
Notify ==
    /\ consumer # "none" /\ decoder = "none"
    /\ \/ decoder' = consumer
       \/ consumer = "invalid" /\ decoder' = "none"
    /\ consumer' = "none"
    /\ UNCHANGED <<command, proc, topic, loop, worker, finished, asked, redisVars>>

-----------------------------------------------------------------------------
(* nodeScanner.Start.                                                      *)

LoopFrame == UNCHANGED <<command, proc, topic, consumer, finished, asked>>

(* case node := <-ch *)
TakeNode ==
    /\ loop.at = "select" /\ decoder \in Messages
    /\ decoder' = "none"
    /\ loop' = IF decoder \in Ips THEN [at |-> "cache", ip |-> decoder] ELSE Select
    /\ UNCHANGED <<worker, redisVars>> /\ LoopFrame

(* Defective cache: the mark is set whether or not there is one. *)
CacheScanSets ==
    /\ loop.at = "cache" /\ proc = "up"
    /\ marks' = marks \cup {loop.ip} /\ settled' = settled \ {loop.ip}
    /\ loop' = [loop EXCEPT !.at = "offer"]
    /\ UNCHANGED <<decoder, worker, outlived>> /\ LoopFrame

(* cacheScan: SETNX answers whether it set the mark. *)
CacheScan ==
    /\ loop.at = "cache" /\ proc = "up"
    /\ \/ /\ loop.ip \in marks
          /\ loop' = Select
          /\ UNCHANGED <<marks, settled>>
       \/ /\ loop.ip \notin marks
          /\ marks' = marks \cup {loop.ip} /\ settled' = settled \ {loop.ip}
          /\ loop' = [loop EXCEPT !.at = "offer"]
    /\ UNCHANGED <<decoder, worker, outlived>> /\ LoopFrame

(* An error of SETNX reads as "not set" and the node is dropped: because   *)
(* the context was cancelled, Redis failed, or an answer got lost and the  *)
(* client's retry met the mark of its first attempt.                       *)
CacheScanError ==
    /\ loop.at = "cache"
    /\ settled' = settled \cup {loop.ip}
    /\ marks' \in {marks, marks \cup {loop.ip}}
    /\ loop' = Select
    /\ UNCHANGED <<decoder, worker, outlived>> /\ LoopFrame

(* Defective controller: a node is dropped when every worker is busy. *)
ScanNoWaitDrops ==
    /\ loop.at = "offer" /\ loop' = Select
    /\ \/ \E w \in Workers :
             worker[w] = "none" /\ worker' = [worker EXCEPT ![w] = loop.ip]
       \/ (\A w \in Workers : worker[w] # "none") /\ UNCHANGED worker
    /\ UNCHANGED <<decoder, redisVars>> /\ LoopFrame

(* ScanNoWait waits until a worker takes the item. *)
ScanNoWait ==
    /\ loop.at = "offer" /\ loop' = Select
    /\ \E w \in Workers :
          worker[w] = "none" /\ worker' = [worker EXCEPT ![w] = loop.ip]
    /\ UNCHANGED <<decoder, redisVars>> /\ LoopFrame

(* Or until the context is cancelled.  deleteScan is given the cancelled   *)
(* context too, so the mark stays.                                         *)
ScanNoWaitCancelled ==
    /\ loop.at = "offer" /\ proc = "cancelled"
    /\ loop' = Select /\ JobSettled(loop.ip)
    /\ UNCHANGED <<decoder, worker, marks>> /\ LoopFrame

-----------------------------------------------------------------------------
(* The workers and the callbacks.                                          *)

(* Defective worker: it ends with its first scan. *)
ScanItemOnce(w) ==
    /\ worker[w] \in Ips
    /\ worker' = [worker EXCEPT ![w] = "ended"]
    /\ IF command = "event"
       THEN finished' = [finished EXCEPT ![worker[w]] = @ + 1] /\ UNCHANGED asked
       ELSE asked' = [asked EXCEPT ![worker[w]] = "done"] /\ UNCHANGED finished
    /\ UNCHANGED <<command, proc, topic, consumer, decoder, loop, redisVars>>

(* runScanner: the result goes into the buffered callback channel; in the  *)
(* ip command its reader is the waiting Scan.                              *)
ScanItem(w) ==
    /\ worker[w] \in Ips
    /\ worker' = [worker EXCEPT ![w] = "none"]
    /\ IF command = "event"
       THEN finished' = [finished EXCEPT ![worker[w]] = @ + 1] /\ UNCHANGED asked
       ELSE asked' = [asked EXCEPT ![worker[w]] = "done"] /\ UNCHANGED finished
    /\ UNCHANGED <<command, proc, topic, consumer, decoder, loop, redisVars>>

(* The goroutine of ScanNoWait gets the result and the callback stores it. *)
CreateScanRecord(ip) ==
    /\ finished[ip] > 0 /\ proc = "up"
    /\ finished' = [finished EXCEPT ![ip] = @ - 1]
    /\ JobSettled(ip)
    /\ UNCHANGED <<command, proc, topic, consumer, decoder, loop, worker, asked, marks>>

(* The store fails, or the context was cancelled before or after the       *)
(* goroutine got the result: nobody looks at the error.                    *)
RecordLost(ip) ==
    /\ finished[ip] > 0
    /\ finished' = [finished EXCEPT ![ip] = @ - 1]
    /\ JobSettled(ip)
    /\ UNCHANGED <<command, proc, topic, consumer, decoder, loop, worker, asked, marks>>

(* The ip command: Scan of each address waits for a worker. *)
Scan(w, ip) ==
    /\ asked[ip] = "offered" /\ worker[w] = "none"
    /\ asked' = [asked EXCEPT ![ip] = "taken"]
    /\ worker' = [worker EXCEPT ![w] = ip]
    /\ UNCHANGED <<command, proc, topic, consumer, decoder, loop, finished, redisVars>>

-----------------------------------------------------------------------------
(* The process.                                                            *)

(* What the process had in hand is gone; the queue of its topic goes too. *)
Ends ==
    /\ proc' = "down" /\ topic' = << >>
    /\ Fresh("event", consumer', decoder', loop', worker', finished', asked')
    /\ settled' = settled \cup {ip \in marks : Jobs(ip) > 0}
    /\ outlived' = {}
    /\ UNCHANGED <<command, marks>>

(* The first interrupt cancels the context, the tenth exits. *)
Interrupt ==
    /\ proc = "up" /\ proc' = "cancelled"
    /\ UNCHANGED <<command, runVars, redisVars>>

Exit == proc = "cancelled" /\ Ends

(* Start returns at the cancelled context and the command ends. *)
StartReturns == command = "event" /\ proc = "cancelled" /\ loop.at = "select" /\ Ends

(* runIpScanner ends with the last Scan or at the cancelled context. *)
runIpScanner ==
    /\ command = "ip" /\ proc # "down"
    /\ proc = "cancelled" \/ \A ip \in Ips : asked[ip] \in {"none", "done"}
    /\ Ends

(* A closed connection makes the broker close a nil channel, which panics. *)
ConnectionCloses == command = "event" /\ proc # "down" /\ Ends

(* The goroutine that pings Redis exits at the first failure. *)
runStatus == command = "event" /\ proc # "down" /\ Ends

Restart ==
    /\ proc = "down" /\ proc' = "up"
    /\ command' \in {"event", "ip"}
    /\ Fresh(command', consumer', decoder', loop', worker', finished', asked')
    /\ UNCHANGED <<topic, redisVars>>

(* 12 hours passed.  A worker needs up to 9 hours for an address whose     *)
(* ports do not answer, and a marked address waits for a worker before; a  *)
(* result does not wait so long for the store.  MaxOutlived bounds the     *)
(* scans that outlive their mark.                                          *)
MarkExpires(ip) ==
    /\ finished[ip] = 0
    /\ Jobs(ip) > 0 => Cardinality(outlived) < MaxOutlived
    /\ ip \in marks /\ marks' = marks \ {ip}
    /\ outlived' = IF Jobs(ip) > 0 THEN outlived \cup {ip} ELSE outlived
    /\ settled' = settled \ {ip}
    /\ UNCHANGED <<command, proc, runVars>>

Loop == TakeNode \/ CacheScan \/ CacheScanError \/ ScanNoWait \/ ScanNoWaitCancelled

Next ==
    \/ \E m \in Messages : Publish(m)
    \/ Consume \/ Notify \/ Loop
    \/ \E w \in Workers : ScanItem(w) \/ \E ip \in Ips : Scan(w, ip)
    \/ \E ip \in Ips : CreateScanRecord(ip) \/ RecordLost(ip) \/ MarkExpires(ip)
    \/ Interrupt \/ Exit \/ StartReturns \/ runIpScanner
    \/ ConnectionCloses \/ runStatus \/ Restart

Spec == Init /\ [][Next]_vars

(* Goroutines that can run do, scans end and the store answers.  A loop    *)
(* that is given nodes again and again chooses the cancelled context at    *)
(* last.  Nothing is assumed of crawlers, interrupts, exits and restarts.  *)
FairSpec ==
    /\ Spec
    /\ WF_vars(Consume) /\ WF_vars(Notify) /\ WF_vars(Loop)
    /\ SF_vars(StartReturns) /\ WF_vars(runIpScanner)
    /\ \A w \in Workers : WF_vars(ScanItem(w))
    /\ \A ip \in Ips : WF_vars(CreateScanRecord(ip) \/ RecordLost(ip))
    /\ WF_vars(\E w \in Workers, ip \in Ips : Scan(w, ip))

-----------------------------------------------------------------------------
(* Properties. *)

(* A mark keeps its address from being scanned for 12 hours, so it must    *)
(* stand for a scan: one that is under way, in this process, or that was   *)
(* recorded.  Only a cancellation, an exit or an error of the cache or the *)
(* store leaves a mark behind.                                             *)
MarksStandForScans ==
    \A ip \in marks : Jobs(ip) > 0 \/ ip \in settled

(* An address is scanned twice at a time only when its mark expired during *)
(* the first scan, however often it is announced.                          *)
TwinScansNeedExpiry == \A ip \in Ips : Jobs(ip) > 1 => ip \in outlived

(* Messages that cannot be used do not stop the others: an address that    *)
(* RabbitMQ has for the scanner is scanned and recorded at last, or is     *)
(* given up for a reason, unless the process ends.                         *)
AnnouncedIsScanned ==
    \A ip \in Ips :
        (\E i \in 1 .. Len(topic) : topic[i] = ip)
            ~> (ip \in settled \/ proc # "up")

(* The process ends: at an interrupt, even while every worker is busy and  *)
(* a node waits for one, and the ip command also by itself, when there are *)
(* more addresses than workers too.                                        *)
EndsWhenAsked == (proc = "cancelled" \/ (command = "ip" /\ proc = "up")) ~> proc = "down"
=============================================================================
