# node-util: TLA+ models, model checks and proofs

node-util crawls the Ethereum discovery network (`src/crawler`), scans the ports
of the nodes it finds (`src/scanner`) and shares a message broker and a database
layer between the two (`src/service`). The logic that is hard to get right is in
the crawler's discovery stack: goroutines that exchange requests and replies over
UDP, a Kademlia table that is changed while its nodes are being pinged, a lookup
that runs queries in parallel, an event feed, and on top of them a pipeline of
workers that turns nodes into published peers. This directory models that stack,
the application around it and the port scanner in TLA+, checks them with TLC on
small instances and proves their safety properties with TLAPS for instances of any
size.

## 1. Inventory

| Part (source) | State | Operations | Talks to | What is hard | What makes it correct |
|---|---|---|---|---|---|
| Response awaiter (`crawler/net/discovery/responseAwaiter.go`, `handler.go: execute`) | queue of pending requests, one channel and error each | AddPending, MatchResponse, checkDeadlines, execute | v4 handlers make the requests; acceptor workers hand in the replies | lost, late, duplicated, reordered replies; deadlines against late answers; failed writes | a channel is closed once, nobody waits for ever, only a right answer succeeds |
| Node table (`discovery/table/table.go`) | buckets of entries and replacements, address counters | AddSeenNode, doRevalidate, refresh, FindnodeByID, copyLiveNodes, close | pings through the handler, feed through the hook, node database | a node is pinged without the lock; counters kept in step over six ways to move a node | counters exact, no node twice, newcomers push out nobody, waiting callers are told, an empty table is filled again |
| Lookup (`discovery/query.go`) | result, seen, asked, delivery buffer, token channel | Run, queryNewNodes, append, slide | findnode requests through the awaiter; seeds from the table | parallel queries, a channel closed by the one that wins | channel used safely, no delivery lost, terminates, result is the closest of what was seen |
| Event feed (`crawler/events`) | listeners, counter, RW lock, wrapped channels | Subscribe, Unsubscribe, Send, Stop | table's hook sends; seeker and runner listen | a lock held while sending on an unbuffered channel | no send on a closed channel, every call returns |
| v4 handlers (`discovery/v4`) | bond times in the node DB, fault counts | ping/pong, findnode, ENR handlers, tryBond | awaiter, table | handlers that wait for a reply while they occupy a worker | requests go to bonded peers only, only nodes that answered enter the table, no fault is lost |
| Acceptor, listener, writer (`discovery/acceptor.go` ...) | 4 workers, rate limits | Accept, Stop, write | UDP socket, handler | all workers waiting for packets only a worker can take | a busy pool becomes free again |
| Worker pool and runner (`crawler/workers`) | pending and active workers, wait group | AddWorker, monitor, Start, Stop, Wait | seeker and crawler | start and monitor race; Wait against late Add | bound on active workers, no job lost |
| Seeker, iterators (`crawler/crawler/seeker*.go`, `iterator.go`) | seen set, iterators | eventLoop, OnData, Stop | feed, ENR requests, runner | order of the cleanup | each node handled once, Stop returns |
| Crawler, peers (`crawler/crawler/crawler*.go`, `peer.go`) | round-robin buffer, counters, fresh entries | Crawl, loop, OnData, CanRefresh | broker, store, handler | seconds against milliseconds, counters from several goroutines | refresh rate, nothing published twice |
| Application (`crawler/app`, `crawler/cmd/crawler`) | wait group, context, HTTP server, socket | Run, runHttp, runCrawler, runHandler, interrupt | all of the above | two Adds and three Dones; goroutines blocked on each other at the interrupt | Run returns after its goroutines, and does return |
| Port scanner (`scanner`) | scan workers, 12 h marks in Redis, records | event and ip command, Scan, ScanNoWait, cacheScan | broker, store | cancellation, exit or expiry between mark, scan and record | a mark means a scan, what is announced is scanned, the process ends |
| Broker (`service/broker`) | feeds per topic | SubscribeTopic, consume, Stop | AMQP | a chain of goroutines that hold one message each | no message stops those behind it |
| Store (`service/db`) | SQL tables | generated statements | Postgres | - | - |
| Identity, metrics, logging, CLI, simulated network | - | - | - | - | - |

`PROJECT.json` lists the hazards behind the fifth column with their source lines.

## 2. What is modelled

### Awaiter

`Awaiter` models one awaiter goroutine, the callers of `PacketHandler.execute`,
the peers and the acceptor workers that hand over replies. Each branch of the
`select` in `run` is one action: `MatchResponse` (with `MatchExpired`,
`MatchDone`, `MatchInvalid`, `MatchPartial` for the ways a reply is applied),
`AddPending` and `CheckDeadlines`. A caller goes through `Create`, `AddPending`,
`Write` or `WriteFail`, `Return`. The queue is a sequence; a request's channel
is the number of times it was closed, since a second close is a panic.

- Replies are kept in a set for ever: any of them may be received at any time, any
  number of times, or never. This is loss, duplication, delay and reordering.
- The clock counts in units of which `Second` make a second. Expirations are
  truncated to seconds, as `time.Now().Add(expiration).Unix()` does.
- A reply token is the hash of the signed request. Signing is deterministic, so
  requests of a kind to a peer that were made in the same second have the same
  token (`SameToken`).
- A neighbours packet carries no token: any of them counts for the first findnode
  request of that peer.
- The sweep takes the expired elements directly behind the head, up to the first
  that is not expired, then the head. Its period adapts between 0.1 s and 5 s;
  the model lets it come at any time.
- Pongs and neighbours packets carry an expiration and are dropped after it. This
  program's peers copy the request's, others may set any: the drop is one more way
  for a reply to get lost, and a reply may also come in long after the deadline.
- `done` is never closed by anyone, so the branches on it are left out.

`RequestReply` is the abstract specification: what `SendRequest` (`ctx.go`)
promises to its callers. A call is made, waits, and returns once, with success
only if the peer has answered; queue, clock, tokens and packets do not occur.
`Awaiter` implements it (`KeepsPromise`) under the mapping `Promise`: `call` is
read off the caller's program counter and result, `answered` off the replies the
peer has given. The comment of `SendRequest` says that an error means that no
response matched; that is stronger than what is kept, see section 3.

### Table

`Table` models the entries and replacements of each bucket, the address counters
of the table and the buckets, and one revalidation at a time, as the loop of `Run`
arranges. `AddSeenNode` is one action with a disjunct per way out of it;
`doRevalidate` is two (`nodeToRevalidate`, then one of `RevalidateOk`,
`RevalidateNewRecord`, `RevalidateFail`), with anything in between. Addresses are
members of a small set with a subnet each; distances are abstracted to the bucket
an id belongs to; `livenessChecks` to whether it is positive. The nursery's nodes
are shared objects: their liveness outlives their removal (`bootLive`). Entries
without an address cannot reach `AddSeenNode` and are left out, as are
`addVerifiedNode` and `delete`, which have no caller.

### TableLoop

`TableLoop` models the goroutines around the table: `Run` with its timers, its
requests and its end, `doRefresh`, `doRevalidate`, `copyLiveNodes`, and the callers
of `refresh` and `close`. The table is the set of its entries here. The mutex is
explicit where a goroutine keeps it over more than a step or waits for it while
others wait for that goroutine: `Run` takes it in `seedRand`, and `doRevalidate`
reports to `Run` after it has unlocked it. Timers fire at any time. A revalidation
that fails leaves the node if others came behind it, and else takes it out, with or
without a replacement (`Outcome`). The application runs without this loop (`RunTab: false`,
`application.go:152`); the handler's test runs it (`handler_test.go:167`). Nothing in
the repository, tests included, calls `refresh` or `close`: `CallersAreReleased` and
`CloseDrains` say what these two methods would do for a user of the package, and the
only waiter there is today is `initDone`, which the first refresh closes.

### Bond

`Bond` composes the acceptor, the v4 handlers and the callers of requests over
the awaiter's promise. A worker takes a packet and handles it to the end: a ping
is stored, answered, and either adds the node to the table or makes the worker
ping back and wait; a pong is stored (`VerifyPong`) and then matched (`MatchPong`),
which are two steps with others in between; an ENR request of an unbonded sender
loads the fault count, swaps it, tests it and pings back. Callers run `tryBond`:
ping, look at the last ping, sleep, look again. The callbacks of matched pings run
in the step of the match, as they do on the awaiter's goroutine. Bonds age and
requests expire at any time, so no clock is needed; a request whose write failed
stays queued with nobody waiting. `Take` starts the workers with the first packet,
as `Accept` does; `Stop` is enabled after that only. `FindFails` is never raised
in the code and left out; so are neighbours that do not complete a request.

### Lookup and NodesByDistance

`Lookup` models `newLookup`, `Run` and `queryNewNodes`. The round's loop and each
query goroutine have their own steps: marking a candidate, taking a token,
reading the counter, querying, appending to the buffer, counting, closing the
channel, giving a token back. The context may expire at any time. A node is named by its
distance to the target. `NodesByDistance` is the ordered insertion of `Push`.

### Feed

`Feed` models `Feed` and `wrappedChan` over `sync.RWMutex` (a waiting writer keeps
new readers out and waits for the present ones) and unbuffered channels. A
listener in `Drains` reads until its channel is closed; any other stops reading
and then unsubscribes, as the seeker does. Channels with a buffer, which only
tests use, are not modelled. `Send` reads the counter without the lock, so the bodies of
`Subscribe` and `Unsubscribe` are two steps each, `Subscribe` (map) and
`SubscribeCounts`, `Unsubscribe` (counts out) and `UnsubscribeRemoves`: a Send may fall
between them. `Members` are the listeners that are both registered and counted.

`Broadcast` is what the feed promises to its users: an event is handed to everybody
who is subscribed from the Send to the end, to nobody twice and to nobody who left,
and is dropped at once only when nobody is subscribed. `Feed` implements it; an event
is open in `Broadcast` from Send until its goroutine gives the read lock back, and a
listener joins when it is counted and leaves when it is counted out. The
history variables `due` and `got` are there for this mapping: nobody else remembers
who was registered when an event was sent.

### Pool

`Pool` models the worker pool under the runner: `start`, which spawns the pending
workers one by one under the mutex, and `monitor`, whose loads of the active count,
looks at the pending list, pops (`Pop`) and spawns (`Spawn`) are separate steps: the
mutex is free again when `popWorker` returns, and until it is spawned the worker is in
the monitor's `hand`. A pop of an emptied list spawns a worker that does nothing, and
is counted like any other. A job returns or not, as `Returning` says.

`WorkerPool` is what the pool promises to the runner: a line of waiting workers, of
which the first is taken and then started, and workers that end and do not come back.
Once there may be a rush, which starts everybody in the line in order; it can overtake
the worker that was taken and not yet started, and that is the only way a worker
starts before one that was added earlier. `Pool` implements it: the line is the list
from `next` on, since start spawns the workers one by one and empties the list only
after the last; the taken worker is `hand`, the rush is a `start` that runs late. That
workers always start in the order of AddWorker would be false: the monitor pops a
worker, start locks and spawns those behind it, and only then the monitor spawns it.
Its names carry the word Pool where those of `Feed` are the
same, because both are extended by one module of proofs.

### Seeker

`Seeker` models the pipeline from the event loop over the recv iterator, the
runner's workers and the dst iterator to the crawler's consumer loop, and its
shutdown: the goroutine that waits for the crawler's context, `seeker.Stop`, the
deferred cancel and `cleanup`, `runner.Stop` and `Wait` with the wait group.
`SimpleIterator.Stop` is two steps (flag, then channel); `Next` of a closed
iterator returns the value `Zero`, whose node pointer is nil in the code. The pool
is used by its promise: `WorkerPool`, and `AddedIsSpawned` of `Pool`. The event loop's
deferred `Unsubscribe` is the subject of `Feed`.

### Crawler

`Crawler` models the round robin of `crawler.loop` and the workers' `OnData`:
`CanRefresh` as load and compare-and-swap, `Bump`, `MarkPeerNode` as its three
steps (map, counter, list), `NewEntries`, `UpdateInfo` with the hook that reads
the information again. The clock counts in milliseconds, and `CanRefresh` stores
seconds, as the code does. The test of the pause and the swap are one step: the
test depends on a local value and the clock only, and once true stays true.
Success and failure totals are statistics and left out.

### Application

`Application` extends `Seeker` with `Run` of the application: the HTTP server, the
crawler's and the handler's goroutine, the wait group, the listener's socket and
the interrupt that cancels the context. Its wait group is incremented twice and
has three users; the model keeps exactly that. `crawler.Wait` waits only for the
goroutine that stops the dst iterator, so the pipeline may still be shutting down
when `Run` returns; the model lets it go on to its end.

### Scanner

`Scanner` models a scanner process and what outlives it. A message goes from the
crawler's publish through RabbitMQ, the consumer, the decoding goroutine and the
loop of `nodeScanner.Start` to a worker of the controller, each of which holds one
at a time; the loop sets the mark in Redis, the callback stores the record. The ip
command hands given addresses to the same workers. An interrupt cancels the
context; the tenth interrupt, a lost connection (the broker closes a nil channel,
which panics) and a failing Redis (`os.Exit`) end the process, and `Restart` starts
it again with the marks as they are. Marks expire at any time. Errors of the cache
(with the effect of a SETNX whose answer was lost) and of the store are included.
Ports are abstracted: `limiter.Wait` fails only for a cancelled context or a zero
burst and the workers get neither, so a scan ends at the last port.

## 3. Runs

| Run | Result | Shows |
|---|---|---|
| `awaiter` | pass | `NoDoubleClose`, `VerdictIsFinal`, `EveryRequestSettles`, and that Awaiter implements RequestReply (`KeepsPromise`), with two pings and a findnode to one peer |
| `table` | pass | uniqueness, address accounting, liveness, eviction only of the pinged node |
| `tableloop` | pass | `CallersAreReleased`, `CloseDrains`, `TableIsReseeded` |
| `lookup` | pass | token channel, result, deliveries, `Terminates` |
| `feed` | pass | no send on a closed channel, every call returns, readers are told, and Feed implements Broadcast (`KeepsFeedPromise`) |
| `feed_leave` | violation | unsubscribing a channel nobody reads never returns |
| `pool` | pass | each worker is spawned once, target, no worker starves, and Pool implements WorkerPool (`KeepsPoolPromise`) |
| `application` | pass | the pipeline under Run: no zero item, quiet after Stop, `SeenIsHandled`; the wait group: `RunWaits`; both: `InterruptEndsAll` |
| `crawler` | pass | `PublishedOnce`, `StoredIsAnnounced`, `BumpHoldsOff`, `MarkedIsPublished` |
| `crawler_spaced` | violation | a second refresh is allowed at once: seconds are read as milliseconds (`RefreshesAreSpaced`) |
| `bond` | pass | `RequestsAreBonded`, `OnlyAnsweredEnterTable`, `FaultsAreCounted`, `PoolRecovers` |
| `scanner` | pass | `MarksStandForScans`, `TwinScansNeedExpiry`, `AnnouncedIsScanned`, `EndsWhenAsked` |

The type invariants of the modules are not part of the runs; those of the modules
with proofs (section 4) are proved. The violations are behaviours of the code that contradict its
comments or break its callers; `findings` in `PROJECT.json` quotes both sides.

Other things met in the code, which no run states as a property:

- Awaiter: a reply with another token fails the first queued request of its kind,
  whose own reply then finds nobody (`responseAwaiter.go:124`); the comment of
  `SendRequest` (`ctx.go:21`) lets one expect that a request whose reply matches
  succeeds.
- Table: `doRevalidate` reports Removed also when the entry has moved and stays
  (`table.go:387`, 627).
- Lookup: the candidate at which the loop of `queryNewNodes` stops was marked as
  asked and is never queried (`query.go:87`, 96), and a query that delivers only
  nodes the lookup has seen already counts as a success (`query.go:107`, against
  the comment in line 84).
- Bond: any unexpired pong counts as a bond, awaited or not (`pingpong.go:102` is
  before the match). `acceptor.Stop` blocks before the first packet, and nothing
  calls it. The fault count is 16 bits wide and wraps. Four unbonded pings occupy
  all workers until their pings expire, 20 seconds; `PoolRecovers` says that it
  ends, not that it is short.
- Application: an HTTP server that cannot listen makes Run return early or
  panic with a negative counter; counting the third goroutine would make Run
  hang, since nobody shuts the server down.
- Scanner: `deleteScan` is called with the cancelled context and leaves the mark
  for 12 hours (`nodeScanner.go:80`); the controller's `done` is never made, so its
  `Stop`, which nobody calls, would close a nil channel (`scanner.go:71`);
  `runStatus` makes a ticker and never waits for it (`cache.go:31`). In the broker
  a feed that is deleted while somebody subscribes would have no consumer
  (`rabbitBroker.go:84`); the program subscribes once.
- Transport: `Setup` returns nil when writing Hello fails (`transport.go:23`).

Bounds, and why they are enough:

- Awaiter: all requests go to one peer, so each reply has up to three candidates;
  two kinds, so that candidates are skipped. `Second = 2`, `Expiration = 2`,
  `MaxNow = 5`: requests can be made in the same second, in different ones, and
  in the middle of one, and the clock passes every deadline.
  `BucketSize = 2`, `MaxNeighbors = 1`: a findnode needs two packets. One reply
  is in the workers' hands at a time; replies overtake each other before that.
- Table: four nodes compete for a bucket of two with one replacement, so it is
  filled, overfilled and drained, and replacements are pushed out. Two more nodes
  have buckets of their own. With one address of a subnet per bucket and two in
  the table, the bucket's limit binds in bucket 1 and the table's in the others,
  and a change of address can be refused. The four are interchangeable
  (symmetry); the run has no liveness property.
- TableLoop: two nodes, so that a failed revalidation can replace one by the other,
  leave it or empty the table; one caller, which can ask while the first refresh or
  one of the ticker runs, and while none does; one copy goroutine (`MaxCopies`).
- Lookup: `alpha = 2` and three wanted of four nodes, three rounds as in the code:
  rounds with fewer, as many and more candidates than tokens, results that
  overflow.
- Feed: two listeners and two events; a sender between two listeners, two
  senders at one listener, and writers that wait for each other.
- Pool: four jobs for a target of two, one of which never returns; two can wait
  while two run, so that order matters, and a late start can overtake the worker in
  the monitor's hand.
- Application: two nodes and one worker, so that the worker waits at one iterator
  and the event loop at the other; `Attempts = 2` for the code's three, which
  leaves a retry.
- Crawler: one peer with two workers, which is the case the races need; two
  possible client informations; a clock that passes the pause once. `Second = 2`
  and `Start = 4` keep seconds apart from milliseconds.
- Bond: two workers, which wait for each other's packets and mark faults at once,
  one caller and one peer: peers share nothing but the workers, and the fault count
  if they have the same node id, by which alone the code keys it (`v4/handler.go:208`);
  a peer of the model is an id with its IP.
  `MaxGlobalFailures = 1` and `MaxFaults = 2` pass the threshold for the code's
  five; `MaxQueue = 1` lets a write fail while no request is queued.
- Scanner: two addresses and one worker, so that one address waits while the other
  is scanned; `MaxTopic = 1` message in RabbitMQ, while three more are in the
  hands of the goroutines; `MaxOutlived = 1` scan that outlives its mark.

Deadlock checking is off where the system may stop: all requests were made, a
lookup is done, all calls of the feed returned, the application, the acceptor or
the table is stopped. It is on for the table and the scanner.

Fairness, unless said otherwise weak fairness of a goroutine's steps. `awaiter`:
the callers and the awaiter goroutine are scheduled, the ticker fires and time
passes; nothing is assumed of peers, network and workers. `tableloop`: goroutines
run, requests end, the refresh ticker fires; strong fairness for the cases of
Run's select, which chooses at random among the ready ones, and for the seeds'
wait for the mutex, which Go grants at last. `lookup`: the loop and the query
goroutines are scheduled, and a query returns, which is what `EveryRequestSettles`
says of its findnode request. `feed`: goroutines that can run do; nobody has to
call the feed, and no reader is assumed to come back. `pool`: start and
monitor run, the ticker fires, the jobs in `Returning` return. `application`: all
goroutines run, ENR requests and lookups return, the pool starts workers while its
context lives, and the handler's select sees the cancelled context at last
(strong); nobody has to report nodes or to interrupt. `crawler`: the loop and the
workers run, queries return; the seeker need not deliver anything. `bond`: workers
and callers run and the oldest pending request expires, which `EveryRequestSettles`
says; nothing is assumed of the peers. `scanner`: goroutines run, scans end and the
store answers; Start's select sees the cancelled context at last (strong);
crawlers, interrupts, exits and restarts are left to chance.

## 4. Proofs

`AwaiterProofs` proves six properties for all values of the constants: `TypeOK`,
`NoDoubleClose`, `NoForgottenWaiter`, `SuccessIsAnswered`, the action property
`VerdictIsFinal`, and that Awaiter implements RequestReply (`KeepsPromise`). None
but the first is inductive. The invariant `Inv` has three parts:

- `TypeOK`;
- `QueueInv`: no request is queued twice; a queued request has an open channel; a
  request that was not added yet is neither queued nor closed; and one whose caller
  is past AddPending is queued as long as its channel is open. Every way the
  awaiter settles a request takes it off the queue and closes its channel in the
  same step, which is lemma `Settle`; `RemoveQueued` and `SweepQueued` say which
  requests a removal and a sweep leave in the queue;
- `AnswerInv`: replies in the workers' hands were sent; a closed channel without
  an error, and neighbours that were counted, have a reply of the right kind,
  peer and token behind them. It is needed because `SuccessIsAnswered` speaks of
  what the caller returned, several steps after the reply was matched.

The refinement (`PromiseIsKept`) maps each step from a state with `Inv`: Create is
Ask (`CreateAsks`: the new deadline takes no answer from another request, since
replies only answer requests that reached the socket), a peer's reply is
PeerAnswers (`AnswerAnswers`), Return and WriteFail are Succeed or Fail
(`ReturnIsVerdict`, where `AnswerInv` gives the answer a success needs), and
everything else, the awaiter's own branches included, is a stutter (`Stutters`).

`FeedPoolProofs` proves two components, the feed and the worker pool, which has a feed
of its own. Of the feed it proves `TypeOK`, `NoSendOnClosed`, `SubsCountsListeners` and
that it implements Broadcast (`KeepsFeedPromise`), for any finite set of listeners and
any events. Its invariant has five parts:
`Types` (all of `TypeOK` but the sign of the counter and the histories); `LockInv` (who
is in a critical section, half way through it included, is the announced writer, and
no send goroutine holds the read lock); `SendInv` (a send goroutine in its loop holds the read lock, and what it has
still to visit is registered); `ListenerInv` (a registered channel is open, and
is registered once); `StopInv` (only Stop runs the body of stop). `NoSendOnClosed`
follows: a channel is closed only under the write lock, when no sender is inside
any channel, and a sender enters only registered channels, which are open. The
counter property `SubsCountsListeners` is itself one extra conjunct, over the members:
together with the invariant it is preserved, since members change exactly with the
counter (`SubscribeCountsJoins`, `UnsubscribeLeaves`) and the two steps that change
only the map are hidden (`SubscribeHides`, `RemovalIsHidden`). The refinement needs `ServedInv` beyond that: a listener an event
is due to has it, is being sent to or is still to be visited, and only one of the
three; and a channel is done exactly when it is closed, so that the walk skips no
registered one. Send is Drop or Publish (`SendIsPublish`, which needs the counter),
Deliver is Hand (`DeliverIsHand`), the end of the goroutine is Close
(`RUnlockIsClose`), the steps of Subscribe and Unsubscribe that change the counter are
Join and Leave, as is the body of Stop; the steps that change the map only, and taking
and giving the locks, are stutters.

Of the pool it proves `PoolTypeOK`, `SpawnedOnce`, `TargetUnlessLate`, `ActiveIsExact` (the
atomic counter is the number of goroutines, so it never wraps below zero) and that it
implements WorkerPool (`KeepsPoolPromise`), for any set of jobs and any target. None of
them is inductive alone. `PendingInv` says that the list from `next` on holds
different workers that were added and are neither spawned nor popped, and that `next` moves only while
start holds the mutex; `HandInv` that the monitor holds at most one worker, between pop
and spawn only, which was added and not spawned; `RunsInv` that nobody is spawned twice or unasked and that
nobody is lost; `CountInv` is the exact counter, which needs that a spawned worker
was not running; `TargetInv` follows the number the monitor has loaded from the load to the
spawn, over the look at the list and the pop: unless start is late it stays an upper
bound, because in between workers only return. `ListInv` is all of them but the last. That start cannot be late before it ran had to be added to make it
inductive. In the refinement the monitor's pop and spawn of a worker are Take and Start
(`PopIsTake`, `SpawnIsStart`), the three steps of start are RushBegins, RushStart
(`StartSpawnsIsRushStart`) and RushEnds, AddWorker is Add, a returning job is End, and
the empty workers, the counters and the monitor's other steps are stutters.

`BondProofs` proves `RequestsAreBonded`, `OnlyAnsweredEnterTable`, `FaultsAreCounted` and
the types for any sets of peers and callers and any finite set of workers. A bond
is looked up, slept over, awaited and then used by goroutines that do not see
each other, so the invariant follows the evidence on its way: `StoreInv` (a bond
that has not expired, and a table entry, were stored once), `BondInv` (a worker
with a pong in hand, and a caller that goes on as bonded, have a stored pong
behind them), `QueueInv` (a queued request fits the actor that waits for it, which
has no verdict yet; no actor waits for two) and `VerdictInv` (a caller is told that
its ping was answered only when its peer sent a pong). `SettleStep` and the lemmas
next to it say what each kind of step does to queue and verdicts; each action is one
of these kinds.

`ApplicationProofs` proves `NoZeroItem` and `QuietAfterStop` of the pipeline for any
finite set of workers, that every behaviour of the application is one of the
pipeline (`ApplicationRunsPipeline`), so that both hold under `Run` too, and
`RunWaits`. The invariant has `StopInv` (an iterator's flag is set before its channel
is closed: the order of the two steps of `Stop` on which all rests), `ZeroInv` (who
holds the zero value will see the flag), `GroupInv` (the wait group is the number of
workers under way, and the runner's goroutine) and `QuietInv`. For `RunWaits` the
counter is 2 less those of handler and crawler that ended (`CounterInv`), as long as
the server serves.

`LookupProofs` proves `SlotsAreSafe`, `ResultIsClosest` and `DeliveriesAreMerged` for
every alpha, every size of the result, any number of rounds and any finite set of
nodes. The core of the invariant is `TokenInv`: tokens in the channel, those of the
queries under way, those kept by deliveries and the one in the loop's hand are alpha
at most. With `CloseInv` (one goroutine closes, after the alpha-th delivery) it
follows that a goroutine that gives a token back finds room and an open channel.
`WalkInv` says that no node is queried twice in a round, `BufferInv` that nothing is
delivered between two rounds. `PushedFacts` is what the ordered insertion makes of a
sorted list.

`TableProofs` proves `NodesAreUnique`, `IpAccounting`, `OnlyAnsweredAreLive` and the
action property `OnlyThePingedLeave` for any nodes, addresses, subnets, buckets, sizes
and limits. Uniqueness and the counters need each other and two facts more, found
while looking for the invariant: `FullInv`, only a full bucket has replacements, so a
node that becomes an entry is not at the same time a replacement that is counted,
and `LimitInv`, no counter is above its limit, so the address of a bumped node that
is taken out and refused its new one can be put back. `RevalInv` says that the node
being pinged without the lock is still in its bucket as it was, since nothing else
removes entries or changes them. The counters are compared with sets of nodes
(`Counts`); `CountsAdd` and `CountsRemove` say what counting a node in and out does to
them.

`CrawlerProofs` proves `PublishedOnce`, `StoredIsAnnounced` and the action property
`BumpHoldsOff` for any sets of peers, workers and neighbours, any frequencies and any
clock. `HandInv` says when threads hold something (the loop entries only until they
are published, a worker a neighbour only until it is listed), `InfoInv` who is about to
announce what is stored, and `BumpInv` that a counter holds the time of its last bump
or a later one until the pause is over; it is what makes the swap of a stale
`CanRefresh` fail. `OnceInv` adds to `PublishedOnce` that the workers which hold a
neighbour are finitely many, which the sum needs; the set of workers need not be.

`ScannerProofs` proves `MarksStandForScans` and `TwinScansNeedExpiry` for any sets of
addresses and workers; TLC has one worker. The invariant tells the two commands
apart: a process that is down, and the ip command, have nothing of the topic and
leave only settled marks (`QuietInv`, `LeftInv`); with the ip command an address is
with one worker at most (`AskedInv`); and a scan of the event command has its mark or
lost it to time (`JobInv`), which is why a second scan of an address needs an expiry.
The count of scans is followed through the loop's offer, the workers and the callback
channels by `JobsChange`.

The assumptions are the named ones of the modules: types, positive bounds, names
that are kept apart, and finite sets where something is counted. TLC evaluates them
in the runs. Each invariant was checked by TLC on a small instance before it was
proved. Only model-checked:

- the liveness properties: fairness is outside this prover;
- `TableLoop`, whose properties are all of that kind.

`NoForgottenWaiter`, `SuccessIsAnswered`, `SubsCountsListeners` and `ActiveIsExact` are proved
and in no run: a forgotten waiter would violate `EveryRequestSettles`, the second is
part of what `KeepsPromise` says, the third of what `KeepsFeedPromise` needs.

## 5. Plan

Done: all modules are model-checked; Awaiter, Feed and Pool with the abstract
specifications they implement, Bond, the pipeline under Application, Lookup, Table,
Crawler and Scanner have their safety properties proved. Next, in this order:

1. The end of the crawler's loop with its runner and iterator.
2. The local identity's record, and the subscriber counting of the broker's feeds,
   should the program come to subscribe more than once.

## 6. What is not modelled

Encoding, signatures and the wire format (go-ethereum); the RLPx query of a peer's
client name, which is sequential I/O over a third-party protocol; the `disc`
command, a sequential loop over the handler's calls; SQL and the node database
beyond what the table reads from it; the local identity, whose record and sequence
number are behind one lock; metrics, logging, flags and infrastructure.
