# Verification of xmq

xmq is a message queue descended from NSQ: `xmqd` receives, queues and delivers
messages, `xmqlookupd` tells consumers where topics live, `xmqadmin` is a web
view of both, and a set of applications move messages in and out.  This
directory holds TLA+ models of the parts that carry its logic, TLC runs that
check them on small instances, and TLAPS proofs of the properties that matter
most for instances of every size.

## 1. Inventory

| Part | State | Operations | What makes it correct |
|---|---|---|---|
| Channel (`xmqd/channel.go`) | memory channel, disk queue, in-flight map and heap, deferred map and heap, clients, exit flag | PutMessage, PutMessageDeferred, StartInFlightTimeout, FIN, REQ, TOUCH, timeouts, AddClient, RemoveClient, Empty, Close, Delete, Pause | a message is in one place, is not lost, does not come back once finished, times out |
| Client and protocol (`xmqd/client_v2.go`, `xmqd/protocol_v2.go`) | state, RDY, in-flight counter, wake-up channel, pump loop | IDENTIFY, AUTH, SUB, RDY, FIN, REQ, TOUCH, CLS, PUB, MPUB, DPUB, messagePump, IOLoop | RDY respected, no lost wake-up, command order enforced |
| Timeout heaps (`xmqd/in_flight_pqueue.go`, `internal/pqueue`) | array, index in every item | Push, Pop, Remove, PeekAndShift | heap order, index names the item's position |
| Topic (`xmqd/topic.go`) | memory channel, disk queue, channels, pause and exit flags, counters | PutMessage(s), messagePump, GetChannel, DeleteExistingChannel, Pause, Empty, Close, Delete | every channel gets every message once, nothing hangs |
| Cluster (`xmqd/xmq_cluster.go`) | Raft log, topics of every node | NewTopic, NewChannel, TopicUpdate, DeleteChannel, DeleteTopic, Apply, Snapshot, Restore, Join | nodes that applied the same log agree, nothing is lost by a restart |
| Daemon (`xmqd/xmqd.go`) | metadata file, scan workers, notifications | Load/PersistMetadata, queueScanLoop, resizePool, Notify, Exit | metadata survives a crash, every channel is scanned |
| Message ids (`xmqd/guid.go`) | last timestamp, sequence, last id | NewGUID | ids are unique and increase |
| Lookup (`xmqd/lookup.go`, `xmqd/lookup_peer.go`, `xmqlookupd/`) | peers, registration database, producers with last-update and tombstone | IDENTIFY, REGISTER, UNREGISTER, PING, disconnect, tombstone, queries | a live producer is found, a dead one is not |
| Admin front end (`xmqadmin/static/js`) | URL, interval and its stored copy, views shown so far with their requests and drawings, open dialog, commands sent; on the counter page two timers, the number shown and its target | load, follow a link, Back, change the interval, act on a topic, channel or node; answers, failures and timers | the page is the one of the URL and complete, commands are the confirmed ones, the counter follows the answers, graphs read the series xmqd sends |
| Admin back end (`xmqadmin/*.go`, `internal/clusterinfo`) | none of its own | fan-out of HTTP requests, merging of answers | partial failures are reported, not hidden |
| Auth (`internal/auth`) | cached authorizations with expiry | QueryAuthd, IsAuthorized | nothing is allowed after expiry |
| Applications (`apps/`) | counters, files | copy messages between systems | FIN only after the copy is safe |

The hard behaviours are interleavings.  A channel is called by the topic's pump,
two goroutines per connection, a pool of scan workers and administrative HTTP
requests; its maps and heaps have a mutex each, which no operation holds across
both; messages are in nobody's map while a goroutine carries them.  Topic and
cluster call one another through a Raft log that is applied by one goroutine.
In the browser one handler runs at a time, yet answers, timers and clicks come in
any order, and outlive the view that asked for them.
Timeouts race late answers, `Empty` and `Close` race deliveries, and connections
end at any point.  `PROJECT.json` lists the hazards of what is modelled at their
lines; section 9 names those of the parts that are not.

## 2. Plan

| Order | Module | Part | State |
|---|---|---|---|
| 1 | `Channel`, `MessageLife` | one channel with its clients, scan worker and topic, and the life of a message that it promises | modelled, checked; its safety properties and the refinement proved, three invariants under a condition |
| 2 | `InFlightPqueue`, `PriorityQueue` | the array heap, and the abstract queue it implements | modelled, checked, refinement proved |
| 3 | `Topic` | publishers, pump, channel creation, pause, exit, and the goroutine that applies the Raft log | modelled, checked; its safety invariants and its action property proved |
| 4 | `AdminPages` | the pages of the web front end, their views and commands | modelled, checked; its six safety invariants proved |
| 5 | `CounterView` | the page of the message counter | modelled, checked; its invariants and its action property proved |
| 6 | `AdminHelpers` | graphite targets, durations and addresses in the templates | modelled, checked; durations and addresses proved |
| 7 | `ClientV2` | RDY, pause, wake-ups, the readiness loop of `messagePump`, the protocol's states, the auth cache's expiry | planned |
| 8 | `Lookup`, over an abstract set of live producers | the lookup peers of `xmqd` and the registrations of `xmqlookupd` | planned |
| 9 | `XMQCluster` | the replicated table of topics: `NewTopic`, Join, snapshot, restore, restart | planned |
| 10 | `Metadata`, `Guid`, `QueueScan`, `ClusterInfo`, the applications | what is left of the daemon, and its clients | planned |

Composition: `MessageLife` is what clients may rely on, and `Channel` is shown to
implement it.  `Channel` treats the topic as a source of `PutMessage` calls and the
heap as a bag with positions; `Topic` treats a channel as a sink; `PriorityQueue`
is what `Channel` assumes of the heap, and `InFlightPqueue` is shown to implement
it.  `AdminPages` has a counter page among its pages and knows of it only that it
asks for nothing and draws itself again; `CounterView` is what happens on it.
`AdminHelpers` puts the keys of `statsdLoop` beside the targets of the pages.
`ClientV2` will give `Channel` the readiness it now chooses freely, and
`XMQCluster` the log that `Topic` takes from one node's point of view.

Theorems planned next: the uniqueness and the order of ids in `Guid`, agreement of
nodes in `XMQCluster`.

## 3. Channel

`Channel.tla` models one channel with the goroutines that call it.

* **State.**  The variables have the names of the fields of `Channel`,
  `clientV2` and `Message`.  A message object is a pair of an id and a
  generation, because the backend stores ids and a read allocates a new object
  (`decodeMessage`) whose bookkeeping fields are zero.  `index` keeps what
  `removeFromInFlightPQ` can tell apart: never pushed (zero), removed (-1), a
  valid position, a position in a heap that `Empty` threw away.
* **Actions.**  One action is what a goroutine does between two lock, channel or
  atomic operations.  `StartInFlightTimeout` is `PumpPush` and `PumpAddToPQ`;
  `FinishMessage` with `FIN` is `IOPop`, `IORemovePQ` and `IOSettle`; a timeout
  is `ScanShift`, `ScanReadOwner`, `ScanPop`, `ScanTimedOut` and `ScanPut`;
  `Empty` is four steps under `Channel.RWMutex`; `exit` is one step per flushed
  message or map under `exitMutex`.
* **Abstractions.**  Time: any heap entry may be the expired root.  The heap is a
  bag.  A disk write does not fail.  Errors that a caller ignores are ignored.
  `Pause` and changes of RDY belong to `ClientV2`.
* **Bounds.**  Two messages, or two clients: enough for two actors to compete for
  a message and for one heap entry to be taken for another.  `Gens` bounds the
  objects of one id that are alive at once: two in `MCChannelLostTimeout` (one that
  a client still answers for, one just decoded), one in the other runs, where a
  message is re-read from disk only after nothing refers to its last object.
  `MaxEntries` bounds the heap entries of an object.  The custody theorems hold for
  every value of these.

| Run | Shows |
|---|---|
| MCChannelMessages | two messages in memory, one deferred: whatever is in flight or deferred has a deadline, and leaves |
| MCChannelAdmin | Empty, Close and Delete against deliveries, commands and timeouts, with a message on disk: custody until exit (`MessagesKept`); flush saves each live message once, unless a hand had it (`QuietCloseSaves`) |
| MCChannelEphemeral | two clients compete for a message; the last client to leave deletes the channel; counters are exact all along, and `MessageLife` is implemented |
| MCChannelLostTimeout | a message that is never timed out, against what the option says (`findings`) |

`MCChannelMessages` leaves the disk out on purpose: with a message re-read from
disk, `InFlightTimesOut` is what `MCChannelLostTimeout` refutes.  Other
disagreements met while modelling have no run of their own.  `Close` flushes the
memory channel and the two maps, while a message that a `messagePump` has received
and not yet pushed, or that a REQ or TOUCH has popped and not yet put back, is in
none of them: it is written nowhere (`channel.go:208`).  `QuietCloseSaves` says that
there is no other way to lose a message by `Close`.  `Empty` may replace the heap
between the pop of a FIN and its heap removal, whose index is then out of range, so
that `NoPanic` holds only without `Empty` (`channel.go:508`).  A stale
`msg.clientID` makes `TOUCH` or a timeout read the wrong owner
(`channel.go:597`); `AddClient` tests the consumer limit under a lock that it
gives up before it inserts (`channel.go:396`); `Empty` resets a client's
in-flight counter while a delivery is about to raise it
(`client_v2.go:435`).

Deadlock is not checked: a channel whose messages are all finished rests.

**The abstract specification.**  `MessageLife.tla` says what clients and publishers may
rely on, without queues, maps, heaps and goroutines: where each message is in its life
(new, queued, deferred, in flight, in the hand of a command, done), whose it is, and
whether the channel is open.  `Deliver` gives a queued message to a client; `Finish` and
`Take` are for that client alone, and so is what a REQ or TOUCH makes of a message it
took (`Requeue`, `Defer`, `Touch`); `TimeOut` makes it wait again; `Empty` discards
messages, but none that a command has in its hand.  A message that is done has no
action that brings it back.  `Channel` implements it (`ImplementsMessageLife`) under the
mapping `Place`, `Owner`, `~exitFlag`.  A message in a pump's hand or on its way back
from a timeout counts as queued; the owner is read from the message object while it is
in the in-flight map, and is the client of the command while one holds it, a FIN
included, so that a step of the wrong client is not mistaken for one of the right one.
Nothing is promised once the channel exits.  A message that is nowhere although it is
live, or somewhere although it is done, has no place in `MessageLife`.  The run has no
`Empty` and no disk, whose states with two clients are too many beside the mapping; the
proof has both.

**Fairness.**  A goroutine that is past the lock it needs goes on (weak
fairness of the pump, IOLoop and scan steps).  An entry of a heap is eventually
shifted (strong fairness of `ScanShift` and `ScanShiftDeferred`): deadlines are
bounded by `MaxMsgTimeout` and `queueScanLoop` ticks for ever.  Nothing is
assumed of clients or of connections.

**Proofs.**  `ChannelProofs` proves `Spec => []TypeOK` with a lemma per action, and
`MessagesKept` for every instance.  Its three parts (`AtMostOneHolder`,
`LiveMessageHeld`, `FinishedNeverReturns`) are not inductive one by one: that a put message is in no other queue follows from its having been in
somebody's hand and from custody being exclusive, and that it may be put at all
from its being live.  The inductive invariant is `CustodyInv` (held once, in one
place, exactly while live), with `TypeOK` and `PumpOffUntilSub` (the pump that
`SUB` starts holds nothing).  The only assumption is `ChannelAssumption`.

`LifeImplemented` proves the refinement of `MessageLife` for every instance.  Custody
makes the mapping readable: of a message that is held once, in one place, exactly while
live, each place determines `Place` and `Owner` (`Legible`).  Then a step either touches
nothing that the mapping reads (`Unnoticed`), or one message (`OneMoves`), or discards
what is in one place (`SomeEmptied`).  Two facts are needed beside custody, `CommandInv`:
the object in the hand of a REQ or TOUCH carries the id of that command's client, so
that a touched message comes back to its owner; and a message that a FIN has taken is
done, and taken by one FIN only.

`QuietCloseKeepsAll` proves `QuietCloseSaves`.  `CloseInv` follows the flush: from the
first step of `Close` the topic and the scan worker are gone, and a live message is in
the backend once and in no place that flush has still to come to, or in exactly one of
those and not in the backend (`Saved`).  It starts from custody, and is kept by every
step that leaves the hands empty, those of an `Empty` or a FIN in the middle of the
flush included.

`ChannelTimeoutProofs` proves the timeouts and the counters.  `DeferredTimesOut` holds
for every instance.  `InFlightTimesOut`, `NoPanic` and `CountExact` do not, for two
reasons that the findings and the notes above show: an object decoded from disk has
the index 0 of an item that is in the heap, and `Empty` leaves objects with positions in
a heap that is gone, so that `removeFromInFlightPQ`, which tests for -1 only, takes out
somebody else's entry or none at all.  The theorems therefore have the condition
`Calm` (until the channel exits the disk queue is empty and `Empty` is not under way):

| Theorem | States |
|---|---|
| `InFlightHasTimeout`, `CalmNeverPanics`, `CalmCountExact` | the three invariants, in every behaviour that stays calm, the first two until exit |
| `RoomyIsCalm` | a channel stays calm when its memory queue has room for all messages, or it is ephemeral (`RoomForAll`), and nobody empties it |
| `RoomyCountExact` | hence its counters are exact, with `Close`, `Delete` and the end of an ephemeral channel included: `MCChannelEphemeral` for every size |
| `RoomyChannel` | hence, when nothing makes it exit either (`Undisturbed`), `InFlightTimesOut` and `NoPanic`: `MCChannelMessages` for every size |

The inductive invariant is `CalmInv`, on top of custody; it has three parts.

- `ObjectInv`: all references to a message are to one object, and there are none before
  it is put; no object has a stale index, and one whose index is still 0 was sent to
  nobody; an object that a command has popped, or that a pump is about to send, has been
  in the heap.  So what a command removes from the heap is its own entry, or the index
  is -1 and it removes nothing.
- `TimedInv`: an object that is filed in flight is in the heap, or the pump or the `TOUCH`
  that filed it is about to add it, or the scan worker has shifted it out and will find
  it under the owner it read.
- `CountInv`: every difference between a client's counter and the map is an update that
  one goroutine is about to make; a client is added with nothing in flight, and what a
  command holds belongs to the command's client.

`RoomyIsCalm` rests on custody once more: a message that is put is not in the
memory queue, which holds no message twice, so the queue is not full (`QueueShort`).

## 4. Timeout heap

`PriorityQueue.tla` is the abstract specification: a set of items with
deadlines; `Push` adds one, `PeekAndShift` takes out an item with the earliest
deadline if that is due, `Remove` takes out the item asked for.

`InFlightPqueue.tla` is `xmqd/in_flight_pqueue.go`: the slice `pq`, its
`capacity`, the deadlines `pri`, and the `index` field of each message.  `Push`, `Pop`,
`Remove` and `PeekAndShift` are the first action of a call; each turn of the loops
of `up` and `down` is a step of its own, so that invariants are stated about the
middle of a call too.  `InitialCap` is the size the heap is made with and `ShrinkAbove` the 25
above which `Pop` gives memory back.

* **Run.**  `MCInFlightPqueue`: six items with three deadlines, because a
  removal whose replacement has to move *up* needs six items.  The refinement
  mapping is the set of items of the slice: a push takes effect when the item is
  appended, a shift or a removal when the slice is cut.
* **Proofs.**  `InFlightPqueueProofs` proves, for any set of items, deadlines and
  capacities, `PqueueInv`, and from it `IndexNamesPosition`, `HeapOrdered`,
  `CapSuffices`, `TypeOK` and the refinement.  Order between calls is not inductive: in the
  middle of `up` every pair is ordered but that of the item that moves and its
  parent, in the middle of `down` but those of the item and its children, and the
  grandparent must be known to be no later than the grandchildren.  That is
  `OrderInv`; `ControlInv` says where the moving item is, `ReturnInv` which item the
  call will give back.
* **Not shown.**  That the loops end: it is obvious from the halving and doubling
  of the position, and would be liveness.  `internal/pqueue`, which the deferred
  queue uses, is the same pair of loops behind `container/heap`.

## 5. Topic

`Topic.tla` models one topic of one node: callers, the topic's `messagePump` and
the goroutine in which Raft applies the log (`XMQCluster.Apply`).

* **State.**  The fields of `Topic`, the read-write mutex (its readers, read locks
  that were never given back, its writer), the log, the answers on their way to
  the goroutines that wait for them, the pump's local variables.  A channel is
  its name and the number of its object, since two `NewChannel` commands for one
  name make two objects.  History variables record which channel objects a
  message was handed to and which it was due to.
* **Actions.**  `PutMessage` and `PutMessages` are `CallPut`, one `Put` per message,
  two `PutUpdate`/`PutUpdated` pairs and `PutReturns`, the mutex read-locked from
  the first to the last.  `GetChannel` is `CallGetChannel`, `GetApply`,
  `GetAnswered`, `GetCheck`, `GetRead`, `NotifyChannel`; a call that fails on the way
  has no channel to return and goes to `NotifyChannel` all the same, because
  `getOrCreateChannel` answers `true` in either case.  The select of the pump
  meets a caller's send in one step.  `exit` is `CallClose` and the `Close...`
  actions when the node shuts down, and the `ApplyExit...` actions when the topic
  is deleted, since `ClusterDeleteTopic` runs it in the goroutine that applies the
  log.
* **Raft** is external: a leader's command is appended, commands are applied in
  order, leadership may end at any time (`LoseLeadership`), after which a caller may
  be told of an error whether or not its command is still applied (`Abandon`).
* **Abstractions.**  Byte and message counters; the deferral a message carries;
  decoding errors; what a channel answers to a put.  The topic starts as
  `ClusterNewTopic` leaves it, without the channels that `GetTopic` then asks
  `xmqlookupd` for.
* **Bounds.**  Two callers, two messages, two names, a memory queue of one.
  `MaxObjects = 1` stops a caller from *asking* for a further object of a name,
  yet two racing `GetChannel` calls still make two.  A behaviour draws its
  `workload` (which calls the callers make) when it begins: seven workloads cover the
  pairs of calls that touch the same state without their product.

| Run | Shows |
|---|---|
| MCTopic | custody of messages, delivery to the channels that `GetChannel` returned, no double delivery, settled pauses, quiet after exit |
| MCTopicLive | calls return and messages flow, unless one of the deadlocks below has happened (`Stuck`) |
| MCTopicDeadlock | a publisher and the goroutine that applies `NewChannel` wait for each other (`findings`) |

**Fairness.**  Each goroutine that can go on does (weak fairness).  The cases of a
`select` are strongly fair, because Go picks among the ready ones at random: the
sender's side and the receiver's side of the pump's select each have their
conjunct.  Deadlock is not checked: the system may rest, and it may really hang.

**Where it hangs.**  Besides the finding, `Stuck` names what the code can run into:
`DeleteExistingChannel` unlocks a mutex nobody locked (`topic.go:119`), which
kills the process; `DeleteTopic` on the leader calls `TopicUpdate` in the goroutine
that would have to apply it (`topic.go:325`); `getOrCreateChannel` keeps its read
lock when the channel is gone again (`topic.go:88`).  `MCTopicLive` shows that
there is no other way to wait for ever within its workloads, which include a
`GetChannel` that fails and then waits for the pump.  The ways in `Stuck` are what the
code does: apart from the finding, which has `GetChannelNotBlocked`, no property covers
them.
Seen as well, and
without a property: the second of two `NewChannel` commands replaces the first
channel object (`xmq_cluster.go:204`); `MessageCount` is read, raised and sent by
publishers that only share a read lock (`topic.go:146`); a message put after the flush
of `Close` stays in memory; a node that learns of `Paused` from the log does not tell
its pump; `ClusterNewTopic` starts the pump before `GetTopic` has made the
channels known to `xmqlookupd` (`xmq_cluster.go:278`).

**Proofs.**  `TopicProofs` proves `TypeOK`, and `TopicDeliveryProofs` proves
`Custody`, `HandedOnce` and `ReachesChannel`, for any callers, messages, finitely
many names, any workloads and capacities (`TopicAssumption`).  None of the three
is inductive.
`CustodyInv` adds that what a publisher has yet to queue is nowhere else and with
no other publisher, that messages are issued before they are anywhere, and that
the pump's hand is empty outside `deliver`.  `HandedInv` adds that what a message
was handed to and what is left make up the pump's list, which `PumpReload` filled
without repetition.  `ReachesChannel` rests on three more facts: `SeenInv`, a
channel that `GetChannel` returned before the context was cancelled is in the
pump's list, or the pump is about to reload it; `MadeInv`, object numbers only
grow, so that a channel that was replaced or removed does not come back; and
`ExitInv`, `ExitFlag` is set before the context is cancelled and never cleared, so
that no message is accepted after a caller has given up telling the pump.

`TopicProofs` also has `PauseSettles` and the action property `QuietAfterExit`.
`QuietInv`: whoever closes or deletes the backend has seen the pump gone, and a pump
that is gone stays gone; since only the pump hands messages on, nothing is handed
afterwards.  `AskedInv`: a command of the log, or in the hands of the goroutine that
applies it, that names a goroutine finds it waiting, not answered yet, and waiting for
no other command; it survives `Abandon`, which answers a call and leaves its command in
the log without a name or takes it out.  `LeaderInv` rests on it: on the leader the
topic's context is never cancelled (its `exit` waits for ever for a command of its own,
which nobody else could answer), so a call of `Pause` ends only when the pump has received
it; and a command that writes the flag belongs to a call that has not returned.  With
that, what the pump reads agrees with the flag as soon as nobody is pausing.  That the
proof of `PauseSettles` needs the deadlock of `DeleteTopic` is no accident: on a node
that exits, the send on `pauseChan` is given up.  All of these were first checked as
invariants of the `MCTopic` instance.

## 6. The pages of xmqadmin

`AdminPages.tla` models the Backbone application of `xmqadmin/static/js` in one tab.

* **State.**  `location` and `query` are the URL, `interval` and `stored` the
  `graph_interval` of `AppState` and of `localStorage`, `header` what `HeaderView` was
  drawn for.  `views` is `AppView.subviews` after the header: `showView` removes the
  previous view from the page and leaves it in the list, with its request pending.
  A view has its template, the state of its request, what its model carries
  (`message`, `isAdmin`), whether the answer listed anything (`listed`: producers of a
  topic or channel, topics, nodes, inactive topics) and its element, of which only what the properties
  tell apart is kept: spinner, page or error; warning, error, buttons and the links of
  listed items; the interval it was drawn for; the content of its rate cells, how many
  answers they wait for and whether one made `formatRate` throw.
* **Templates.**  `Render` keeps the conditions of the templates: `topic.hbs` and
  `channel.hbs` draw buttons, tombstone links and rate cells only with producers
  (`nodes.length`), `lookup.hbs` its form and links only with hosts of `xmqlookupd`
  (`LookupHosts`), `topics.hbs` its table and `node.hbs` its links only with topics.
* **Actions.**  One action per handler, since JavaScript runs a handler to its end.
  `Load` is `main.js` with `AppState.initialize`; `Navigate` is a link, Back or Forward
  down to `showView`; `FetchDone` and `FetchFail` are the done, fail and always handlers
  of the six views that fetch, `view:ready` and its listener in `AppView` included;
  `RateAnswer` is an answer of graphite; `GraphInterval` the click in the header with
  every listener of the change; `Ask`, `Confirm` and `Dismiss` the dialogs of
  `topicAction`, `channelAction` and `onTombstoneClick`; `LookupCall` the three handlers of
  `LookupView`; `CallDone` and `CallFail` the ends of a command.
* **Abstractions.**  Texts, tables and CSS; the base path of URLs; a path without a topic
  (`/topics/`), which no page links to; the counter page, which is `CounterView`.  All
  rate cells of a page are one.  `agreed` is a history variable: what the user was
  asked about and confirmed.
* **Bounds.**  One topic, channel and node, two intervals and `off`, two views after one
  load, one change of the interval, two loads and one command: a removed and a live
  view, an old and a new interval, a page before and after a command.  The theorems
  hold for every value of these.

| Run | Shows |
|---|---|
| MCAdminPages | the page is the one of the URL, drawn for the current interval with its warnings and, where there is something to act on, its buttons; a spinner means loading; the interval is remembered; commands are the confirmed ones; what leaves a rate cell empty |

**Fairness.**  Requests end, at the latest by the timeout of 20 s that
`lib/ajax_setup.js` gives every one (weak fairness of `FetchEnds` and `RateEnds`).
Nothing is assumed of the user.  Deadlock is not checked: a page at rest is one.

**What the properties make explicit.**  A view whose request failed keeps the spinner
as its template, so a change of the interval draws a spinner that never ends
(`SpinnerMeansLoading`).  A topic without producers shows an administrator no buttons,
not even to delete it (`PageComplete`).  Rate cells do stay empty: a redrawing triggers
no `view:ready`, and an empty list of series makes `formatRate` throw (`app.js:58`), for
which there is no handler; `RatesFill` names these two and shows that there is no third.
The default
interval is not stored when it comes from the query, since setting it is no change
(`IntervalRemembered`).  The warning of a page without a model (topics, nodes) is gone
after a redrawing, hence the `HasModel` in `PageComplete`.  A refused deletion of a topic
shows nothing (`views/topic.js:45` has no fail handler); no property speaks of it.

**Proofs.**  `AdminPagesProofs` proves `TypeOK`, `PageIsLocation`, `PageComplete`,
`SpinnerMeansLoading`, `IntervalRemembered` and `CallsConfirmed` from `PagesAssumption`
alone.  `PageComplete` and `SpinnerMeansLoading` are not inductive: the inductive
invariant `PagesInv` says of *every* view that was not removed that template, request
and element agree (`DrawnInv`) and that it is drawn for the interval (`FreshInv`), and
of every view at all that it is about what its path named (`NamesInv`).
`CallsConfirmed` needs `DialogInv`: an open dialog asks about exactly the command its
callback will send, because no handler changes what a view is about (`Same`).  There
is a lemma for what each handler makes of one view, and one per action.

## 7. The counter page

`CounterView.tla` is `views/counter.js`.

* **State.**  The fields of the object: `wait` is `this.interval`, `delta` and
  `currentNum` are scaled by `Scale` so that the fraction that a frame adds is whole.
  `polling` and `animating` say whether the timer that `this.poller` or `this.animator`
  names is pending; `orphans` counts poll timers that `startLoop` overwrote and nothing
  can cancel, `gets` the requests in flight.  `left` holds what removed views can still
  do.  `failed` and `overlaps` are history variables.
* **Actions.**  `Show` is `initialize` and the drawing by `AppView`; `GraphInterval` the
  listener; `Poll` and `PollOrphan` a timer that runs `updateStats`; `Answer` and `Fail` the
  two handlers of its request, `Frame` a step of the animation, `Remove` `remove`;
  `LeftPoll` and `LeftAnswer` what happens to a removed view.
* **Bounds.**  Sums up to two in binary digits, so that the display grows by a digit;
  two visits; two changes of the interval; waits of 1 and 3 around a target of 2, since
  the real ones (100 ms, steps of 1 s, target 10 s) do not meet their target exactly
  either.

| Run | Shows |
|---|---|
| MCCounterView | loops are conserved; the digits follow the answers and never run back; the graph is that of the chosen interval; the animation ends; removed views fall silent |

**Fairness.**  Timers that are set fire and requests end, by the same timeout (weak
fairness of each).  Nothing is assumed of the user.

**What the properties make explicit.**  A change of the interval while a poll is in
flight adds a second loop for the rest of the visit (`LoopsConserved` counts them);
the timer of one of the two cannot be cancelled by `remove`, fires once more, and then
writes the url of its own interval into the graph of the next visit, the case that
`GraphFollowsInterval` excludes.  A failed poll stops the animation short of the last
answer, until a larger one comes.

**Proofs.**  `CounterViewProofs` proves `TypeOK`, `LoopsConserved`, `DisplayTracksAnswers`,
`GraphFollowsInterval` and `CountNeverRunsBack` from `CounterAssumption`.  The inductive
invariant `CounterInv` adds that a page that is not shown has nothing pending of its
own, that an animation belongs to a number that was seeded and is still behind the last
answer, and that only a removed view that left an orphan timer can still poll.

## 8. Template helpers

`AdminHelpers.tla` has the pure functions: the helpers of `lib/handlebars_helpers.js`
that build graphite targets and print durations, and the parse functions of the models.
A behaviour draws settings and a call and evaluates it.  The reference for a target is
the other side: the keys that `statsdLoop` of xmqd sends, as a statsd daemon stores
them, matched the way graphite matches a path.  Texts are sequences of tokens in which
the characters that matter stand alone.

| Run | Shows |
|---|---|
| MCAdminHelpers | 90 settings with every graph of the templates: a target reads exactly the series it is about, except in the cases `Astray` lists; every duration up to 1400 scaled nanoseconds (more than an hour); names with IPv4, IPv6 and upper case |
| MCAdminHelpersOptions | an empty statsd format and a prefix that ends in a dot, both allowed by the options, make graphs read nothing (`findings`) |

`Astray` is exact: outside it a graph reads what it should, inside it never does.  It
records, besides the finding, that a function inside the format (`gc_runs`, latencies of
all nodes), ephemeral names and fractional percentiles in latencies, and nodes with
IPv6 addresses are looked for under names that nobody stores.  `DurationReadsBack`
records that the branch for nanoseconds assigns instead of appending: exactly one hour
prints as `0ns`.  The options to leave ephemeral names or memory statistics out of
statsd are taken as not set, and of the metrics of a channel one of each type is kept.

**Proofs.**  `AdminHelpersProofs` proves `DurationReadsBack` for every duration and any
units that divide each other (`HelpersAssumption`: the smallest is more than a
nanosecond, without which the branch for nanoseconds could not be told from the one
above it), and `AddressesReadBack` for all texts, given that a port has no colon
(`PeersAssumption`).  The first rests on the uniqueness of quotient and remainder, which
makes the remainder of a minute that of an hour's remainder, and on rounding being off
by at most half of the divisor (`RoundHalf`); the second on the colon before the port
being the last one of the name (`CutAtPort`).

## 9. What is only model-checked, and what is left out

The provers do neither liveness under fairness nor `ENABLED`, so
`EventuallyLeavesFlight`, `EventuallyUndeferred`, `CallsReturn`, `MessagesFlow`,
`DisplayCatchesUp`, `RemovedFallsSilent` and `RatesFill` stay with TLC.  So does
`GraphsReadTheirSeries` of `AdminHelpers`, whose functions fold over texts, which would
need induction over data.  Every other invariant, action property and refinement of a passing run
is stated by a theorem; `InFlightTimesOut`, `NoPanic` and `CountExact` of `Channel` under
the condition of section 3, without which they are false.  No module uses a RECURSIVE
operator.

Not modelled, with the reasons in `PROJECT.json`: the daemon, message ids, lookup,
cluster-wide behaviour, `clusterinfo`, auth and the applications are ahead in the
plan; option parsing, HTTP parameter parsing, generated protocol buffers, the build
script of the front end, its one-line formatting helpers and the entry points keep no
state whose order of changes matters.  The disk queue, Raft, Backbone, jQuery,
graphite and statsd are libraries or services and appear as what their callers rely on.

Seen while reading what is ahead, for the modules that will cover it: `Snapshot`
persists nothing although Raft truncates the log behind it (`xmq_cluster.go:424`); a
follower may not know a topic it is asked about (`xmq_cluster.go:721`); a crash
between the temporary metadata file and its rename (`xmqd.go:450`); `resizePool` blocks
until a worker is idle (`xmqd.go:625`); ids when the sequence wraps within a tick or the
clock steps back (`guid.go:66`); readiness tested before the `select` it is for
(`protocol_v2.go:239`); an xmqd that restarts is refused while its id is still among
the peers (`grpc.go:113`), and a live one is not refreshed by PING (`grpc.go:43`); a lost
REGISTER is not repeated (`lookup.go:219`); and the links
of `nodes.hbs:43` and `lookup.hbs:37,41` put names into a path without `urlencode`, which
the other templates use, so that the `#` of an ephemeral name cuts the path short.
