# HH_GATEWAY: TLA+ models, model checking and proofs

The gateway keeps the table of a building's sensor nodes. Nodes register over
MQTT with their MAC address and are given an id; afterwards the gateway asks
every node again and again whether it is alive, marks those that do not answer
INACTIVE, and keeps their rows in PostgreSQL (through ODB). This directory
holds models of the parts of the program that are hard to test, the TLC
configurations that check them and proofs (TLAPS) of the main results.

    tlc -config KeepAlive_one.cfg MCKeepAlive.tla
    tlapm KeepAliveProofs.tla

## 1. Inventory

### Threads

There are two threads that matter and **no lock** between them. (The build is Qt 6,
which can queue `std::string` arguments without their type being registered.)

* The **Qt main thread** runs the event loop: three timers of
  KeepAliveService (ask the nodes every 2 s, check for timeouts every 5 s, write
  the cache to the database every 5 min; `keepaliveservice.cpp:7-44`), and the
  calls that signals post to it. All receivers live on the main thread, so a
  signal emitted on the other thread becomes an event of the main thread's queue.
* The **callback thread** of the Paho MQTT library calls
  `CallbackImpl::message_arrived`, and through it GatewayController's topic
  handlers, RegisterService and KeepAliveService::handleReplyKeepAlive
  directly. It also calls `connected`, `connection_lost` and `on_failure`.

### Components

| component | state | operations | talks to |
|---|---|---|---|
| KeepAliveService | `mNodes` (vector of Node: id, MAC address, status, updated_time, ...), `mTimeout` (5 s) | getAllNode, handleReplyKeepAlive, the send timer's slot, checkExistingNodeActive, syncToDatabase | NodeDAO (calls), AsyncPublish (signal), RegisterService (signal in) |
| RegisterService | none between calls | processRegisterMessage: find, save, refetch, emit, reply or error reply | NodeDAO (calls), KeepAliveService (signal hasNewNodeRegister) |
| GatewayController | topic and message-type handler maps | handlers for node/request and node/reply, emit hasReplyMessage | RegisterService, KeepAliveService (calls), AsyncPublish (signal) |
| CallbackImpl, AsyncSubscribe, ActionListener | `nretry_`, the client's session and its subscription, the map of handlers | builder, connect, reconnect, on_failure, connected, connection_lost, message_arrived | Paho library, broker, GatewayController |
| AsyncPublish | the client's session | builder, connect, publish, destructor | Paho library, broker |
| NodeDAOImpl | the database connection | save, findAll, findById, findByMacAddress, findByStatus, update, updateAll, deleteNodeById, deleteAll | PostgreSQL |
| ConfigManager | the singletons of the program | initSystem: build, connect the signals, load, start | all |
| Node, datetime, database mapping | the entity; time stamps and ids and their conversions | get/set, now(), to and from the columns | |
| Logger | the instance, its spdlog logger, the registry of spdlog | getInstance, initLogger, the LOG_ macros | all |
| HttpClientImpl | none | GET, GET with parameters, POST, getEndpointWithRequestParam | used by its test and an example only |
| CollectorService, SensorData | none | none | |

### What is hard, and what must hold

* **Interleaving of the two threads over `mNodes`.** The callback thread loops
  over the vector by reference while the main thread marks entries, writes them or
  replaces the whole vector. *Must hold*: cache and database end up with the same
  status (unless both threads were at the row at once, and then not for ever); a
  node is not timed out without a reason.
* **Order of the steps in a handler.** `set_status` before `set_updated_time`;
  the Node copy is taken before `update()` writes it; `findAll` reads before the
  assignment replaces. *Must hold*: as above.
* **Time.** The timeout compares a time stamp with a clock read before the loop;
  the cache has newer time stamps than the database. *Must hold*: only a node
  that was silent for `mTimeout` is timed out.
* **Partial failure and restart.** save and refetch are separate
  transactions; the process may die between any two steps; nothing catches
  ODB's exceptions in a timer's slot. *Must hold*: one id per MAC address for
  ever; a node that is saved is watched in the end; a node that repeats its
  registration is answered.
* **Order of events.** The reload is posted before the reply. *Must hold*: a node
  that is told its id has an entry in the cache.
* **Outages of the broker.** Attempts to connect are counted over `nretry_`,
  sessions are clean ones. *Must hold*: the process gives up only after the configured
  number of attempts in one outage; after each outage the topic is subscribed again.
* **Waiting.** publish() connects on the main thread when it has to, and the timers
  wait with it; transactions wait for the rows of others. *Must hold*: the delay of the checks is
  bounded, no circle of waiting threads, everything resumes after an outage.
* **Start-up.** Messages arrive while initSystem still runs. *Must hold*: what a handler
  uses is there; only the known causes end the process.
* **Other programs on the same table.** Rows may be deleted under the gateway's cache.
  *Must hold*: a copy written back late revives nothing and overwrites nobody.
* **Numbers and shared buffers.** A 64-bit id is narrowed to int; local time is
  ambiguous when the clocks change; localtime has one buffer for both threads. *Must hold*:
  a reply finds its node, and the id of an earlier registration none; stamps are exact but in the repeated hour.

PROJECT.json lists the hazards line by line with the properties aimed at each.

## 2. Modules

| module | what it is |
|---|---|
| `KeepAlive`, `KeepAliveProofs` | KeepAliveService and the rows it reads and writes, both threads |
| `NodeRegistry` | abstract: what the gateway promises its nodes about ids |
| `Registration`, `RegistrationProofs` | RegisterService, the event queue of the main thread, the reload, the publication; implements `NodeRegistry` |
| `Subscriber`, `SubscriberProofs` | AsyncSubscribe, CallbackImpl and ActionListener over outages |
| `NodeStore` | abstract: calls on the table that take effect at once or not at all |
| `NodeDAO`, `NodeDAOProofs` | NodeDAOImpl as transactions of statements that lock rows; implements `NodeStore` |
| `LossyFifo` | abstract: replies that arrive in order, at most once |
| `Publisher`, `PublisherProofs` | AsyncPublish and the main thread's events; implements `LossyFifo` |
| `Gateway`, `GatewayProofs` | the process: main(), ConfigManager, GatewayController and the callback thread; contains `Subscriber` as an instance |
| `Timing`, `TimingProofs` | the seconds of timers, publications and outages |
| `DateTime` | time stamps through local time and the database, over a change of the clocks |
| `LocalTime` | now() on two threads with one buffer |
| `NodeId` | the widths of a node's id |
| `Transport` | builders, construction and destruction of the MQTT clients, their sessions at the broker |
| `Logger` | getInstance and initLogger on several threads |
| `HttpEndpoint` | the requests of HttpClientImpl |
| `MC...` | the instances for TLC (symmetry sets, values that a configuration file cannot hold); `MCParts` holds the six modules from `DateTime` down, `PartsProofs` the theorems about each of them |

The details sit in modules of their own, and a module that contains a call of another
component has it as one step with the outcomes that the other module allows: `Registration`
and `KeepAlive` have single calls of the DAO, which `NodeDAO` shows to be atomic;
`Gateway` has whole handlers, which `Registration` and `KeepAlive` take apart.

Definitions whose comment begins with "Mutant:" are not part of a specification.
They are plausible wrong versions of an action, each of which the property named
with it in PROJECT.json detects.

### KeepAlive

One step is one access of one thread to `mNodes` or to the database, in the
order of the code; steps of the two threads interleave freely.

| code | actions |
|---|---|
| the slot of `mTimerSendKeepAlive` (:24-34) | `SendKeepAlive`: every cached node that lives will answer; `ReplyLost` covers a lost request and a lost answer (QoS 0) |
| `checkExistingNodeActive` (:76-101) | `CheckBegin` (both clock reads), per node `JudgeTimedOut` or `JudgeFine`, then `MarkInactive`, `StampInactive`, `CopyInactive`, `WriteInactive`; `CheckEnd` |
| `syncToDatabase` (:103-109), `updateAll` | `SyncBegin`, `SyncRow` for each row (into `txn`, the open transaction), `SyncCommit`; a statement that fails throws through the timer's slot and ends the process (`Crash`) |
| `getAllNode` (:46-53) | `ReloadQuery` (findAll), `ReloadAssign` |
| `handleReplyKeepAlive` (:55-74) | `ReplyArrives` (the loop finds the entry, or does not), `FoundActive` and `Touch` for the ACTIVE branch, which writes the cache only; `FoundInactive`, `StampActive`, `CopyActive`, `WriteActive` for the other |
| `processRegisterMessage`, as far as it concerns the cache | `RegisterNode`, `RegisterFails`, `OtherRegisters` (`Registration` has it in detail) |
| the process | `Crash`, `Restart` (the constructor loads the table) |

State: `table` is the node table and `mNodes` the cache, both from nodes to
`[status, age]`; `mpc`/`todo`/`cur`/`passAge`/`mCopy`/`fetched`/`txn` are where the main
thread is, `ppc`/`pNode`/`pCopy`/`onOld`/`old` where the callback thread is;
`link` is each node and what it has sent. `heard`, `stale`, `clash` and
`orphans` are history: no guard reads them.

Decisions of the abstraction:

* *Time is the age of a time stamp.* `datetime::now()` has whole seconds. When
  a second passes (`Tick`) every age grows by one and saturates at
  `Cap = Timeout + MaxPass + 1`, beyond which every comparison of the code comes
  out alike.
* *Rows are functions of the node.* A node is an (id, MAC address) pair;
  the code compares both.
* *Freed vector.* `getAllNode`'s assignment may free the elements the callback
  thread's loop stands in: undefined behaviour. The model gives its outcomes: the loop
  goes on over the old element (`onOld`, `old`), its stores lost to the
  cache, or the process dies (`Crash`).
* *Status and time stamp are read in one step by the check* (:86-87). Only the callback
  thread changes an entry meanwhile, and it sets status 1 before the new
  time stamp: a pair read apart equals one read together just before or just
  after. A time stamp is one 64-bit value and is not torn.
* *`update()` waits* for the row's lock while an open `updateAll` has written the row
  (`WriteActive`'s guard). The other direction cannot block: `WriteActive` is one transaction.

### Registration

`RegisterArrives` and `BadRegisterArrives` are the messages; `FindKnown`,
`FindUnknown`, `FindFails` the lookup (`registerservice.cpp:19`); `Save`,
`SaveFails` the insert (:36), whose failure may leave the row there (a commit
that is lost on its way back) or only burn a number of the sequence; `Refetch`,
`RefetchFails` (:39); `EmitNewNode` (:41); `EmitReply` and `EmitError`
(`gatewaycontroller.cpp:46`, which posts the reply after the handler has returned).
The main thread takes the events in order: `ReloadQuery`/`ReloadAssign`,
`PublishReply`/`ReplyDropped`, `PublishError`. `Crash` loses the queue and the cache, not
the table and the sequence.

`NodeRegistry` is the promise: an address is given an id once, fresh and for good
(`Assign`), and is told no other (`Tell`). `Registration` implements it with
`ids <- table`.

### Subscriber

`Connect` is the first connect (an exception is logged and nothing tries again:
`client = "off"`); `AttemptFails` is on_failure with `nretry_` and `exit(1)`,
`Reconnect` connects again after the pause, `AttemptSucceeds` and `Subscribe` are
`connected`, `SubscribeAnswered` the broker's answer (a refusal is only logged by
ActionListener), `ConnectionLost` is connection_lost. The broker comes and goes;
a connection may or may not outlive a short outage (`alive`).

### NodeDAO

Three kinds of callers: the main thread (findAll, update, updateAll), the callback thread
(findByMacAddress, save, and set_status and update of a node in the main thread's cache: `Keeper`) and
other programs over the same interface (`Tools`, everything). A write begins
with what it is to write (`save`, `update`, `deleteNodeById`, `deleteAll`), has a
statement per row (`InsertRow`, `WriteRow`), which waits for rows locked by others,
and ends by `Commit`, by a statement that throws, or by `Fails`: the connection or the
database's deadlock detection; the transaction's destructor rolls back. The database is
PostgreSQL at its default isolation with ODB on top (update and erase of a missing row throw,
erase_query passes it over).
`update` is given a copy of its own. `updateAll` is given a reference to the cache: it
takes each row when its loop comes to it (`Take`), while the callback thread
changes entries in place (`SetStatus`), so what it commits need not be what the cache held at any one moment.
A read is one statement and takes copies (`held`),
which may be written back at any time later.
`NodeStore` has the same calls, each with one step that takes effect; a call of updateAll takes its copies
one by one before (`TakeCopy`), while they change (`Change`).

### Publisher

`publish()` is `Check`, `ConnectSucceeds`/`ConnectFails`, `Hand`; its callers
are the slot of the send timer (`SendTimer`, `PublishRequest`, a direct call) and the posted
replies (`PublishReply`). `ConnectAtStart` is initSystem's connect. `session` is
`dead` between the loss of the connection and the library's noticing it: is_connected() holds,
and what is handed over is lost. `wire` is what is on its way.

### Gateway

`InitLogger` to `ConnectPublisher` are main() and initSystem in order (`mpc`);
`TakeEvent`, `CheckWrites` and `SyncWrites` the event loop as far as it may end the process: without a
database, but also with one, when another program has deleted a row that is in the cache or holds locks
(`OthersWrite`); `SubscriberStep` the library's calls (module `Subscriber`), which end the process by
exit(1), except that nothing catches what subscribe() throws in `connected` (`ExitOf`); `MessageArrives` the dispatch by
topic; `HandleNothing`, `HandleIllTyped`, `HandleRegister` with `EmitReply`, and
`HandleKeepAliveReply` the handlers by what they tell apart in a message. The
publisher's connection is in `Publisher`.

### Timing

One node among at most `Nodes` in the cache, in seconds. A slot of the send timer makes up to `Nodes`
publications; each may wait up to ConnectTimeout (`Connects`, `ConnectEnds`), while neither
timer runs. So may every reply to a registration (`Registers`), which is posted to the same thread and which
Qt may take before or after a timer that is due (`TakeReply`). `Reload` is getAllNode, which may come
at any time and put back a row with any status and an old stamp. The callback thread sets status and stamp
in two steps (`ReplyArrives`, `ReplyStamped`). Late timers are rearmed as QTimer does (`Rearmed`). Work
that is not waiting takes no time. It is an assumption that a node answers within `Latency` and that the subscriber is
back `Resubscribe` seconds after the broker (2.5 s of pause and a connection).

### DateTime, LocalTime, NodeId

`DateTime`: a clock in ticks, a time zone whose clocks are put back or forward by `shift` at
`Change`, `Now` as now() computes it (cut to seconds, to local fields, through mktime, which
may take either time when the fields stand for two), `Image`/`Value` to the column and back, the check.
`LocalTime`: `Fill` is localtime (atomic: the C library locks), `Read` one field
at a time, `Construct` the constructor. `NodeId`: `ToInt` is the cast, `ToWide` the conversion
in the comparison, `Matches` the condition of handleReplyKeepAlive; `Save`, `Refetch`, `RefetchFails`,
the posted `getAllNode` and `RegisterReply` are steps of their own, so that a row may be there and not
in the cache, and its id told all the same. `about` remembers which id a node was sent. Replies may
overtake reloads here (`Registration` has their order): what is checked holds in any order.

### Transport, Logger, HttpEndpoint

`Transport`: `SetSubscriber`/`SetPublisher` are the setters of the builders, `Build...` build() with
what it refuses, `NewSubscriber`, `Callback`, `NewPublisher` the constructors,
`DestroyPublisher` the destructor that disconnects if is_connected(); the broker displaces an older
connection of the same id (`Connect`) and publishes the will of a publisher that it loses. Broker and
client notice a loss in either order (`Breaks`, `NoticesLoss`): a publisher that gives its connection up first
takes over its own session when it connects again. `asked` and `lost` are history.
`Logger`: getInstance step by step under its mutex, initLogger with its two mkdirs, the sink that may
throw, the assignment, and register_logger, which throws for a taken name.
`HttpEndpoint`: the loop of getEndpointWithRequestParam over a map, one key a step (`Foremost` is the order
of std::map). `Query` is the server's side: it finds the keys and values in the text again.
The endpoint that the caller gives and the keys are assumed to be without `?` and `&`. The server's decoding
of `%` and `+`, and `#`, are left out: nothing is said of values that hold them.

## 3. Runs

| run | question | bounds |
|---|---|---|
| `keepalive_one` | What may the two threads do to one row: `TypeOK` (no write of a node without a row: `update()` would throw and end the process), `AgreeUnlessClash`, `TimeoutExplained` | 1 node, Timeout 2, MaxPass 1, 1 reload posted, 1 crash |
| `keepalive_live` | `DeadNodeDetected`, `NewNodeWatched` after any race and a crash | 1 node, Timeout 1, MaxPass 0, 1 crash |
| `keepalive_timed_out` | *violated*: what the log says of a node timed out | as `keepalive_one`, no crash |
| `keepalive_logged_active` | *violated*: what the log says after a node is written ACTIVE | as `keepalive_one`, no crash |
| `registration` | `ToldIsWatched`, `RetryingNodeIsTold` and the refinement `ImplementsRegistry` | 2 addresses, 4 events, 2 failures, 1 crash |
| `subscriber` | `OutageRidden`, `ServiceResumes` | the code's 5 retries, unbounded outages |
| `nodedao` | `RowsIdentify`, `GatewayNeverDeadlocks`, and the refinement `ImplementsStore` | 2 addresses, 2 ids, 1 other program |
| `nodedao_live` | `CallsEnd`, although statements wait for each other | the same, one status |
| `publisher` | the refinement `ImplementsFifo`; `RequestsResume`, `RepliesArrive` | 2 requests a slot, 3 replies, 2 on the way |
| `gateway` | `ReadyForMessages`, `EndsForCause`, `RepliesPublished`, `SubscriptionResumes` | 2 messages, 1 retry |
| `timing` | `LivingKept`: 10 s after an outage no living node is timed out any more, unless a reload has put an older stamp back; `SilentFoundInTime`: a dead one is found within 23 s, and 3 s for each reply posted by then | the code's 2, 5, 5 and 3 s; 2 nodes, 1 outage, 1 posted reply, reloaded stamps new or too old, answers within 1 s, subscribed within 3 s |
| `parts` | the modules that share no state with another, one in each behaviour: | |
| – DateTime | `StampsExactOutsideFold`, `NoneTimedOutEarly`, `SilentFound` | 3 ticks a second, Timeout 2, clocks put back, forward or left, 14 s |
| – LocalTime | `MixBounded`: what a mixed stamp can be | 2 threads, minutes of 2 s, hours of 4 s, 6 s |
| – NodeId | `FoundWhileIdsFit`, `EarlierIdsNotFound` | 1 node, ints of 3 bits, ids of 5 bits, up to 13 |
| – Logger | `OneInstance`, `SameLogger` | 2 threads, 3 calls of initLogger |
| – Transport | `StrangersCoexist`, `WillOnlyWhenLost` | 2 clients, 3 options, 1 value besides the default and the empty one |
| – HttpEndpoint | `ServerReadsParams` | 3 keys, 5 values with separators among them |

Why the bounds are enough:

* *One node* has all interleavings of the two threads over one row, which is where
  they meet: the callback thread handles one row at a time. That the main thread's loop may be
  at another row, or its transaction span several, is left to the proofs of `AgreeUnlessClash` and
  `TimeoutExplained`, which hold for any set of nodes; `Timing` has two in its publications.
* *Timeout 2, MaxPass 1* leave room for a reply in time, at the limit and too
  late, and for a clock read one second before the comparison. In the proofs they are
  arbitrary.
* *One posted reload*: two reloads one after the other reach the same states as
  one, and the bound limits those waiting, not how many run in a behaviour.
* *One crash* reaches every state that the next crash would start from again:
  what survives is the table, and Init has every table (in `Registration` a
  crash keeps whatever table there is).
* *Events, failures*: two failures let a retry fail in another place than the
  first attempt; four events hold two registrations' events at once. Two
  addresses compete for the cache, the queue and the ids; the proofs of `ToldIsWatched` and the
  refinement have any number.

* *NodeDAO*: two ids let two rows be locked in either order, and an address move from a deleted
  row to a new one; a second other program would be a third waiting thread, which the
  proof covers. *Publisher*: two requests make a slot that can lose its connection in the middle.
  *Gateway*: one message can meet the start-up or an outage while another waits; the number of
  retries is arbitrary in the proofs. *Timing*: the two bounds (10 s and 23 s)
  are the smallest for two nodes: with one less TLC finds a counterexample. The first does not
  depend on the number of nodes; the second grows by twice ConnectTimeout with each (section 4). One outage may begin at
  any moment of the timers' phases, and one posted reply meets it, a timer and a reload in any order; the proofs have
  any number of both and stamps of any age.
* *DateTime*: parts of seconds, a repeated and a skipped time all occur before `MaxWall`.
  *NodeId*: ids run past the ints and reach values whose cast looks like an
  earlier id; handleReplyKeepAlive compares the address too, so that nodes meet only in the sequence, which
  others may advance. *LocalTime*: a full minute and a full hour pass. *Transport*: one namesake is enough to be displaced;
  the options left out (topic, QoS, retries, retain, timeout, handlers) decide nothing about sessions. A publisher's
  or a subscriber's default and one set value give equal and different ids.

The proofs remove the bounds of every safety property; the liveness properties hold within them.

### Fairness

`KeepAlive`: a thread that is in the middle of a function goes on (weak fairness
of `MainStep`, `PahoStep`); a timer that is due again and again and a posted event
get their turn in Qt's event loop (strong fairness: the three compete for an
idle main thread); time passes; a dead process is started again (a service
manager or an operator; this is an assumption about the deployment). No
fairness is assumed of the nodes, the messages or the registrations.
`Registration`: the same for its threads; failures are bounded, so
"in the end" means after they have stopped. `Subscriber`: the library makes every
call that is due; the broker has none, `ServiceResumes` assumes `<>[]broker` in
its own premise.
`NodeDAO`: an open call goes on, and one that waits in a circle is ended by
the database. `Publisher`: publish() returns, the event loop serves timer and events, the
library notices a dead connection. `Gateway`: start-up and handlers go on, the event loop takes
its events, and the library makes the subscriber's due calls between messages
(strong fairness: messages and calls compete for the one thread). `Timing` needs none: a second passes only when nothing is due.

## 4. Proofs

Every theorem is proved for all values of the constants that satisfy the named
ASSUMEs (no node is the null value; bounds and timeout are natural numbers).

* `KeepAliveProofs!TypeCorrect` from `TypeInv`: `TypeOK` and what it leaves open
  (which place of the main thread may have a loop or a transaction, and that the
  callback thread's loop stands on an element of the cache).
* `KeepAliveProofs!TimeoutsExplained`. `TimeoutExplained` speaks of a step; the
  invariant behind it, `FreshInv`, says that a cached age is at most the age of
  the node's last reply plus `MaxPass`, unless the row was read back since or
  the reply is not recorded yet. `StampInactive` writes the time at which the pass
  began, which is why `MaxPass` is in the bound; and while the callback thread
  stands on a freed element its node's row is one that was read back.
* `KeepAliveProofs!CacheAgrees`. `AgreeUnlessClash` is not inductive: it says
  nothing while a thread is at the row. `AgreeInv` adds what holds then,
  `MainAgrees` (the copy, the fetched row and the row in the transaction agree
  with the cache at each place of the main thread) and `PahoAgrees` (the
  same for the callback thread).
* `RegistrationProofs!TypeCorrect`; `RepliesAreWatched` from `WatchInv`: an
  address with a row is covered (cached, fetched or an orphan), or a reload is
  in the queue, or the registration that saved it is about to post one; and
  before every reply to an address that is not covered a reload stands in the queue.
* `RegistrationProofs!RefinesRegistry` from `IdInv` (ids are below the sequence
  and not shared, a queued reply names the row's id): each step is an
  `Assign`, a `Tell` or a stutter. `ToldIdsIdentify` follows from the
  refinement and `IdsAlwaysIdentify`, a theorem about `NodeRegistry` alone.
* `SubscriberProofs!TypeCorrect` and `OutagesAreRidden` from `CountInv` (`nretry_` and the
  failures in a row are equal while the client tries): it holds although a success
  does not reset `nretry_`.
* `NodeDAOProofs`: `TypeCorrect`, `RowsAlwaysIdentify`, `NeverDeadlocks` and `RefinesStore` from
  one invariant. Its parts: a locked row is locked by one transaction and is in
  the table or being inserted (`LockInv`, `SaveInv`); rows have different addresses, also those that open
  insertions will add (`UniqueInv`; the wait of `InsertRow` is what keeps this); every copy anybody
  holds, and every row a call will write, has the address that its id was given to (`GivenInv`), which makes late
  write-backs harmless. `NeverDeadlocks` follows from `GatewayInv`: the callback thread writes one row in a transaction.
  In the refinement every step but `Commit` and the end of a failing call is a
  beginning, a copy taken or changed, or a stutter; that the rows of an update are all still there at its commit
  is the locks' doing, that each was taken before it was written `ProgressInv`'s.
* `PublisherProofs`: `TypeCorrect` and `RefinesFifo`, from `OrderInv`, which orders
  what has arrived before what is on its way, in hand and queued.
* `GatewayProofs`: `TypeCorrect`, `AlwaysReady` from `StageInv` (what is there at each stage of
  the start-up, and that the subscriber is new before its stage), `EndsOnlyForCause` (over the
  whole life of the process, start-up included, with a table that others write: the causes name a subscribe() that
  throws and an update() that does with the database answering). The
  types of `Subscriber` are carried over by instance.
* `TimingProofs`, for any number of nodes, outages, posted replies and reloads, and any periods:
  `SilentIsFoundInTime` assumes `Found > Timeout + CheckInterval + 2 * Nodes * ConnectTimeout`. Its
  invariant (`FoundInv`) has two parts. Before the check is due, the age of an active node and the time to the check make
  up at most `Timeout + CheckInterval`. After that, how late the check can still be is bounded by what the slot at
  hand (`Left`), one more that the send timer begins before it (`Ahead`), hence the 2, and the queued replies can still
  wait for connections. With the values in the code it is 10 + 6n seconds for n
  nodes, and 3 for each posted reply. `LivingAreKept` assumes `SettleBound(Settle)` (more than
  `SendInterval + Latency` plus `2 * ConnectTimeout` and plus `Resubscribe`) and
  `Timeout >= SendInterval + Latency`; its invariant (`KeptInv`) says that a living node will be heard
  before the outage is Settle seconds past or before its stamp is too old, unless a reload has come since, with
  `Requested` and `Heard` the longest until a request reaches it and until its stamp is set. Both bounds are tight for
  the run's values (see the bounds above).
* `PartsProofs`, for every value of the constants of the modules in `MCParts`:
  * DateTime: `TypeCorrect`, `StampsAreExact`, `NobodyEarly`, `SilentIsFound` for every
    zone change, resolution of the clock, timeout and epoch.
  * NodeId: `FoundExactlyWhileIdsFit`, `EarlierIdsFindNothing` for every width. Behind both is
    `ThereAndBack`: an id cut to an int and widened again is itself exactly if it fits an int, and otherwise
    less, or more than any id that is given out. An id that is wrongly *later* than the cache's entry is therefore
    not excluded (a node that was told its new id before the reload, 2^32 ids after the old one): the
    properties leave that out.
  * LocalTime: `MixedStampsBounded` for any number of threads. The invariant (`LocalInv`) says that each field
    in the buffer, and each field read, is that of some time between the earliest and the latest since the thread
    filled the buffer; the rest is arithmetic (`FieldsAre`, `Mixed`): within a minute the larger fields are
    those of every time, so the stamp is the time of its seconds.
  * Logger: `OneInstanceOnly` from the mutex (`InstanceInv`: who tests or makes
    the instance holds it) and `SameLoggerKept` from `LoggerInv`.
  * Transport: `StrangersDoCoexist` (the id in the library's client is the one its builder was given, or the
    default of its kind, from the setters on: `BuilderInv`, `ClientInv`; it assumes that nobody sets a default's name) and
    `WillsOnlyOfTheLost` (where the broker has a session of a client that does not take itself to be connected, the
    connection was lost: `SessionInv`).
  * HttpEndpoint: `ServersReadParams` for every endpoint, key set and value. `HttpInv` says what a
    server would read in the middle of the loop and whether the text ends in a
    separator; `FirstPair` and `NextPair` say what a pair adds to it. Nothing is said of values that hold
    a separator.

Only model-checked: the nine liveness properties (fairness and ENABLED are out of the prover's reach) and the two
violations. No safety property is left without a theorem.

The provers' limits left marks on three places. `HttpEndpoint` has the keys that are left as a set
with an order instead of a sequence that is filtered: what a fold returns needs an induction over
data. The theorems of six modules share `PartsProofs`, as the modules share `MCParts`. And `TimingProofs`
has lemmas of pure arithmetic about sums, which the SMT backend does not do over primed variables.

## 5. Findings

1. **A registration can time out healthy nodes** (`keepaliveservice.cpp:48`). An
   ACTIVE node's replies are recorded in the cache only and reach the database
   after up to five minutes. Each new registration reloads the cache from the
   database and so brings back old time stamps; the next check, if it comes before
   the next replies, logs "timed out" for nodes that have just answered and writes
   them INACTIVE. `TimeoutExplained` states the exact condition (`stale`), and
   `DeadNodeDetected` and the next reply's `WriteActive` show that it heals.
2. **"status updated to ACTIVE in DB" with INACTIVE in the database**
   (`keepaliveservice.cpp:60`). The check comes between `set_status(1)` and
   `set_updated_time` and marks the node; the handler then copies and writes
   status 0 and logs the opposite.

Beyond these two the properties hold, with the exceptions they name. One of the
exceptions deserves attention: a registration whose save is committed and whose refetch
fails (`registerservice.cpp:39`) leaves a row that no reload announces; the node is told
its id at its next attempt and is not watched until another node registers
or the process starts again (`orphans`).

Other consequences that the runs make visible: in the hour that is repeated when the clocks are put
back, the local fields of now() do not say which of two times is meant, whatever
`datetime.hxx:25` ("Let mktime determine DST") hopes for, and the stamp may be off by an hour: nodes that
have just replied are timed out, or dead ones found an hour late (`StampsExactOutsideFold` shows that
this is the only such time); a second
initLogger leaves `mAppLogger` and the registered logger different; a stamp that mixes two calls of
localtime over a full minute may even lie in the future (`MixBounded` says when);
an id from 2^31 on makes its node time out again and again, since no reply of it
is found once it is in the cache (`FoundWhileIdsFit`); a message without a string `messageType`, any failure
of the database in a timer's slot or of an update in a reply's handler, a row that another program deletes, and a
connection lost between `connected` and its subscribe() end the process by an exception (`EndsForCause`);
with two nodes and no broker a dead node stays ACTIVE for up to 22 s, and 3 s longer for each posted
reply (`SilentFoundInTime`); a publisher that gives up a half-open connection and connects again makes the broker
publish its will though it lives; parameter values are not escaped.

## 6. Not modelled

* Log output, message formats, JSON: only which message is accepted matters.
* `3rdparty`, examples, benchmarks, build and deployment files: the examples (employee
  database, CRUD menu) have code of their own that the gateway does not use.
* CollectorService is empty; SensorData is stored and read by nothing.
* `withTransaction` is a pair of templates that nothing instantiates.
* The columns that nothing reads back (room, position, is_keep_alive with its mapping to text), and
  create_database for other databases than PostgreSQL.
* exit(1) on the callback thread runs the destructors of the static objects while the main thread
  still uses them, and a subscriber's callback is destroyed before its client: undefined
  behaviour whose outcomes the runtime and the library decide. The models end at the exit.
* What processRegisterMessage does when another program deletes the row between save and refetch: it reads the id
  through a null pointer (`registerservice.cpp:39-40`), which is undefined; `NodeId` and `Registration` have
  only a refetch that finds the row or throws.
* `Logger::getInstance` is called by several threads in its model; in this repository only main calls it.
* More than one callback at a time: Paho calls from one thread per client.

## 7. What could follow

* `Registration` and `KeepAlive` in full detail over one event queue: each has the
  other's steps as far as they touch its state; the product is out of TLC's reach at useful bounds.
