# TLA+ models of the voltha-go Kafka client and logical ports

This directory models the Kafka messaging client in `src/kafka/sarama_client.go` (`SaramaClient`) and the logical-port events of `src/unnamed/part_000`. It has TLA+ modules, the TLC configurations that check them, and `PROJECT.json`. `PROJECT.json` lists the components, the runs, the mutants, the map from each definition to its source lines, the findings and the hazards.

## The system

`SaramaClient` connects voltha components to Kafka. Its parts and how they interact:

- **Subscription registry.** `topicToConsumerChannelMap` maps a topic name to a `consumerChannels` entry. An entry holds the broker-level consumers of the topic and the subscriber channels that every message of the topic is copied to. It is guarded by `lockTopicToConsumerChannelMap`. Every helper (`addTopicToConsumerChannelMap`, `addChannelToConsumerChannelMap`, `removeChannelFromConsumerChannelMap`, `clearTopicFromConsumerChannelMap`, `clearConsumerChannelMap`) holds the lock for its whole body, so each is one atomic step.
- **Subscribe / UnSubscribe.** `Subscribe` looks the topic up under the registry lock (`getConsumerChannel` takes the full `Lock`).
  - If there is an entry, it adds a new channel (`addChannelToConsumerChannelMap`, a second locked step).
  - Otherwise it creates consumers, either one partition consumer per partition (`createPartionConsumers`) or one group consumer (`createGroupConsumer`). It registers a new entry and starts `go startConsumers(topic)`.

  `UnSubscribe` removes and closes one channel. When the last channel goes, it also closes and deletes the consumers.
- **Consumption and dispatch.** `startConsumers` looks the entry up again and starts one loop per consumer. Those loops are `consumeFromAPartition` and `consumeGroupMessages`. A loop unmarshals each message and hands it to `go dispatchToConsumers`. That function starts one send goroutine per channel of the entry. A loop ends on a nil message (its consumer was closed) or on the token in `doneCh`.
- **Stop.** `Stop` runs three steps in order:
  1. it puts one token on `doneCh`, which has capacity 1;
  2. it closes the producer, consumer and group-consumer handles;
  3. it calls `clearConsumerChannelMap`.
- **Send, CreateTopic, DeleteTopic, Start.** `Send` hands a message to the asynchronous producer. `DeleteTopic` deletes the topic on the broker and then clears its entry. `Start` creates the admin handle, the producer and the master consumer in that order, returning at the first error without undoing the earlier ones, and then the empty map.

`src/unnamed/part_000` holds the logical-port handling of the core's `LogicalAgent`:

- **Port map.** `agent.portLoader` maps port numbers to logical ports, each behind its own lock (`Lock`, `LockOrCreate`, `Unlock`).
- **Operations.**
  - `addNNILogicalPort` and `addUNILogicalPort` create a port and queue an ADD event.
  - `updatePortState`, `enableLogicalPort` and `disableLogicalPort` update a port and queue a MODIFY event.
  - `deleteLogicalPorts(device)` and `deleteAllLogicalPorts` delete ports and queue DELETE events.
  - `setupLogicalPorts` adds the ports discarded while the logical device was being created. It calls `addNNILogicalPort` on each NNI port of the root device (`setupNNILogicalPorts`), then starts one goroutine per child device that calls `addUNILogicalPort` on each of its UNI ports (`setupUNILogicalPorts`). It waits for their responses with `WaitForNilOrErrorResponses(agent.defaultTimeout, ...)`.
- **orderedEvents.** Each event takes a queue position (`assignQueuePosition`, under a mutex). It is then sent by its own goroutine (`queuePosition.send`), which waits for the previous position's channel to be closed, calls `SendChangeEvent` to the OpenFlow controller, and closes its own channel.

Every operation except `deleteAllLogicalPorts` takes its position while still holding the port's lock. The file also holds a fragment of an ONU adapter test.

## Modules

| Module | Models | State | Actions / operators |
|---|---|---|---|
| `SliceOps` | `removeChannel` and the clear loop | none (pure) | `FirstIndex`, `SwapToEnd`, `removeChannel`, `ClearFrom`/`ClearLoop` (RECURSIVE, iterates over the array that it swaps in place) |
| `SliceOpsMC` | bounded check of the clear loop against what it must close | the input | `Init` enumerates every slice of distinct channels |
| `SaramaClient` | registry, Subscribe/UnSubscribe/DeleteTopic, consumption loops, dispatch, Stop, a broker | see below | one action per locked step or goroutine step |
| `SaramaClientMC` | TLC instance | — | `Symmetry` over topics and callers |
| `LogicalPorts` | port map, add/modify/delete operations, setupLogicalPorts and its goroutines, orderedEvents chain | see below | one action per lock region or goroutine step |
| `LogicalPortsMC` | TLC instance | — | `MCDeviceOf`: port 1 is an OLT NNI port, port 2 an ONU UNI port |

State of `SaramaClient`, and the code it stands for:

- `registry[t]` is `topicToConsumerChannelMap`, either an entry id or `Nil`. An entry is named by the id of its first channel.
- `channels[e]` and `consumers[e]` are the entry's slices. `closes[ch]` counts the `close()` calls on channel `ch`; a second one panics.
- `kState`, `kAt` and `stream` model the broker-level consumers: open or closed, the `<<topic, partition>>` they read (partition 0 means a group consumer), and the messages they fetched and the loop has not yet read.
- `starters` are pending `startConsumers` goroutines. `loops` is a bag of `<<consumer, entry>>` loops. `dispatchers` and `senders` are pending `dispatchToConsumers` goroutines and send goroutines.
- `doneCh` is the number of tokens in `sc.doneCh`, and `groupConsumer` is `sc.groupConsumer`.
- `pc`, `arg` and `held` are each caller's place inside `Subscribe`, and the channels it holds. `stopPc` is the place inside `Stop`.
- `kCloses[k]` counts `Close()` calls on consumer `k`. `stopsMade` counts the `Stop()` calls made.
- `startPc` is where `Start()` left the client (`new`, `started`, `failed`). `hState[h]` and `hCloses[h]` are the state of `sc.cAdmin`, `sc.producer` and `sc.consumer` (nil, open, closed) and their `Close()` count. `createClusterAdmin`, `createPublisher` and `createConsumer` each make their handle or fail; `Start` picks their outcomes.
- `marked` and `fanned` are history: offsets passed to MarkOffset, and the order in which each consumer's messages were fanned out.

`Subscribe` is split where the code releases the lock. The split is `Subscribe` (the lookup), then `SubscribeExisting` or `SubscribePartition`/`SubscribeGroup`. Other callers' steps, the loops and `Stop` can run between those steps. `SubscribePartition` picks how many partition consumers were created before a failure (`0..NumPartitions`). Fewer than `NumPartitions` is a failure that leaves those consumers open, as the code does. `SubscribeGroup` either fails or creates a group consumer.

`Stop()` is four steps:

- `StopCall`: the application calls it, after `Start()` returned, whether it failed or not. `StopCalls` bounds how often. With `QuiescentStop` it is called only when no `Subscribe` is in flight.
- `StopSignal`: `sc.doneCh <- 1`, which blocks while the buffer still holds a token.
- `StopHandles`: closes `sc.groupConsumer` and every handle that is not nil, closed or not.
- `StopClear`.

State of `LogicalPorts`, and the code it stands for:

- `ports[p]` is the stored port's `OfpPort`, abstracted to the PORT_DOWN bit of Config and whether State is LIVE, or `Nil`.
- `positions` lists the events of the queue positions taken, in the order of the `e.last` chain. `closedCh` holds the positions whose `qp.next` is closed.
- `sent` is the sequence of events passed to `SendChangeEvent`.
- `pc`, `todo` and `held` are each caller's place in a deletion or setup loop, the ids it still has to visit, and, in `deleteAllLogicalPorts`, the DELETE event it has not yet queued.
- `serr[t]` is the `err` of `setupNNILogicalPorts`, which each `addNNILogicalPort` result overwrites.
- `kids[i]` is a goroutine of `setupLogicalPorts`: its child device, whether it is in `listDevicePorts`, blocked there for good, adding the child's UNI ports, or done (`response.Done()`), and the ports it has left. `waitOn[t]` is the set of goroutines whose responses caller `t` waits for.

Each `Lock`/`LockOrCreate` ... `Unlock` region is one action; the per-port lock serialises them. `deleteAllLogicalPorts` is split at its `Unlock`, because it queues the event after unlocking. `send(i)` is the goroutine of position `i`: it is enabled once position `i - 1` is closed.

`setupLogicalPortsWaitDone` returns once every response is in; `setupLogicalPortsTimeout` returns at any time while waiting, standing for the expiry of `defaultTimeout`. A child's `listDevicePorts` runs under `context.Background()`, so the model lets it fail, return the ports, or never return. A `LockOrCreate` failure in a setup loop changes no port; in the NNI loop it sets `serr`, which only the last port's result decides.

Failed `Update` calls, and the early returns of an add on an existing port or of a UNI add on a device that is not ready, change nothing, so they are stuttering steps.

## Runs

| Run | Expect | What it shows |
|---|---|---|
| `client_safety` | pass | `RegistryWellFormed`: every registered entry keeps at least one channel, open channels and open consumers while two callers race on a topic in partition mode. |
| `client_stop` | pass | `TypeOK`, in group mode. `StopEndsConsumption`: one `Stop()` call on a quiescent application returns, every loop exits and the map is emptied, with group consumers on two topics. `ConsumerOwned`: every open group consumer is a consumer of its topic's registry entry. |
| `ports_events` | pass | `TypeOK` with two callers using every operation, `deleteAllLogicalPorts` included. |
| `ports_view` | pass | Without `deleteAllLogicalPorts`: `ControllerEventsConsistent` (ADD only of ports the controller does not know, MODIFY and DELETE only of ports it knows) and `ControllerViewMatches` (once the callers and the setup goroutines are idle and every event is sent, the controller's picture equals the port map), with setupLogicalPorts goroutines that outlive its timeout. |
| `sliceops_clear_loop` | violation | `ClearLoopClosesEachOnce`: with channels `[a, b]`, the clear loop closes `a` twice (a panic) and never closes `b`. |
| `client_send_closed` | violation | `NoSendOnClosedChannel`: a pending send goroutine races with UnSubscribe's close. |
| `client_orphan` | violation | `SubscribedChannelRegistered`: two concurrent Subscribe calls for a new topic leave one caller's channel unregistered, and that caller's consumers open. |
| `client_order` | violation | `DispatchInArrivalOrder`: `go dispatchToConsumers` per message reorders the fan-out. |
| `ports_delete_all` | violation | `ControllerViewMatches`: `deleteAllLogicalPorts` queues DELETE after unlocking, so a concurrent re-add's ADD is queued before it and the controller loses the port. |
| `client_double_close` | violation | `ConsumerClosedOnce`: UnSubscribe closes a group consumer that `sc.groupConsumer` still points to; Stop closes it again. With `StopCalls = 2`, a second `Stop()` that gets past `doneCh` also closes the producer, consumer and admin handle again. |
| `client_stop_race` | violation | `StopLeavesNoEntry` with `QuiescentStop = FALSE`: after a successful `Start()`, a Subscribe passes its lookup, `Stop()` runs to the end, and then `SubscribeGroup` opens its consumer and registers its entry. The entry, its consumer and its loop outlive `Stop()`. |
| `client_leak` | violation | `ConsumerOwned` with `NumPartitions = 2`: `createPartionConsumers` fails on the second partition and returns; the first partition consumer stays open and belongs to no entry. |

Every property of a passing run has a mutant in `PROJECT.json`: a plausible bug in the code that makes TLC report the property violated. For example, a `removeChannel` without the swap, or a group Subscribe that does not check `createGroupConsumer`'s error and stores the nil consumer (`TypeOK`).

## Bounds

These bounds are the smallest under which each behaviour happens:

- **Callers.** Two callers are needed for the Subscribe races. Stop uses one caller but two topics, so there are several loops and only one token.
- **Channels.** `MaxChannels = 3` allows two subscriptions to one topic plus a re-subscribe. That reaches the clear loop with two channels and the stale-entry cases.
- **Consumers.** `MaxConsumers = 2` allows two entries' worth of consumers, which the orphan race needs.
- **Messages.** `MaxMsgs` is 1 or 2. Two messages are needed for reordering; one is enough for the send-on-close race.
- **Partitions.** `NumPartitions = 1`, except in `client_leak`, where a second partition is what lets `createPartionConsumers` fail after opening a consumer.
- **SliceOpsMC.** It covers every injective slice over 3 channels; two channels are enough for the clear loop's double close.
- **LogicalPortsMC.**
  - Two callers and two ports, one NNI and one UNI, on two devices.
  - `MaxEvents = 3` lets a port be added, deleted and re-added, or added and modified, with a deletion loop running concurrently. Deletion and setup loops already started may queue one more event per port.
  - `MaxKids = 1` in `ports_view`: one child device, so one setup goroutine, which can still be running or blocked after the caller returned and while the other caller deletes or modifies. `MaxKids = 2` took 8 million states without a new kind of step. The other LogicalPorts runs leave setup out (`MaxKids = 0`).
- **Stop runs.** Two `Stop()` calls (in `client_double_close`) are enough for the second close of the handles. `QuiescentStop = FALSE` (in `client_stop_race`) lets the one caller be inside Subscribe when Stop runs.

Symmetry over topics and callers is used only in runs with no liveness property.

## Fairness

The Go scheduler eventually runs every runnable goroutine. The Spec assumes weak fairness only on the steps the stop property relies on:

- the steps of a `Stop()` call once made: `StopSignal` when its send can proceed, `StopHandles` and `StopClear`;
- a started `startConsumers`;
- a loop taking its nil-message or `doneCh` case once it is enabled.

Also:

- `LogicalPorts` states the same kind of fairness (every event goroutine whose turn has come, a caller inside `setupLogicalPorts`, each setup goroutine), but no LogicalPorts run checks a liveness property. The only candidates hold by fairness alone: the FIFO order of events follows from the `<-qp.prev` guard, and `setupLogicalPorts` returns because its timer fires. The model also lets every `SendChangeEvent` return, so the stall of a send that never returns is not checked.

Callers, producers and dispatch have no fairness: a subscriber may never read its channel, and the application may never call Stop.

`client_double_close` sets `CHECK_DEADLOCK FALSE`, because with two `Stop()` calls the client really does stop with the second one blocked on `doneCh` when no loop took the first token. Every other run checks for deadlock. Each has a `Finished` stuttering step for its legitimate end state: Stop returned, or all events sent with the event budget used.

## Not modelled, and why

- **sarama internals.** The producer's buffering and retries, broker errors, and rebalancing are not modelled. `Errors()` and `Notifications()` only log.
- **Configuration and logging.** `NewSaramaClient`'s options only set fields that sarama reads (addresses, flush, retry and timeout settings); `ConsumerType` and `NumPartitions` are CONSTANTS. `deleteFromTopicToConsumerChannelMap` is never called. A `Close()` error in `Stop()` panics and is not modelled.
- **The error `closeConsumers` returns.** It is only logged or returned. Its merge overwrites an earlier failure with nil on a later ErrUnknownTopicOrPartition (line 444), which is listed as a hazard without a run.
- **The error `setupLogicalPorts` returns.** The loops of `setupNNILogicalPorts` and `setupUNILogicalPorts` overwrite `err` with each port's result, so a failed port followed by a good one is reported as success (part_000 lines 139 and 188). The model has these loops, but no property is about the result: the natural one is false at the first masked error. It is listed as a hazard.
- **The blocked second `Stop()`.** A second `sc.doneCh <- 1` blocks forever when no loop took the first token (for example after a failed `Start()`). It is reachable in `client_double_close`, but no run has a property about it.
- **The caller's own device-manager calls.** In `setupLogicalPorts` the caller's `GetAllChildDevices` (line 93) and `listDevicePorts` (line 130) run under the caller's context and always return in the model; only a child goroutine's `listDevicePorts`, under `context.Background()`, may block.
- **`updateLogicalPort`** only dispatches on the port type to the add operations or to route goroutines.
- **Route goroutines** (`buildRoutes`, `updateRoutes`, `updateAllRoutes`) change only route state, outside this model.
- **Read-only queries** (`listLogicalDevicePorts`, `GetWildcardInputPorts`, `isNNIPort`, `getAnyNNIPort`, `GetNNIPorts`, `getUNILogicalPortNo`) change no state.
- **ONU adapter test fragment.** It is a test fixture with nothing concurrent to check.

## Possible extensions

1. **Faults in LogicalPorts.** `SendChangeEvent` blocking, with a liveness property that every queued event is sent, to show the stall hazard, and failed `Update`/`Delete` calls in the middle of a deletion loop with larger bounds.
2. **The setup result.** A run of its own for "setupLogicalPorts returns nil only if every port was added", with two UNI ports on one child, to show the masked error.
3. **One loop per consumer.** `startConsumers` looks the topic up again, so two pending starters (a re-subscribe, or the orphan race) both start loops on the same entry's consumers; spec section 4.4 says one loop per consumer.
4. **Consumer ownership with two callers.** `ConsumerOwned` also catches the consumers the orphan race leaks; a two-caller, two-partition instance would show both leaks side by side.
