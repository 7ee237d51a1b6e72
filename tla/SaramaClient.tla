---------------------------- MODULE SaramaClient ----------------------------
(***************************************************************************)
(* The topic -> subscribers registry of SaramaClient                       *)
(* (src/kafka/sarama_client.go): Subscribe, UnSubscribe, DeleteTopic and   *)
(* Stop called by application goroutines; the startConsumers goroutine     *)
(* each new subscription spawns; one consumption loop per broker-level     *)
(* consumer; one dispatchToConsumers goroutine per decoded message and one *)
(* send goroutine per subscriber channel.  Every function that takes       *)
(* lockTopicToConsumerChannelMap is one atomic step.  The state is the one *)
(* a successful Start() leaves: admin, producer and consumer handles made, *)
(* an empty map, an empty doneCh of capacity 1.                            *)
(*                                                                         *)
(* Subscriber channels are numbered in creation order; a registry entry    *)
(* (a consumerChannels value) is named by the channel it was created with.*)
(* Broker-level consumers are numbered in creation order.  The broker is   *)
(* abstracted to the stream of messages each open consumer has fetched.    *)
(***************************************************************************)
EXTENDS Naturals, FiniteSets, SliceOps

CONSTANTS
    Topics,         \* topic names
    Callers,        \* application goroutines calling the client
    ConsumerType,   \* sc.consumerType: "partition" or "group"
    NumPartitions,  \* partitions of every topic (consumer.Partitions)
    MaxChannels,    \* bound: subscriber channels made in a behaviour
    MaxConsumers,   \* bound: broker-level consumers opened in a behaviour
    MaxMsgs,        \* bound: messages written to the broker in a behaviour
    StopCalls,      \* how many times the application calls Stop()
    QuiescentStop,  \* TRUE: Stop() is called only with no Subscribe in flight
    Nil

ASSUME ConsumerType \in {"partition", "group"}
ASSUME NumPartitions \in Nat \ {0}
ASSUME {MaxChannels, MaxConsumers, MaxMsgs, StopCalls} \subseteq Nat
ASSUME QuiescentStop \in BOOLEAN

ChanIds     == 1..MaxChannels
ConsumerIds == 1..MaxConsumers
MsgIds      == 1..MaxMsgs
\* A broker message: its offset order is its id; ok is FALSE when its bytes
\* do not unmarshal into an InterContainerMessage.
Msgs        == [id : MsgIds, ok : BOOLEAN]
\* Partition 0 stands for "every partition" (a group consumer).
Parts       == 0..NumPartitions
\* The client's own handles: sc.cAdmin, sc.producer, sc.consumer.
Handles     == {"admin", "producer", "consumer"}

VARIABLES
    registry,       \* topicToConsumerChannelMap: topic -> entry or Nil
    channels,       \* entry -> consumerChannels.channels (a slice)
    consumers,      \* entry -> consumerChannels.consumers
    nextCh,         \* the next subscriber channel make() returns
    closes,         \* channel -> number of close() calls made on it
    kState,         \* broker-level consumer -> "none" | "open" | "closed"
    kCloses,        \* broker-level consumer -> number of Close() calls on it
    kAt,            \* broker-level consumer -> <<topic, partition>>
    nextK,          \* the next broker-level consumer the broker opens
    groupConsumer,  \* sc.groupConsumer: the last group consumer created
    stream,         \* consumer -> messages fetched, not yet read by a loop
    nextMsg,        \* the next message id the broker assigns
    starters,       \* topic -> pending `go sc.startConsumers(topic)`
    loops,          \* bag of running consumption loops <<consumer, entry>>
    dispatchers,    \* pending `go sc.dispatchToConsumers(entry, msg)`
    senders,        \* pending `go func(c) { c <- msg }` of dispatchToConsumers
    marked,         \* messages whose offset MarkOffset committed
    doneCh,         \* tokens in sc.doneCh (capacity 1)
    pc,             \* caller -> where it is inside Subscribe
    arg,            \* caller -> the topic of its Subscribe call
    held,           \* caller -> <<channel, topic>> it got from Subscribe
    stopPc,         \* where the current Stop() call is
    stopsMade,      \* Stop() calls made so far
    fanned,         \* history: consumer -> messages in the order they
                    \* entered fan-out (took the registry lock)
    startPc,        \* "new" (NewSaramaClient), "started", or "failed" (Start erred)
    hState,         \* handle -> "none" (nil) | "open" | "closed"
    hCloses         \* handle -> number of Close() calls on it

clientVars   == <<registry, channels, consumers, nextCh, closes>>
brokerVars   == <<kState, kCloses, kAt, nextK, groupConsumer, stream, nextMsg, marked>>
routineVars  == <<starters, loops, dispatchers, senders, doneCh>>
callerVars   == <<pc, arg, held, stopPc, stopsMade>>
handleVars   == <<startPc, hState, hCloses>>
vars == <<clientVars, brokerVars, routineVars, callerVars, fanned, handleVars>>

-----------------------------------------------------------------------------
(* Helpers *)

IsOpen(ch) == ch < nextCh /\ closes[ch] = 0

\* closes after the close() calls in the sequence cl.
AfterCloses(cl) == [c \in ChanIds |-> closes[c] + CopiesIn(c, ToBag(cl))]

\* Close() on each broker-level consumer of K: its Messages() channel is
\* drained and closed, so a loop reading it receives nil from then on.
\* Its error result changes no state (see closeConsumers in SliceOps).
CloseConsumers(K) ==
    /\ kState' = [k \in ConsumerIds |-> IF k \in K THEN "closed" ELSE kState[k]]
    /\ stream' = [k \in ConsumerIds |-> IF k \in K THEN <<>> ELSE stream[k]]
    /\ kCloses' = [k \in ConsumerIds |-> IF k \in K THEN kCloses[k] + 1 ELSE kCloses[k]]

\* Open the broker-level consumers K = nextK..nextK+|K|-1 on topic t,
\* consumer nextK+i-1 on partition i (or on all partitions when part = 0).
OpenConsumers(K, t, part) ==
    /\ kState' = [k \in ConsumerIds |-> IF k \in K THEN "open" ELSE kState[k]]
    /\ kAt' = [k \in ConsumerIds |->
                 IF k \in K THEN <<t, IF part = 0 THEN 0 ELSE k - nextK + 1>>
                 ELSE kAt[k]]
    /\ nextK' = nextK + Cardinality(K)

\* addTopicToConsumerChannelMap: the registry with entry e for topic t,
\* unless t already has an entry (then e is dropped).
addTopicToConsumerChannelMap(t, e) ==
    IF registry[t] = Nil THEN [registry EXCEPT ![t] = e] ELSE registry

\* The tail of setupPartitionConsumerChannel / setupGroupConsumerChannel
\* once its consumers K are open: a new entry with one new channel, added
\* to the map, `go sc.startConsumers(topic)`, the channel returned.
RegisterEntry(c, t, K) ==
    LET e == nextCh IN
    /\ nextCh' = nextCh + 1
    /\ channels' = [channels EXCEPT ![e] = <<e>>]
    /\ consumers' = [consumers EXCEPT ![e] = K]
    /\ registry' = addTopicToConsumerChannelMap(t, e)
    /\ starters' = [starters EXCEPT ![t] = @ + 1]
    /\ held' = [held EXCEPT ![c] = @ \cup {<<e, t>>}]

\* The lock-held part of clearTopicFromConsumerChannelMap and
\* clearConsumerChannelMap for the entries E: the clear loop over each
\* entry's channels (SliceOps!ClearLoop, swapping in place), Close() on
\* every consumer; deleting the entries is left to the caller.
ClearEntries(E) ==
    LET cl == [e \in E |-> ClearLoop(channels[e])]
    IN  /\ channels' = [e \in ChanIds |-> IF e \in E THEN cl[e].array ELSE channels[e]]
        /\ closes' = [c \in ChanIds |->
                        closes[c] + SumFunctionOnSet([e \in E |-> CopiesIn(c, ToBag(cl[e].closes))], E)]
        /\ CloseConsumers(UNION {consumers[e] : e \in E})

-----------------------------------------------------------------------------
(* Initial state: NewSaramaClient() made the client; no handle exists yet. *)

Init ==
    /\ registry = [t \in Topics |-> Nil]
    /\ channels = [e \in ChanIds |-> <<>>]
    /\ consumers = [e \in ChanIds |-> {}]
    /\ nextCh = 1
    /\ closes = [c \in ChanIds |-> 0]
    /\ kState = [k \in ConsumerIds |-> "none"]
    /\ kCloses = [k \in ConsumerIds |-> 0]
    /\ kAt = [k \in ConsumerIds |-> Nil]
    /\ nextK = 1
    /\ groupConsumer = Nil
    /\ stream = [k \in ConsumerIds |-> <<>>]
    /\ nextMsg = 1
    /\ starters = [t \in Topics |-> 0]
    /\ loops = EmptyBag
    /\ dispatchers = {}
    /\ senders = {}
    /\ marked = {}
    /\ doneCh = 0
    /\ pc = [c \in Callers |-> "idle"]
    /\ arg = [c \in Callers |-> Nil]
    /\ held = [c \in Callers |-> {}]
    /\ stopPc = "running"
    /\ stopsMade = 0
    /\ fanned = [k \in ConsumerIds |-> <<>>]
    /\ startPc = "new"
    /\ hState = [h \in Handles |-> "none"]
    /\ hCloses = [h \in Handles |-> 0]
-----------------------------------------------------------------------------
(* Application calls *)

\* createClusterAdmin, createPublisher, createConsumer: each sets its field
\* of sc only when the broker library returned no error (ok); the result
\* is the set of handles it made.
createClusterAdmin(ok) == IF ok THEN {"admin"} ELSE {}
createPublisher(ok)    == IF ok THEN {"producer"} ELSE {}
createConsumer(ok)     == IF ok THEN {"consumer"} ELSE {}

\* Start(): makes doneCh, then calls the three in that order, returning the
\* first error without closing what was already created; on success it
\* makes the empty map.
Start ==
    /\ startPc = "new"
    /\ \E okA, okP, okC \in BOOLEAN :
         LET made == createClusterAdmin(okA)
                     \cup (IF okA THEN createPublisher(okP) ELSE {})
                     \cup (IF okA /\ okP THEN createConsumer(okC) ELSE {})
         IN /\ hState' = [h \in Handles |-> IF h \in made THEN "open" ELSE "none"]
            /\ startPc' = IF okA /\ okP /\ okC THEN "started" ELSE "failed"
    /\ UNCHANGED <<clientVars, brokerVars, routineVars, callerVars, fanned, hCloses>>

\* getConsumerChannel: the topic's entry, read under the lock.
getConsumerChannel(t) == registry[t]

\* Subscribe(topic), up to getConsumerChannel: the registry is read under
\* the lock, which is released before the next step uses what it saw.
\* ChannelBudget keeps one channel per Subscribe in flight.
Subscribe(c, t) ==
    /\ startPc = "started"
    /\ stopPc = "running"
    /\ pc[c] = "idle"
    /\ nextCh + Cardinality({d \in Callers : pc[d] # "idle"}) <= MaxChannels
    /\ pc' = [pc EXCEPT ![c] = IF getConsumerChannel(t) # Nil THEN "sub_existing" ELSE "sub_new"]
    /\ arg' = [arg EXCEPT ![c] = t]
    /\ UNCHANGED <<clientVars, brokerVars, routineVars, held, stopPc, stopsMade, fanned, handleVars>>

\* Subscribe on a topic it found subscribed: make a channel and
\* addChannelToConsumerChannelMap, which appends it to the topic's entry if
\* there is one by now, and only logs a warning otherwise; the channel is
\* returned either way.
SubscribeExisting(c) ==
    LET t  == arg[c]
        ch == nextCh
    IN  /\ pc[c] = "sub_existing"
        /\ nextCh' = nextCh + 1
        /\ channels' = IF registry[t] # Nil
                       THEN [channels EXCEPT ![registry[t]] = Append(@, ch)]
                       ELSE channels
        /\ held' = [held EXCEPT ![c] = @ \cup {<<ch, t>>}]
        /\ pc' = [pc EXCEPT ![c] = "idle"]
        /\ arg' = [arg EXCEPT ![c] = Nil]
        /\ UNCHANGED <<registry, consumers, closes, brokerVars, routineVars,
                       stopPc, stopsMade, fanned, handleVars>>

\* Subscribe on a topic it found unsubscribed, partition consumer type:
\* CreateTopic when autoCreateTopic, then setupPartitionConsumerChannel.
\* createPartionConsumers opens one PartitionConsumer per partition at the
\* newest offset and returns at the first ConsumePartition error, leaving
\* the ones already opened open.  n is how many it opened; n = 0 also
\* covers a CreateTopic or Partitions() error.
SubscribePartition(c) ==
    LET t == arg[c] IN
    /\ ConsumerType = "partition"
    /\ pc[c] = "sub_new"
    /\ \E n \in 0..NumPartitions :
         LET K == nextK..(nextK + n - 1) IN
         /\ nextK + n <= MaxConsumers + 1
         /\ OpenConsumers(K, t, 1)
         /\ IF n = NumPartitions
            THEN RegisterEntry(c, t, K)
            ELSE UNCHANGED <<nextCh, channels, consumers, registry, starters, held>>
    /\ pc' = [pc EXCEPT ![c] = "idle"]
    /\ arg' = [arg EXCEPT ![c] = Nil]
    /\ UNCHANGED <<closes, kCloses, groupConsumer, stream, nextMsg, marked, loops,
                   dispatchers, senders, doneCh, stopPc, stopsMade, fanned, handleVars>>

\* createGroupConsumer: a new group consumer over all partitions of t,
\* which also becomes sc.groupConsumer.
createGroupConsumer(t) ==
    /\ OpenConsumers({nextK}, t, 0)
    /\ groupConsumer' = nextK

\* Mutant: the error of createGroupConsumer is not checked, and the nil
\* consumer it returned is stored in the new entry.
SubscribeGroupIgnoreError(c) ==
    LET t == arg[c] IN
    /\ ConsumerType = "group"
    /\ pc[c] = "sub_new"
    /\ \/ /\ nextK <= MaxConsumers
          /\ createGroupConsumer(t)
          /\ RegisterEntry(c, t, {nextK})
       \/ /\ RegisterEntry(c, t, {Nil})
          /\ UNCHANGED <<kState, kAt, nextK, groupConsumer>>
    /\ pc' = [pc EXCEPT ![c] = "idle"]
    /\ arg' = [arg EXCEPT ![c] = Nil]
    /\ UNCHANGED <<closes, kCloses, stream, nextMsg, marked, loops, dispatchers,
                   senders, doneCh, stopPc, stopsMade, fanned, handleVars>>

\* Subscribe on a topic it found unsubscribed, group consumer type:
\* setupGroupConsumerChannel; createGroupConsumer opens one group consumer
\* over all partitions and also stores it in sc.groupConsumer.
SubscribeGroup(c) ==
    LET t == arg[c] IN
    /\ ConsumerType = "group"
    /\ pc[c] = "sub_new"
    /\ \/ /\ nextK <= MaxConsumers
          /\ createGroupConsumer(t)
          /\ RegisterEntry(c, t, {nextK})
       \/ /\ UNCHANGED <<clientVars, kState, kAt, nextK, groupConsumer,
                         starters, held>>
    /\ pc' = [pc EXCEPT ![c] = "idle"]
    /\ arg' = [arg EXCEPT ![c] = Nil]
    /\ UNCHANGED <<closes, kCloses, stream, nextMsg, marked, loops, dispatchers,
                   senders, doneCh, stopPc, stopsMade, fanned, handleVars>>

\* Mutant: the entry left without channels is deleted, its consumers are
\* not closed.
UnSubscribeKeepConsumers(c, ch, t) ==
    /\ stopPc = "running"
    /\ pc[c] = "idle"
    /\ <<ch, t>> \in held[c]
    /\ held' = [held EXCEPT ![c] = @ \ {<<ch, t>>}]
    /\ IF registry[t] # Nil
       THEN LET e    == registry[t]
                rest == removeChannel(channels[e], ch)
            IN  /\ channels' = [channels EXCEPT ![e] = rest]
                /\ closes' = AfterCloses(IF Contains(channels[e], ch) THEN <<ch>> ELSE <<>>)
                /\ registry' = IF rest = <<>> THEN [registry EXCEPT ![t] = Nil] ELSE registry
       ELSE UNCHANGED <<channels, closes, registry>>
    /\ UNCHANGED <<consumers, nextCh, brokerVars, routineVars, pc, arg, stopPc,
                   stopsMade, fanned, handleVars>>

\* UnSubscribe(topic, ch) = removeChannelFromConsumerChannelMap, under the
\* lock: removeChannel drops and closes ch if it is in the topic's entry;
\* an entry left without channels has its consumers closed and is deleted.
\* With no entry for the topic it returns "topic-does-not-exist".  The
\* caller is done with ch either way.
UnSubscribe(c, ch, t) ==
    /\ stopPc = "running"
    /\ pc[c] = "idle"
    /\ <<ch, t>> \in held[c]
    /\ held' = [held EXCEPT ![c] = @ \ {<<ch, t>>}]
    /\ IF registry[t] # Nil
       THEN LET e    == registry[t]
                rest == removeChannel(channels[e], ch)
            IN  /\ channels' = [channels EXCEPT ![e] = rest]
                /\ closes' = AfterCloses(IF Contains(channels[e], ch) THEN <<ch>> ELSE <<>>)
                /\ IF rest = <<>>
                   THEN /\ CloseConsumers(consumers[e])
                        /\ registry' = [registry EXCEPT ![t] = Nil]
                   ELSE UNCHANGED <<kState, kCloses, stream, registry>>
       ELSE UNCHANGED <<channels, closes, kState, kCloses, stream, registry>>
    /\ UNCHANGED <<consumers, nextCh, kAt, nextK, groupConsumer, nextMsg, marked,
                   routineVars, pc, arg, stopPc, stopsMade, fanned, handleVars>>

\* DeleteTopic(topic) when the broker deleted it (ErrUnknownTopicOrPartition
\* and other errors return before touching the registry):
\* clearTopicFromConsumerChannelMap closes the entry's channels and
\* consumers and deletes the entry.  Callers keep the channels they hold.
DeleteTopic(c, t) ==
    /\ stopPc = "running"
    /\ pc[c] = "idle"
    /\ registry[t] # Nil
    /\ ClearEntries({registry[t]})
    /\ registry' = [registry EXCEPT ![t] = Nil]
    /\ UNCHANGED <<consumers, nextCh, kAt, nextK, groupConsumer, nextMsg, marked,
                   routineVars, callerVars, fanned, handleVars>>

\* The application calls Stop() once Start() returned, whether or not it
\* succeeded (again, after a Stop() returned, when StopCalls > 1), with or
\* without a Subscribe call in flight.  Before Start() doneCh is nil and
\* Stop() would block for good; the application does not do that.
StopCall ==
    /\ startPc # "new"
    /\ stopPc \in {"running", "stopped"}
    /\ stopsMade < StopCalls
    /\ QuiescentStop => \A c \in Callers : pc[c] = "idle"
    /\ stopPc' = "calling"
    /\ stopsMade' = stopsMade + 1
    /\ UNCHANGED <<clientVars, brokerVars, routineVars, pc, arg, held, fanned, handleVars>>

\* Stop(), first statement: `sc.doneCh <- 1`, blocking while doneCh holds
\* the token of an earlier Stop() that no loop took.
StopSignal ==
    /\ stopPc = "calling"
    /\ doneCh = 0
    /\ doneCh' = 1
    /\ stopPc' = "signalled"
    /\ UNCHANGED <<clientVars, brokerVars, starters, loops, dispatchers,
                   senders, pc, arg, held, stopsMade, fanned, handleVars>>

\* Stop() closes the producer, the master consumer, sc.groupConsumer and
\* the admin handle, each one that is not nil (closed or not); a Close()
\* error panics (not modelled).
CloseHandles(H) ==
    /\ hState' = [h \in Handles |-> IF h \in H THEN "closed" ELSE hState[h]]
    /\ hCloses' = [h \in Handles |-> IF h \in H THEN hCloses[h] + 1 ELSE hCloses[h]]

StopGroupConsumer ==
    IF groupConsumer # Nil
    THEN CloseConsumers({groupConsumer})
    ELSE UNCHANGED <<kState, kCloses, stream>>

StopHandles ==
    /\ stopPc = "signalled"
    /\ StopGroupConsumer
    /\ CloseHandles({h \in Handles : hState[h] # "none"})
    /\ stopPc' = "handles_closed"
    /\ UNCHANGED <<clientVars, kAt, nextK, groupConsumer, nextMsg, marked,
                   routineVars, pc, arg, held, stopsMade, fanned, startPc>>

\* Mutant: clears the channels and the map but closes no consumer.
clearMapKeepConsumers ==
    LET E  == {registry[t] : t \in {u \in Topics : registry[u] # Nil}}
        cl == [e \in E |-> ClearLoop(channels[e])]
    IN  /\ channels' = [e \in ChanIds |-> IF e \in E THEN cl[e].array ELSE channels[e]]
        /\ closes' = [c \in ChanIds |->
                        closes[c] + SumFunctionOnSet([e \in E |-> CopiesIn(c, ToBag(cl[e].closes))], E)]
        /\ UNCHANGED <<kState, stream, kCloses>>
        /\ registry' = [t \in Topics |-> Nil]

\* Stop(), last statement: clearConsumerChannelMap clears every entry.
clearConsumerChannelMap ==
    /\ ClearEntries({registry[t] : t \in {u \in Topics : registry[u] # Nil}})
    /\ registry' = [t \in Topics |-> Nil]

StopClear ==
    /\ stopPc = "handles_closed"
    /\ clearConsumerChannelMap
    /\ stopPc' = "stopped"
    /\ UNCHANGED <<consumers, nextCh, kAt, nextK, groupConsumer, nextMsg, marked,
                   routineVars, pc, arg, held, stopsMade, fanned, handleVars>>

-----------------------------------------------------------------------------
(* Goroutines of the client *)

\* startConsumers(topic): looks the topic up again (getConsumerChannel) and
\* starts one consumption loop per consumer of the entry it finds now, or
\* returns "consumers-not-exist".
startConsumers(t) ==
    /\ starters[t] > 0
    /\ starters' = [starters EXCEPT ![t] = @ - 1]
    /\ loops' = IF getConsumerChannel(t) # Nil
                THEN loops (+) SetToBag({<<k, getConsumerChannel(t)>> :
                                         k \in consumers[getConsumerChannel(t)]})
                ELSE loops
    /\ UNCHANGED <<clientVars, brokerVars, dispatchers, senders, doneCh,
                   callerVars, fanned, handleVars>>

\* `go sc.dispatchToConsumers(consumerChnls, icm)`: the entry the loop was
\* started with, the message, and (for the history) the consumer.
DispatchJob(l, id) == [e |-> l[2], m |-> id, k |-> l[1]]

\* consumeFromAPartition / consumeGroupMessages, a non-nil message: it is
\* unmarshalled; an invalid one is dropped, a valid one is handed to
\* `go sc.dispatchToConsumers` and, by a group consumer, MarkOffset'd.
LoopMessage(l) ==
    LET k == l[1]
        m == Head(stream[k])
    IN  /\ stream[k] # <<>>
        /\ stream' = [stream EXCEPT ![k] = Tail(@)]
        /\ IF m.ok
           THEN /\ dispatchers' = dispatchers \cup {DispatchJob(l, m.id)}
                /\ marked' = IF ConsumerType = "group" THEN marked \cup {m.id} ELSE marked
           ELSE UNCHANGED <<dispatchers, marked>>
        /\ UNCHANGED <<clientVars, kState, kCloses, kAt, nextK, groupConsumer, nextMsg,
                       starters, loops, senders, doneCh, callerVars, fanned, handleVars>>

\* The loop reads nil from the Messages() channel of a closed consumer and
\* breaks out.
LoopNil(l) ==
    /\ kState[l[1]] = "closed"
    /\ loops' = loops (-) SetToBag({l})
    /\ UNCHANGED <<clientVars, brokerVars, starters, dispatchers, senders,
                   doneCh, callerVars, fanned, handleVars>>

\* The loop takes the token from doneCh and breaks out.
LoopDone(l) ==
    /\ doneCh = 1
    /\ doneCh' = 0
    /\ loops' = loops (-) SetToBag({l})
    /\ UNCHANGED <<clientVars, brokerVars, starters, dispatchers, senders,
                   callerVars, fanned, handleVars>>

\* dispatchToConsumers(consumerCh, msg), under the lock: one send
\* goroutine per channel now in the entry it was given (the entry may have
\* been deleted from the map since).
dispatchToConsumers(d) ==
    /\ dispatchers' = dispatchers \ {d}
    /\ senders' = senders \cup {[ch |-> c, m |-> d.m] : c \in ToSet(channels[d.e])}
    /\ fanned' = [fanned EXCEPT ![d.k] = Append(@, d.m)]
    /\ UNCHANGED <<clientVars, brokerVars, starters, loops, doneCh, callerVars, handleVars>>

\* A send goroutine's `c <- protoMessage` completes: the subscriber took
\* the message from its unbuffered channel.
Deliver(s) ==
    /\ closes[s.ch] = 0
    /\ senders' = senders \ {s}
    /\ UNCHANGED <<clientVars, brokerVars, starters, loops, dispatchers, doneCh,
                   callerVars, fanned, handleVars>>

-----------------------------------------------------------------------------
(* The broker *)

\* A message is written to partition p of topic t (by this client's Send or
\* another producer; ok = FALSE for bytes that do not unmarshal).  Every
\* open partition consumer of <<t, p>> fetches it, and so does one open
\* group consumer of t if there is one (the group assigns p to one member).
Produce(t, p, ok) ==
    LET m  == [id |-> nextMsg, ok |-> ok]
        PK == {k \in ConsumerIds : kState[k] = "open" /\ kAt[k] = <<t, p>>}
        GK == {k \in ConsumerIds : kState[k] = "open" /\ kAt[k] = <<t, 0>>}
    IN  /\ nextMsg <= MaxMsgs
        /\ nextMsg' = nextMsg + 1
        /\ \E g \in IF GK = {} THEN {Nil} ELSE GK :
             stream' = [k \in ConsumerIds |->
                          IF k \in PK \/ k = g THEN Append(stream[k], m) ELSE stream[k]]
        /\ UNCHANGED <<clientVars, kState, kCloses, kAt, nextK, groupConsumer, marked,
                       routineVars, callerVars, fanned, handleVars>>

\* After Stop() the client is finished.
Finished ==
    /\ stopPc = "stopped"
    /\ UNCHANGED vars

-----------------------------------------------------------------------------

Next ==
    \/ Start
    \/ \E c \in Callers, t \in Topics : Subscribe(c, t)
    \/ \E c \in Callers : SubscribeExisting(c)
    \/ \E c \in Callers : SubscribePartition(c)
    \/ \E c \in Callers : SubscribeGroup(c)
    \/ \E c \in Callers : \E h \in held[c] : UnSubscribe(c, h[1], h[2])
    \/ \E c \in Callers, t \in Topics : DeleteTopic(c, t)
    \/ StopCall
    \/ StopSignal
    \/ StopHandles
    \/ StopClear
    \/ \E t \in Topics : startConsumers(t)
    \/ \E l \in BagToSet(loops) : LoopMessage(l) \/ LoopNil(l) \/ LoopDone(l)
    \/ \E d \in dispatchers : dispatchToConsumers(d)
    \/ \E s \in senders : Deliver(s)
    \/ \E t \in Topics, p \in 1..NumPartitions, ok \in BOOLEAN : Produce(t, p, ok)
    \/ Finished

\* The Go scheduler runs every runnable goroutine: Stop() runs to its end,
\* a started startConsumers runs, and a loop whose consumer is closed or
\* whose doneCh holds a token takes that select case.
LoopExit(l) == l \in BagToSet(loops) /\ (LoopNil(l) \/ LoopDone(l))

Fairness ==
    /\ WF_vars(StopSignal)
    /\ WF_vars(StopHandles)
    /\ WF_vars(StopClear)
    /\ \A t \in Topics : WF_vars(startConsumers(t))
    /\ \A l \in ConsumerIds \X ChanIds : WF_vars(LoopExit(l))

Spec == Init /\ [][Next]_vars /\ Fairness
-----------------------------------------------------------------------------
(* Properties *)

TypeOK ==
    /\ registry \in [Topics -> ChanIds \cup {Nil}]
    /\ channels \in [ChanIds -> Seq(ChanIds)]
    /\ consumers \in [ChanIds -> SUBSET ConsumerIds]
    /\ nextCh \in 1..(MaxChannels + 1)
    /\ closes \in [ChanIds -> Nat]
    /\ kState \in [ConsumerIds -> {"none", "open", "closed"}]
    /\ kCloses \in [ConsumerIds -> Nat]
    /\ kAt \in [ConsumerIds -> (Topics \X Parts) \cup {Nil}]
    /\ nextK \in 1..(MaxConsumers + 1)
    /\ groupConsumer \in ConsumerIds \cup {Nil}
    /\ stream \in [ConsumerIds -> Seq(Msgs)]
    /\ nextMsg \in 1..(MaxMsgs + 1)
    /\ starters \in [Topics -> Nat]
    /\ IsABag(loops) /\ BagToSet(loops) \subseteq ConsumerIds \X ChanIds
    /\ dispatchers \subseteq [e : ChanIds, m : MsgIds, k : ConsumerIds]
    /\ senders \subseteq [ch : ChanIds, m : MsgIds]
    /\ marked \subseteq MsgIds
    /\ doneCh \in 0..1
    /\ pc \in [Callers -> {"idle", "sub_existing", "sub_new"}]
    /\ arg \in [Callers -> Topics \cup {Nil}]
    /\ held \in [Callers -> SUBSET (ChanIds \X Topics)]
    /\ stopPc \in {"running", "calling", "signalled", "handles_closed", "stopped"}
    /\ stopsMade \in 0..StopCalls
    /\ fanned \in [ConsumerIds -> Seq(MsgIds)]
    /\ startPc \in {"new", "started", "failed"}
    /\ hState \in [Handles -> {"none", "open", "closed"}]
    /\ hCloses \in [Handles -> Nat]

(* Spec section 3: a registry entry exists only while it is deliverable.   *)
(* While the client runs, the entry of every subscribed topic has at least *)
(* one channel, all its channels are open (not yet closed by UnSubscribe,  *)
(* DeleteTopic or Stop) and all its broker-level consumers are open.       *)
(* UnSubscribe, DeleteTopic and the Subscribe paths must each keep this.   *)
RegistryWellFormed ==
    stopPc = "running" =>
        \A t \in Topics : registry[t] # Nil =>
            LET e == registry[t] IN
            /\ channels[e] # <<>>
            /\ \A i \in DOMAIN channels[e] : IsOpen(channels[e][i])
            /\ \A k \in consumers[e] : kState[k] = "open"

(* Spec section 8: Stop() returns, terminates every consumption loop and   *)
(* leaves the registry empty.  Its single                                  *)
(* doneCh token stops one loop; the others must end because                *)
(* clearConsumerChannelMap closes their consumers; a token no loop took    *)
(* stays in doneCh.                                                        *)
StopEndsConsumption ==
    stopPc = "calling" ~>
        (stopPc = "stopped" /\ BagToSet(loops) = {} /\ \A t \in Topics : registry[t] = Nil)

(* Spec section 8: once Stop() has returned the registry is empty and     *)
(* every broker-level consumer is closed, and it stays so: no Subscribe    *)
(* that was already past its lookup when Stop() ran may register an entry  *)
(* or open a consumer afterwards.                                          *)
StopLeavesNoEntry ==
    stopPc = "stopped" =>
        /\ \A t \in Topics : registry[t] = Nil
        /\ \A k \in ConsumerIds : kState[k] # "open"

(* No send goroutine of dispatchToConsumers is blocked on, or starts on, a *)
(* channel that has been closed: in Go that send panics and takes the      *)
(* process down.                                                           *)
NoSendOnClosedChannel ==
    \A s \in senders : closes[s.ch] = 0

(* Spec section 8, fan-out completeness: every channel a Subscribe call    *)
(* returned, still open and not yet given to UnSubscribe, is in the        *)
(* registry entry of its topic, so it receives the topic's messages.       *)
SubscribedChannelRegistered ==
    \A c \in Callers : \A h \in held[c] :
        IsOpen(h[1]) =>
            /\ registry[h[2]] # Nil
            /\ Contains(channels[registry[h[2]]], h[1])

(* Spec section 5: within one broker-level consumer, messages are          *)
(* dispatched in broker arrival order into the fan-out step.  A consumer   *)
(* fetches messages in id order, so the order they take the registry lock  *)
(* in dispatchToConsumers must be increasing.                              *)
DispatchInArrivalOrder ==
    \A k \in ConsumerIds : IsSorted(fanned[k], <)

(* Spec section 8: calling Stop() twice must not double-close handles.     *)
(* Every broker-level consumer gets Close() at most once, whether it is    *)
(* closed by UnSubscribe, DeleteTopic, Stop's sc.groupConsumer.Close() or  *)
(* clearConsumerChannelMap.                                                *)
(* Likewise sc.cAdmin, sc.producer and sc.consumer, which Stop() closes   *)
(* whenever they are not nil and never sets back to nil.                   *)
ConsumerClosedOnce ==
    /\ \A k \in ConsumerIds : kCloses[k] <= 1
    /\ \A h \in Handles : hCloses[h] <= 1


(* Spec section 5: every broker-level consumer is owned by exactly one     *)
(* registry entry, the entry of its topic, for as long as it is open.      *)
(* Subscribe must register every consumer it opened or close it again;     *)
(* UnSubscribe, DeleteTopic and Stop must close the consumers of every     *)
(* entry they delete.  An open consumer outside the registry is fetched    *)
(* from the broker and never closed.                                       *)
ConsumerOwned ==
    \A k \in ConsumerIds : kState[k] = "open" =>
        LET t == kAt[k][1] IN
        registry[t] # Nil /\ k \in consumers[registry[t]]
=============================================================================
