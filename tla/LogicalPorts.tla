---------------------------- MODULE LogicalPorts ----------------------------
(***************************************************************************)
(* The logical ports of a LogicalAgent (src/unnamed/part_000, package      *)
(* device): the port map behind agent.portLoader, the operations that add, *)
(* modify and delete ports, and orderedEvents, the chain of channels that  *)
(* makes their port-change events reach the OpenFlow controller in the     *)
(* order their queue positions were taken.                                 *)
(*                                                                         *)
(* Every portLoader.Lock / LockOrCreate ... Unlock region is one step: the *)
(* per-port lock serialises them.  The queue position of an event is taken *)
(* inside that step, except in deleteAllLogicalPorts, which unlocks the    *)
(* port before it sends the event; its loop is split there.  Each taken    *)
(* position is sent by its own goroutine (queuePosition.send), which waits *)
(* for the previous position's channel to be closed.                       *)
(***************************************************************************)
EXTENDS Naturals, FiniteSets, Sequences, SequencesExt

CONSTANTS
    Threads,        \* goroutines calling into the agent (gRPC, device events)
    PortIds,        \* logical port numbers
    DeviceOf,       \* DeviceOf[p]: the device whose port p represents
    Ops,            \* the agent operations the callers use
    MaxEvents,      \* operations start only while fewer positions are taken
    RootDevice,     \* agent.rootDeviceID: the OLT; the other devices are its children
    MaxKids,        \* bound: setupLogicalPorts goroutines made in a behaviour
    Nil

(* The part of an OfpPort the operations change: the OFPPC_PORT_DOWN bit   *)
(* of Config and whether State is OFPPS_LIVE.                              *)
Descs   == [down : BOOLEAN, live : BOOLEAN]
Reasons == {"ADD", "DELETE", "MODIFY"}
Event   == [reason : Reasons, port : PortIds, desc : Descs]
Devices == {DeviceOf[p] : p \in PortIds}
Children == Devices \ {RootDevice}
KidIds  == 1..MaxKids
\* A setupLogicalPorts goroutine: the child device it sets up, where it is
\* ("list": in listDevicePorts, "blocked": that call never returns, as
\* its context.Background() has no deadline) and the UNI ports left.
Kid     == [dev : Children, st : {"list", "ports", "done", "blocked"},
            todo : SUBSET PortIds]

\* Every deletion or setup loop, of a caller or of a setup goroutine, adds
\* at most one position per port after the cap.
MaxPositions == MaxEvents + Cardinality(PortIds) * (Cardinality(Threads) + MaxKids)

VARIABLES
    ports,          \* ports[p]: the stored LogicalPort's OfpPort, or Nil
    positions,      \* events of the queue positions taken, in chain order
    closedCh,       \* positions whose qp.next channel is closed
    sent,           \* events passed to SendChangeEvent, in order
    pc,             \* where each caller is
    todo,           \* the port ids a deletion loop has still to visit
    held,           \* deleteAllLogicalPorts: the deleted port's event
    serr,           \* setupNNILogicalPorts: err of the last addNNILogicalPort
    kids,           \* setupLogicalPorts goroutines: id -> Kid or Nil
    nextKid,        \* the id of the next goroutine
    waitOn          \* the goroutines whose responses a caller waits for

setupVars == <<serr, kids, nextKid, waitOn>>
vars == <<ports, positions, closedCh, sent, pc, todo, held, setupVars>>

Init ==
    /\ ports = [p \in PortIds |-> Nil]
    /\ positions = <<>>
    /\ closedCh = {}
    /\ sent = <<>>
    /\ pc = [t \in Threads |-> "idle"]
    /\ todo = [t \in Threads |-> {}]
    /\ held = [t \in Threads |-> Nil]
    /\ serr = [t \in Threads |-> FALSE]
    /\ kids = [i \in KidIds |-> Nil]
    /\ nextKid = 1
    /\ waitOn = [t \in Threads |-> {}]

-----------------------------------------------------------------------------
(* Port descriptions *)

\* clonePortSetState: ACTIVE clears PORT_DOWN and sets LIVE, any other
\* status sets PORT_DOWN and LINK_DOWN.
clonePortSetState(d, active) == [down |-> ~active, live |-> active]

\* enableLogicalPort clears PORT_DOWN, disableLogicalPort sets it.
SetPortDown(d, down) == [d EXCEPT !.down = down]

\* The new description each modifying operation stores and sends.
NewDesc(op, d) ==
    CASE op = "active"  -> clonePortSetState(d, TRUE)
      [] op = "down"    -> clonePortSetState(d, FALSE)
      [] op = "enable"  -> SetPortDown(d, FALSE)
      [] op = "disable" -> SetPortDown(d, TRUE)

ModifyOps == {"active", "down", "enable", "disable"}

\* assignQueuePosition: under e.mutex, the new position's prev is e.last
\* and e.last becomes its next; the positions form a chain in this order.
assignQueuePosition(e) == positions' = Append(positions, e)

Ev(reason, p, d) == [reason |-> reason, port |-> p, desc |-> d]

\* LockOrCreate made a new port p: its ADD position is taken under the lock
\* and a goroutine sets up routes and then sends it.
CreatePort(p) ==
    \E d \in Descs :
        /\ ports' = [ports EXCEPT ![p] = d]
        /\ assignQueuePosition(Ev("ADD", p, d))

-----------------------------------------------------------------------------
(* Operations of the agent *)

\* Mutant: the port is created and announced even if it already exists.
addIgnoreCreated(t, p) ==
    /\ "add" \in Ops
    /\ pc[t] = "idle"
    /\ Len(positions) < MaxEvents
    /\ \E d \in Descs :
         /\ ports' = [ports EXCEPT ![p] = d]
         /\ assignQueuePosition(Ev("ADD", p, d))
    /\ UNCHANGED <<closedCh, sent, pc, todo, held, setupVars>>

\* addNNILogicalPort / addUNILogicalPort: LockOrCreate creates the port
\* (a port that exists is left alone), the ADD position is taken under the
\* lock, and a goroutine sets up routes and then sends it.  The UNI
\* version first returns if the child device is not enabled and active,
\* which changes nothing.
addLogicalPort(t, p) ==
    /\ "add" \in Ops
    /\ pc[t] = "idle"
    /\ Len(positions) < MaxEvents
    /\ ports[p] = Nil
    /\ CreatePort(p)
    /\ UNCHANGED <<closedCh, sent, pc, todo, held, setupVars>>

\* Mutant: the event carries the description read before the update.
modifyStaleEvent(t, p, op) ==
    /\ "modify" \in Ops
    /\ pc[t] = "idle"
    /\ Len(positions) < MaxEvents
    /\ ports[p] # Nil
    /\ ports' = [ports EXCEPT ![p] = NewDesc(op, @)]
    /\ assignQueuePosition(Ev("MODIFY", p, ports[p]))
    /\ UNCHANGED <<closedCh, sent, pc, todo, held, setupVars>>

\* updatePortState / enableLogicalPort / disableLogicalPort: NotFound if
\* the port does not exist; otherwise, under its lock, the new description
\* is stored and the MODIFY position taken (orderedEvents.send).  A failed
\* Update returns with nothing changed.
modifyLogicalPort(t, p, op) ==
    /\ "modify" \in Ops
    /\ pc[t] = "idle"
    /\ Len(positions) < MaxEvents
    /\ ports[p] # Nil
    /\ ports' = [ports EXCEPT ![p] = NewDesc(op, @)]
    /\ assignQueuePosition(Ev("MODIFY", p, NewDesc(op, ports[p])))
    /\ UNCHANGED <<closedCh, sent, pc, todo, held, setupVars>>

\* deleteLogicalPorts(deviceID) takes the ids of the device's ports
\* (ListIDsForDevice) ...
deleteLogicalPortsStart(t, dev) ==
    /\ "delete" \in Ops
    /\ pc[t] = "idle"
    /\ Len(positions) < MaxEvents
    /\ pc' = [pc EXCEPT ![t] = "dl"]
    /\ todo' = [todo EXCEPT ![t] = {p \in PortIds : ports[p] # Nil /\ DeviceOf[p] = dev}]
    /\ UNCHANGED <<ports, positions, closedCh, sent, held, setupVars>>

\* ... and visits them in map order: under the port's lock it deletes the
\* port and takes the DELETE position; a failed Delete unlocks and returns.
\* A port gone since the listing is skipped.
deleteLogicalPortsStep(t, p) ==
    /\ pc[t] = "dl"
    /\ p \in todo[t]
    /\ IF ports[p] = Nil
       THEN /\ todo' = [todo EXCEPT ![t] = @ \ {p}]
            /\ UNCHANGED <<ports, positions, pc>>
       ELSE \/ /\ ports' = [ports EXCEPT ![p] = Nil]
               /\ assignQueuePosition(Ev("DELETE", p, ports[p]))
               /\ todo' = [todo EXCEPT ![t] = @ \ {p}]
               /\ UNCHANGED pc
            \/ /\ pc' = [pc EXCEPT ![t] = "idle"]
               /\ todo' = [todo EXCEPT ![t] = {}]
               /\ UNCHANGED <<ports, positions>>
    /\ UNCHANGED <<closedCh, sent, held, setupVars>>

\* The loop is over; the route rebuild goroutine is not modelled.
deleteLogicalPortsEnd(t) ==
    /\ pc[t] = "dl"
    /\ todo[t] = {}
    /\ pc' = [pc EXCEPT ![t] = "idle"]
    /\ UNCHANGED <<ports, positions, closedCh, sent, todo, held, setupVars>>

\* deleteAllLogicalPorts takes every port id (ListIDs) ...
deleteAllLogicalPortsStart(t) ==
    /\ "deleteAll" \in Ops
    /\ pc[t] = "idle"
    /\ Len(positions) < MaxEvents
    /\ pc' = [pc EXCEPT ![t] = "da"]
    /\ todo' = [todo EXCEPT ![t] = {p \in PortIds : ports[p] # Nil}]
    /\ UNCHANGED <<ports, positions, closedCh, sent, held, setupVars>>

\* Mutant: the port is read after Delete, when the handle holds nothing.
deleteAllReadAfterDelete(t, p) ==
    /\ pc[t] = "da"
    /\ p \in todo[t]
    /\ todo' = [todo EXCEPT ![t] = @ \ {p}]
    /\ ports[p] # Nil
    /\ ports' = [ports EXCEPT ![p] = Nil]
    /\ held' = [held EXCEPT ![t] = Ev("DELETE", p, Nil)]
    /\ pc' = [pc EXCEPT ![t] = "da_send"]
    /\ UNCHANGED <<positions, closedCh, sent, setupVars>>

\* ... and for each: Lock, read oldPort, Delete, Unlock; on error return.
deleteAllLogicalPortsLock(t, p) ==
    /\ pc[t] = "da"
    /\ p \in todo[t]
    /\ IF ports[p] = Nil
       THEN /\ todo' = [todo EXCEPT ![t] = @ \ {p}]
            /\ UNCHANGED <<ports, pc, held>>
       ELSE \/ /\ ports' = [ports EXCEPT ![p] = Nil]
               /\ held' = [held EXCEPT ![t] = Ev("DELETE", p, ports[p])]
               /\ todo' = [todo EXCEPT ![t] = @ \ {p}]
               /\ pc' = [pc EXCEPT ![t] = "da_send"]
            \/ /\ pc' = [pc EXCEPT ![t] = "idle"]
               /\ todo' = [todo EXCEPT ![t] = {}]
               /\ UNCHANGED <<ports, held>>
    /\ UNCHANGED <<positions, closedCh, sent, setupVars>>

\* Only then, with no lock held, orderedEvents.send takes the position.
deleteAllLogicalPortsSend(t) ==
    /\ pc[t] = "da_send"
    /\ assignQueuePosition(held[t])
    /\ pc' = [pc EXCEPT ![t] = "da"]
    /\ held' = [held EXCEPT ![t] = Nil]
    /\ UNCHANGED <<ports, closedCh, sent, todo, setupVars>>

deleteAllLogicalPortsEnd(t) ==
    /\ pc[t] = "da"
    /\ todo[t] = {}
    /\ pc' = [pc EXCEPT ![t] = "idle"]
    /\ UNCHANGED <<ports, positions, closedCh, sent, todo, held, setupVars>>

-----------------------------------------------------------------------------
(* setupLogicalPorts: add the ports that were discarded while the logical  *)
(* device was being created *)

\* setupNNILogicalPorts(rootDeviceID) lists the root device's ports (an
\* error there returns before anything changes) ...
setupLogicalPortsStart(t) ==
    /\ "setup" \in Ops
    /\ pc[t] = "idle"
    /\ Len(positions) < MaxEvents
    /\ nextKid + Cardinality(Children) * Cardinality({u \in Threads : pc[u] = "setup_nni"} \cup {t})
         <= MaxKids + 1
    /\ pc' = [pc EXCEPT ![t] = "setup_nni"]
    /\ todo' = [todo EXCEPT ![t] = {p \in PortIds : DeviceOf[p] = RootDevice}]
    /\ serr' = [serr EXCEPT ![t] = FALSE]
    /\ UNCHANGED <<ports, positions, closedCh, sent, held, kids, nextKid, waitOn>>

\* ... and calls addNNILogicalPort on each in map order, assigning its
\* result to err each time: LockOrCreate fails, finds the port, or creates
\* it.  Only the last port's error survives the loop.
setupNNILogicalPortsStep(t, p) ==
    /\ pc[t] = "setup_nni"
    /\ p \in todo[t]
    /\ todo' = [todo EXCEPT ![t] = @ \ {p}]
    /\ \/ /\ serr' = [serr EXCEPT ![t] = TRUE]
          /\ UNCHANGED <<ports, positions>>
       \/ /\ serr' = [serr EXCEPT ![t] = FALSE]
          /\ IF ports[p] = Nil THEN CreatePort(p) ELSE UNCHANGED <<ports, positions>>
    /\ UNCHANGED <<closedCh, sent, pc, held, kids, nextKid, waitOn>>

\* With err set setupLogicalPorts returns it.  Otherwise GetAllChildDevices
\* (an error returns) and one goroutine per child, whose responses it then
\* waits for.
setupLogicalPortsChildren(t) ==
    /\ pc[t] = "setup_nni"
    /\ todo[t] = {}
    /\ IF serr[t]
       THEN /\ pc' = [pc EXCEPT ![t] = "idle"]
            /\ UNCHANGED <<kids, nextKid, waitOn>>
       ELSE \/ /\ pc' = [pc EXCEPT ![t] = "idle"]
               /\ UNCHANGED <<kids, nextKid, waitOn>>
            \/ LET ch  == SetToSeq(Children)
                   ids == nextKid..(nextKid + Len(ch) - 1)
               IN  /\ kids' = [i \in KidIds |->
                                 IF i \in ids
                                 THEN [dev |-> ch[i - nextKid + 1], st |-> "list", todo |-> {}]
                                 ELSE kids[i]]
                   /\ nextKid' = nextKid + Len(ch)
                   /\ waitOn' = [waitOn EXCEPT ![t] = ids]
                   /\ pc' = [pc EXCEPT ![t] = "setup_wait"]
    /\ UNCHANGED <<ports, positions, closedCh, sent, todo, held, serr>>

\* A goroutine's listDevicePorts(child) returns an error (response.Error),
\* returns the child's ports, or never returns.
setupKidList(i) ==
    /\ kids[i] # Nil
    /\ kids[i].st = "list"
    /\ \E st \in {"done", "ports", "blocked"} :
         kids' = [kids EXCEPT ![i].st = st,
                              ![i].todo = IF st = "ports"
                                          THEN {p \in PortIds : DeviceOf[p] = kids[i].dev}
                                          ELSE {}]
    /\ UNCHANGED <<ports, positions, closedCh, sent, pc, todo, held, serr, nextKid, waitOn>>

\* setupUNILogicalPorts calls addUNILogicalPort on each UNI port: it
\* creates the port, or changes nothing (child not enabled and active, the
\* port exists, LockOrCreate failed).  The error it returns is only
\* logged by response.Error and is not recorded.
setupUNILogicalPortsStep(i, p) ==
    /\ kids[i] # Nil
    /\ kids[i].st = "ports"
    /\ p \in kids[i].todo
    /\ kids' = [kids EXCEPT ![i].todo = @ \ {p}]
    /\ \/ ports[p] = Nil /\ CreatePort(p)
       \/ UNCHANGED <<ports, positions>>
    /\ UNCHANGED <<closedCh, sent, pc, todo, held, serr, nextKid, waitOn>>

\* The loop is over: response.Done().
setupKidDone(i) ==
    /\ kids[i] # Nil
    /\ kids[i].st = "ports"
    /\ kids[i].todo = {}
    /\ kids' = [kids EXCEPT ![i].st = "done"]
    /\ UNCHANGED <<ports, positions, closedCh, sent, pc, todo, held, serr, nextKid, waitOn>>

SetupReturn(t) ==
    /\ pc' = [pc EXCEPT ![t] = "idle"]
    /\ waitOn' = [waitOn EXCEPT ![t] = {}]
    /\ UNCHANGED <<ports, positions, closedCh, sent, todo, held, serr, kids, nextKid>>

\* WaitForNilOrErrorResponses(agent.defaultTimeout, ...) returns once every
\* response is in ...
setupLogicalPortsWaitDone(t) ==
    /\ pc[t] = "setup_wait"
    /\ \A i \in waitOn[t] : kids[i].st = "done"
    /\ SetupReturn(t)

\* ... or when defaultTimeout expires (codes.Aborted); the goroutines still
\* running go on adding ports and sending ADD events after the return.
setupLogicalPortsTimeout(t) ==
    /\ pc[t] = "setup_wait"
    /\ SetupReturn(t)

-----------------------------------------------------------------------------
(* The event goroutines *)

\* queuePosition.send for position i: `<-qp.prev` (none for the first
\* position), SendChangeEvent, `close(qp.next)`.
send(i) ==
    /\ i \in 1..Len(positions) \ closedCh
    /\ i > 1 => i - 1 \in closedCh
    /\ sent' = Append(sent, positions[i])
    /\ closedCh' = closedCh \cup {i}
    /\ UNCHANGED <<ports, positions, pc, todo, held, setupVars>>

\* Nothing is left to do: the callers are idle, every event is sent and no
\* new operation may start.
Finished ==
    /\ \A t \in Threads : pc[t] = "idle"
    /\ \A i \in KidIds : kids[i] # Nil => kids[i].st \in {"done", "blocked"}
    /\ closedCh = 1..Len(positions)
    /\ Len(positions) >= MaxEvents
    /\ UNCHANGED vars

Next ==
    \/ \E t \in Threads, p \in PortIds : addLogicalPort(t, p)
    \/ \E t \in Threads, p \in PortIds, op \in ModifyOps : modifyLogicalPort(t, p, op)
    \/ \E t \in Threads, dev \in Devices : deleteLogicalPortsStart(t, dev)
    \/ \E t \in Threads, p \in PortIds : deleteLogicalPortsStep(t, p)
    \/ \E t \in Threads : deleteLogicalPortsEnd(t)
    \/ \E t \in Threads : deleteAllLogicalPortsStart(t)
    \/ \E t \in Threads, p \in PortIds : deleteAllLogicalPortsLock(t, p)
    \/ \E t \in Threads : deleteAllLogicalPortsSend(t)
    \/ \E t \in Threads : deleteAllLogicalPortsEnd(t)
    \/ \E t \in Threads : setupLogicalPortsStart(t)
    \/ \E t \in Threads, p \in PortIds : setupNNILogicalPortsStep(t, p)
    \/ \E t \in Threads : setupLogicalPortsChildren(t)
    \/ \E i \in KidIds : setupKidList(i)
    \/ \E i \in KidIds, p \in PortIds : setupUNILogicalPortsStep(i, p)
    \/ \E i \in KidIds : setupKidDone(i)
    \/ \E t \in Threads : setupLogicalPortsWaitDone(t)
    \/ \E t \in Threads : setupLogicalPortsTimeout(t)
    \/ \E i \in 1..MaxPositions : send(i)
    \/ Finished

\* Every event goroutine that can take its turn eventually runs, and so do
\* the setup goroutines and a caller inside setupLogicalPorts; the timer
\* of WaitForNilOrErrorResponses eventually expires.  The callers'
\* choice to start an operation is not fair.
SetupCaller(t) ==
    \/ \E p \in PortIds : setupNNILogicalPortsStep(t, p)
    \/ setupLogicalPortsChildren(t)
    \/ setupLogicalPortsWaitDone(t)
    \/ setupLogicalPortsTimeout(t)

SetupKid(i) ==
    \/ setupKidList(i)
    \/ \E p \in PortIds : setupUNILogicalPortsStep(i, p)
    \/ setupKidDone(i)

Fairness ==
    /\ \A i \in 1..MaxPositions : WF_vars(send(i))
    /\ \A t \in Threads : WF_vars(SetupCaller(t))
    /\ \A i \in KidIds : WF_vars(SetupKid(i))

Spec == Init /\ [][Next]_vars /\ Fairness

-----------------------------------------------------------------------------
(* Properties *)

TypeOK ==
    /\ ports \in [PortIds -> Descs \cup {Nil}]
    /\ positions \in Seq(Event) /\ Len(positions) <= MaxPositions
    /\ closedCh \subseteq 1..Len(positions)
    /\ sent \in Seq(Event)
    /\ pc \in [Threads -> {"idle", "dl", "da", "da_send", "setup_nni", "setup_wait"}]
    /\ todo \in [Threads -> SUBSET PortIds]
    /\ held \in [Threads -> Event \cup {Nil}]
    /\ serr \in [Threads -> BOOLEAN]
    /\ kids \in [KidIds -> Kid \cup {Nil}]
    /\ nextKid \in 1..(MaxKids + 1)
    /\ waitOn \in [Threads -> SUBSET KidIds]

\* The controller's picture of the ports after a sequence of events.
ApplyEvent(view, e) ==
    [view EXCEPT ![e.port] = IF e.reason = "DELETE" THEN Nil ELSE e.desc]

Replay(evs) == FoldLeft(ApplyEvent, [p \in PortIds |-> Nil], evs)

(* Every event the controller receives makes sense for its picture of the  *)
(* ports: ADD only of a port it does not know, MODIFY and DELETE only of   *)
(* one it knows.  Each operation takes its position under the port lock   *)
(* whose change the event reports.                                         *)
ControllerEventsConsistent ==
    \A i \in 1..Len(sent) :
        LET known == Replay(SubSeq(sent, 1, i - 1))[sent[i].port] # Nil
        IN  (sent[i].reason = "ADD") <=> ~known

\* No setup goroutine will add a port any more.
KidsQuiet == \A i \in KidIds : kids[i] # Nil => kids[i].st \in {"done", "blocked"}

(* When no operation is in progress and every event has been sent, the    *)
(* controller's picture equals the agent's ports.  setupLogicalPorts may   *)
(* have returned on its timeout while its goroutines still add ports: the  *)
(* picture must match once they are done too.                              *)
ControllerViewMatches ==
    (/\ \A t \in Threads : pc[t] = "idle"
     /\ KidsQuiet
     /\ Len(sent) = Len(positions))
        => Replay(sent) = ports
=============================================================================
