----------------------------- MODULE NodeTable -----------------------------
(***************************************************************************)
(* The node and device tables of the gateway (table.go, node.go), their    *)
(* copy in persistence (persistence.go), and everything that changes them: *)
(* the provider loop, which loads them at start (provider_load.go) and     *)
(* then handles join and leave events (provider_loop.go), and one goroutine *)
(* per node enumeration (enumerate_device.go).                             *)
(*                                                                         *)
(* The tables are pointer structures and the races of this code are about  *)
(* pointers that outlive the table entry, so nodes and devices are objects *)
(* here: NodeObj and DevObj are allocated, referenced and forgotten.       *)
(***************************************************************************)
EXTENDS Integers, FiniteSets

CONSTANTS
  Addr,        \* IEEE addresses of nodes
  NodeObj,     \* *node objects; bounds the joins and loads between restarts
  DevObj,      \* *device objects; reused once nothing refers to them
  Proc,        \* enumeration goroutines that may run at the same time
  Endpoint,    \* endpoint numbers an interrogation may report
  MaxSub,      \* math.MaxUint8: the last device sub-identifier
  MaxCrashes,  \* bound: restarts of the process
  NoAddr, NoNode, NoDev,
  LeaveOverlapsEnumeration,  \* environment: a node may leave while enumerated
  EnumerateDuringLoad        \* environment: Enumerate called before load ends

SubId == 0 .. MaxSub

\* What the "UniqueId" of a device section holds: no section, no key, a value.
NoSection  == -2
NoUniqueId == -1

ASSUME NodeTableAssumption ==
  /\ Endpoint \subseteq Nat
  /\ IsFiniteSet(NodeObj)
  /\ MaxSub \in Nat
  /\ MaxCrashes \in Nat
  /\ NoAddr \notin Addr /\ NoNode \notin NodeObj /\ NoDev \notin DevObj
  /\ LeaveOverlapsEnumeration \in BOOLEAN
  /\ EnumerateDuringLoad \in BOOLEAN

VARIABLES
  table,       \* ZDA.node: address -> *node
  nodeAddr,    \* node.address of every allocated *node, NoAddr before
  device,      \* node.device of every *node: sub-identifier -> *device
  dev,         \* the *device objects
  shown,       \* nodes some consumer holds a device of (event or Devices())
  held,        \* nodes whose enumerationSem is taken
  storedNode,  \* addresses with a section under "Node"
  store,       \* UniqueId of every device section under "Node"/a/"Device"
  feed,        \* DeviceAdded minus DeviceRemoved events, per identifier
  loop,        \* the provider loop goroutine
  enum,        \* the enumeration goroutines
  crashes

diskVars == <<storedNode, store>>
vars == <<table, nodeAddr, device, dev, shown, held, storedNode, store, feed,
          loop, enum, crashes>>

LoadPc == {"boot", "loadNode", "loadDevice", "loadUid"}
LoopPc == LoadPc \cup
          {"read", "joinDevice", "joinAdvertise", "leaving", "stopped"}
EnumPc == {"idle", "interrogate", "collect", "match", "assign", "create",
           "identify", "stale", "remove", "removing", "caps"}

DevRecord == [node : NodeObj \cup {NoNode}, sub : SubId,
              set : BOOLEAN, id : Nat]

LoopRecord == [pc : LoopPc, node : NodeObj \cup {NoNode}, dev : DevObj \cup {NoDev},
               subs : SUBSET SubId, nodes : SUBSET Addr]

EnumRecord == [pc : EnumPc, node : NodeObj \cup {NoNode}, inv : SUBSET Endpoint,
               unset : SUBSET DevObj, map : [Endpoint -> DevObj \cup {NoDev}],
               todo : SUBSET Endpoint, sub : SubId, stale : SUBSET SubId,
               target : NodeObj \cup {NoNode}]

TypeOK ==
  /\ table \in [Addr -> NodeObj \cup {NoNode}]
  /\ nodeAddr \in [NodeObj -> Addr \cup {NoAddr}]
  /\ device \in [NodeObj -> [SubId -> DevObj \cup {NoDev}]]
  /\ dev \in [DevObj -> DevRecord]
  /\ shown \subseteq NodeObj
  /\ held \subseteq NodeObj
  /\ storedNode \subseteq Addr
  /\ store \in [Addr -> [SubId -> Nat \cup {NoSection, NoUniqueId}]]
  /\ feed \in [Addr -> [SubId -> Int]]
  /\ loop \in LoopRecord
  /\ enum \in [Proc -> EnumRecord]
  /\ crashes \in 0 .. MaxCrashes

(***************************************************************************)
(* Helpers on the tables.                                                  *)
(***************************************************************************)
NoDevice    == [node |-> NoNode, sub |-> 0, set |-> FALSE, id |-> 0]
LoopAt(pc)  == [pc |-> pc, node |-> NoNode, dev |-> NoDev,
                subs |-> {}, nodes |-> {}]
Idle        == [pc |-> "idle", node |-> NoNode, inv |-> {}, unset |-> {},
                map |-> [e \in Endpoint |-> NoDev], todo |-> {}, sub |-> 0,
                stale |-> {}, target |-> NoNode]

\* getDevicesOnNode, by sub-identifier.
SubsOn(n)    == {s \in SubId : device[n][s] # NoDev}
DevicesOn(n) == {device[n][s] : s \in SubsOn(n)}

\* _nextDeviceSubIdentifier: 255 is returned whether or not it is free.
FreeSubs(n) == {s \in 0 .. MaxSub - 1 : device[n][s] = NoDev}
NextSub(n)  == IF FreeSubs(n) = {} THEN MaxSub
               ELSE CHOOSE s \in FreeSubs(n) : \A t \in FreeSubs(n) : s <= t

Referenced(d) ==
  \/ \E n \in NodeObj, s \in SubId : device[n][s] = d
  \/ \E p \in Proc : d \in enum[p].unset \/ \E e \in Endpoint : enum[p].map[e] = d
  \/ loop.dev = d

Least(S) == CHOOSE x \in S : \A y \in S : x <= y

\* sectionForDevice creates what is missing, the node's section included.
TouchDeviceSection(a, s) ==
  /\ storedNode' = storedNode \cup {a}
  /\ store' = [store EXCEPT ![a][s] = IF @ = NoSection THEN NoUniqueId ELSE @]

\* sectionRemoveDevice goes through sectionForNode.
DeleteDeviceSection(a, s) ==
  /\ storedNode' = storedNode \cup {a}
  /\ store' = [store EXCEPT ![a][s] = NoSection]

\* createNode of an address that is not in the table.
NewNode(a, n) ==
  /\ table[a] = NoNode
  /\ nodeAddr[n] = NoAddr
  /\ table' = [table EXCEPT ![a] = n]
  /\ nodeAddr' = [nodeAddr EXCEPT ![n] = a]
  /\ storedNode' = storedNode \cup {a}

\* Mutant of CreateDevice: the device points to the node that has the address now.
CreateDeviceOnCurrent(n, s, d) ==
  /\ ~Referenced(d)
  /\ device' = [device EXCEPT ![n][s] = d]
  /\ dev' = [dev EXCEPT ![d] = [node |-> table[nodeAddr[n]], sub |-> s, set |-> FALSE, id |-> 0]]
  /\ TouchDeviceSection(nodeAddr[n], s)
  /\ feed' = [feed EXCEPT ![nodeAddr[n]][s] = @ + 1]
  /\ shown' = shown \cup {n}

\* createSpecificDevice: overwrites whatever n.device holds under s.
CreateDevice(n, s, d) ==
  /\ ~Referenced(d)
  /\ device' = [device EXCEPT ![n][s] = d]
  /\ dev' = [dev EXCEPT ![d] = [node |-> n, sub |-> s, set |-> FALSE, id |-> 0]]
  /\ TouchDeviceSection(nodeAddr[n], s)
  /\ feed' = [feed EXCEPT ![nodeAddr[n]][s] = @ + 1]
  /\ shown' = shown \cup {n}

\* Mutant of SetUniqueId: the id is not persisted.
SetUniqueIdInMemory(d, id) ==
  /\ dev' = [dev EXCEPT ![d].set = TRUE, ![d].id = id]
  /\ TouchDeviceSection(nodeAddr[dev[d].node], dev[d].sub)

\* setDeviceUniqueId: also creates the section it sets the key in.
SetUniqueId(d, id) ==
  LET a == nodeAddr[dev[d].node] IN
  /\ dev' = [dev EXCEPT ![d].set = TRUE, ![d].id = id]
  /\ storedNode' = storedNode \cup {a}
  /\ store' = [store EXCEPT ![a][dev[d].sub] = id]

\* Mutant of DropDevice: the events are sent before the device is looked up.
DropDeviceUnchecked(n, s) ==
  /\ device' = [device EXCEPT ![n][s] = NoDev]
  /\ feed' = [feed EXCEPT ![nodeAddr[n]][s] = @ - 1]
  /\ DeleteDeviceSection(nodeAddr[n], s)

\* The part of removeDevice under the node's lock, n being what getNode gave.
DropDevice(n, s) ==
  IF device[n][s] = NoDev
  THEN UNCHANGED <<device, feed, diskVars>>
  ELSE /\ device' = [device EXCEPT ![n][s] = NoDev]
       /\ feed' = [feed EXCEPT ![nodeAddr[n]][s] = @ - 1]
       /\ DeleteDeviceSection(nodeAddr[n], s)

(***************************************************************************)
(* Initial state: an installation that has never run.                      *)
(***************************************************************************)
Init ==
  /\ table = [a \in Addr |-> NoNode]
  /\ nodeAddr = [n \in NodeObj |-> NoAddr]
  /\ device = [n \in NodeObj |-> [s \in SubId |-> NoDev]]
  /\ dev = [d \in DevObj |-> NoDevice]
  /\ shown = {}
  /\ held = {}
  /\ storedNode = {}
  /\ store = [a \in Addr |-> [s \in SubId |-> NoSection]]
  /\ feed = [a \in Addr |-> [s \in SubId |-> 0]]
  /\ loop = LoopAt("boot")
  /\ enum = [p \in Proc |-> Idle]
  /\ crashes = 0

(***************************************************************************)
(* Loading, the first thing the provider loop does.                        *)
(***************************************************************************)
\* providerLoad: the list of nodes is read once.
Boot ==
  /\ loop.pc = "boot"
  /\ loop' = [LoopAt("loadNode") EXCEPT !.nodes = storedNode]
  /\ UNCHANGED <<table, nodeAddr, device, dev, shown, held, diskVars, feed,
                 enum, crashes>>

\* providerLoadNode: createNode, then the list of its device sections.
LoadNode(a, n) ==
  /\ loop.pc = "loadNode"
  /\ a \in loop.nodes
  /\ NewNode(a, n)
  /\ loop' = [loop EXCEPT !.pc = "loadDevice", !.node = n, !.nodes = @ \ {a},
                          !.subs = {s \in SubId : store[a][s] # NoSection}]
  /\ UNCHANGED <<device, dev, shown, held, store, feed, enum, crashes>>

\* providerLoadDevice, first half: createSpecificDevice under the stored number.
LoadDevice(s, d) ==
  /\ loop.pc = "loadDevice"
  /\ s \in loop.subs
  /\ CreateDevice(loop.node, s, d)
  /\ loop' = [loop EXCEPT !.pc = "loadUid", !.subs = @ \ {s}, !.dev = d]
  /\ UNCHANGED <<table, nodeAddr, held, enum, crashes>>

\* Mutant of LoadUniqueId: the stored id is not put back.
LoadUniqueIdForgotten ==
  /\ loop.pc = "loadUid"
  /\ TouchDeviceSection(nodeAddr[loop.node], dev[loop.dev].sub)
  /\ loop' = [loop EXCEPT !.pc = "loadDevice", !.dev = NoDev]
  /\ UNCHANGED <<table, nodeAddr, device, dev, shown, held, feed, enum, crashes>>

\* providerLoadDevice, second half: sectionForDevice, then its UniqueId if any.
LoadUniqueId ==
  LET d == loop.dev
      a == nodeAddr[loop.node]
      id == store[a][dev[d].sub]
  IN
  /\ loop.pc = "loadUid"
  /\ IF id \in Nat
     THEN SetUniqueId(d, id)
     ELSE TouchDeviceSection(a, dev[d].sub) /\ UNCHANGED dev
  /\ loop' = [loop EXCEPT !.pc = "loadDevice", !.dev = NoDev]
  /\ UNCHANGED <<table, nodeAddr, device, shown, held, feed, enum, crashes>>

\* The loops of providerLoadNode and providerLoad run out.
LoadNext ==
  /\ \/ /\ loop.pc = "loadDevice" /\ loop.subs = {}
        /\ loop' = [loop EXCEPT !.pc = "loadNode", !.node = NoNode]
     \/ /\ loop.pc = "loadNode" /\ loop.nodes = {}
        /\ loop' = LoopAt("read")
  /\ UNCHANGED <<table, nodeAddr, device, dev, shown, held, diskVars, feed,
                 enum, crashes>>

(***************************************************************************)
(* Join and leave events.  A join of a known address changes nothing.      *)
(***************************************************************************)
\* receiveNodeJoinEvent: createNode.
JoinNode(a, n) ==
  /\ loop.pc = "read"
  /\ NewNode(a, n)
  /\ loop' = [loop EXCEPT !.pc = "joinDevice", !.node = n]
  /\ UNCHANGED <<device, dev, shown, held, store, feed, enum, crashes>>

\* receiveNodeJoinEvent: createNextDevice, on a node nobody else has yet.
JoinDevice(d) ==
  /\ loop.pc = "joinDevice"
  /\ CreateDevice(loop.node, NextSub(loop.node), d)
  /\ loop' = [loop EXCEPT !.pc = "joinAdvertise"]
  /\ UNCHANGED <<table, nodeAddr, held, enum, crashes>>

\* startEnumeration: TryAcquire, then the goroutine.
StartEnumeration(n, p) ==
  /\ n \notin held
  /\ enum[p].pc = "idle"
  /\ held' = held \cup {n}
  /\ enum' = [enum EXCEPT ![p].pc = "interrogate", ![p].node = n]

\* receiveNodeJoinEvent: the callback; a refusal is only logged (onNodeJoin).
JoinAdvertise ==
  /\ loop.pc = "joinAdvertise"
  /\ \/ \E p \in Proc : StartEnumeration(loop.node, p)
     \/ loop.node \in held /\ UNCHANGED <<held, enum>>
  /\ loop' = LoopAt("read")
  /\ UNCHANGED <<table, nodeAddr, device, dev, shown, diskVars, feed, crashes>>

Enumerating(n) == \E p \in Proc : enum[p].node = n

\* receiveNodeLeaveEvent: getNode and the snapshot of its devices.
Leave(a) ==
  /\ loop.pc = "read"
  /\ table[a] # NoNode
  /\ LeaveOverlapsEnumeration \/ ~Enumerating(table[a])
  /\ loop' = [loop EXCEPT !.pc = "leaving", !.node = table[a],
                          !.subs = SubsOn(table[a])]
  /\ UNCHANGED <<table, nodeAddr, device, dev, shown, held, diskVars, feed,
                 enum, crashes>>

\* receiveNodeLeaveEvent: removeDevice of one device of the snapshot.
LeaveDevice(s) ==
  /\ loop.pc = "leaving"
  /\ s \in loop.subs
  /\ DropDevice(loop.node, s)
  /\ loop' = [loop EXCEPT !.subs = @ \ {s}]
  /\ UNCHANGED <<table, nodeAddr, dev, shown, held, enum, crashes>>

\* Mutant of LeaveNode: the section is left.
LeaveNodeKeepsSection ==
  /\ loop.pc = "leaving"
  /\ loop.subs = {}
  /\ table' = [table EXCEPT ![nodeAddr[loop.node]] = NoNode]
  /\ loop' = LoopAt("read")
  /\ UNCHANGED <<nodeAddr, device, dev, shown, held, diskVars, feed, enum, crashes>>

\* receiveNodeLeaveEvent: removeNode, with the node's whole section.
LeaveNode ==
  LET a == nodeAddr[loop.node] IN
  /\ loop.pc = "leaving"
  /\ loop.subs = {}
  /\ table' = [table EXCEPT ![a] = NoNode]
  /\ storedNode' = storedNode \ {a}
  /\ store' = [store EXCEPT ![a] = [s \in SubId |-> NoSection]]
  /\ loop' = LoopAt("read")
  /\ UNCHANGED <<nodeAddr, device, dev, shown, held, feed, enum, crashes>>

\* providerLoop returns: Stop, or any read error that is not a deadline.
Stop ==
  /\ loop.pc = "read"
  /\ loop' = LoopAt("stopped")
  /\ UNCHANGED <<table, nodeAddr, device, dev, shown, held, diskVars, feed,
                 enum, crashes>>

(***************************************************************************)
(* Enumeration of a node.                                                  *)
(***************************************************************************)
\* EnumerateDevice.Enumerate, by whoever holds a device of the node.
Enumerate(n, p) ==
  /\ n \in shown
  /\ \/ LeaveOverlapsEnumeration
     \/ table[nodeAddr[n]] = n /\ ~(loop.pc = "leaving" /\ loop.node = n)
  /\ EnumerateDuringLoad \/ loop.pc \notin LoadPc
  /\ StartEnumeration(n, p)
  /\ UNCHANGED <<table, nodeAddr, device, dev, shown, diskVars, feed, loop,
                 crashes>>

\* interrogateNode, runRules and groupInventoryDevices: an error on the way, or
\* the endpoints found.
Interrogate(p) ==
  /\ enum[p].pc = "interrogate"
  /\ \/ /\ enum' = [enum EXCEPT ![p] = Idle]
        /\ held' = held \ {enum[p].node}
     \/ /\ \E inv \in SUBSET Endpoint :
             enum' = [enum EXCEPT ![p].pc = "collect", ![p].inv = inv]
        /\ UNCHANGED held
  /\ UNCHANGED <<table, nodeAddr, device, dev, shown, diskVars, feed, loop,
                 crashes>>

enumOnly == <<table, nodeAddr, device, dev, shown, held, diskVars, feed, loop,
              crashes>>

\* updateNodeTable: the devices that have no unique id yet.
CollectUnset(p) ==
  /\ enum[p].pc = "collect"
  /\ enum' = [enum EXCEPT ![p].pc = "match",
                 ![p].unset = {d \in DevicesOn(enum[p].node) : ~dev[d].set}]
  /\ UNCHANGED enumOnly

\* updateNodeTable: existing devices by unique id.  The id is compared without
\* looking at deviceIdSet, so that an unset device counts as endpoint 0.
Matches(p, e) == {d \in DevicesOn(enum[p].node) : dev[d].id = e}

MatchExisting(p) ==
  /\ enum[p].pc = "match"
  /\ \E map \in [Endpoint -> DevObj \cup {NoDev}] :
       /\ \A e \in Endpoint :
            IF e \in enum[p].inv /\ Matches(p, e) # {}
            THEN map[e] \in Matches(p, e) ELSE map[e] = NoDev
       /\ enum' = [enum EXCEPT ![p].pc = "assign", ![p].map = map,
                       ![p].todo = {e \in enum[p].inv : map[e] = NoDev}]
  /\ UNCHANGED enumOnly

\* updateNodeTable: an endpoint with no device takes one without an id.
AssignReuse(p) ==
  LET e == Least(enum[p].todo) IN
  /\ enum[p].pc = "assign"
  /\ enum[p].todo # {}
  /\ \E d \in enum[p].unset :
       /\ SetUniqueId(d, e)
       /\ enum' = [enum EXCEPT ![p].map[e] = d, ![p].unset = @ \ {d},
                               ![p].todo = @ \ {e}]
  /\ UNCHANGED <<table, nodeAddr, device, shown, held, feed, loop, crashes>>

\* createNextDevice: the sub-identifier is chosen under n.m, then n.m is released.
AssignPick(p) ==
  /\ enum[p].pc = "assign"
  /\ enum[p].todo # {} /\ enum[p].unset = {}
  /\ enum' = [enum EXCEPT ![p].pc = "create", ![p].sub = NextSub(enum[p].node)]
  /\ UNCHANGED enumOnly

\* createNextDevice: createSpecificDevice takes n.m again.
AssignCreate(p, d) ==
  /\ enum[p].pc = "create"
  /\ CreateDevice(enum[p].node, enum[p].sub, d)
  /\ enum' = [enum EXCEPT ![p].pc = "identify",
                          ![p].map[Least(enum[p].todo)] = d]
  /\ UNCHANGED <<table, nodeAddr, held, loop, crashes>>

\* updateNodeTable: setDeviceUniqueId of the device just created.
AssignIdentify(p) ==
  LET e == Least(enum[p].todo) IN
  /\ enum[p].pc = "identify"
  /\ SetUniqueId(enum[p].map[e], e)
  /\ enum' = [enum EXCEPT ![p].pc = "assign", ![p].todo = @ \ {e}]
  /\ UNCHANGED <<table, nodeAddr, device, shown, held, feed, loop, crashes>>

\* updateNodeTable: devices whose id is not in the mapping.
Mapped(p) == {e \in Endpoint : enum[p].map[e] # NoDev}

\* Mutants of CollectStale: devices without an id stay; or every device goes.
CollectStaleSetOnly(p) ==
  LET n == enum[p].node IN
  /\ enum[p].pc = "assign"
  /\ enum[p].todo = {}
  /\ enum' = [enum EXCEPT ![p].pc = "remove",
       ![p].stale = {s \in SubsOn(n) : dev[device[n][s]].set
                                       /\ dev[device[n][s]].id \notin Mapped(p)}]
  /\ UNCHANGED enumOnly
CollectStaleAll(p) ==
  /\ enum[p].pc = "assign"
  /\ enum[p].todo = {}
  /\ enum' = [enum EXCEPT ![p].pc = "remove", ![p].stale = SubsOn(enum[p].node)]
  /\ UNCHANGED enumOnly

CollectStale(p) ==
  LET n == enum[p].node IN
  /\ enum[p].pc = "assign"
  /\ enum[p].todo = {}
  /\ enum' = [enum EXCEPT ![p].pc = "remove",
                 ![p].stale = {s \in SubsOn(n) : dev[device[n][s]].id \notin Mapped(p)}]
  /\ UNCHANGED enumOnly

\* removeDevice: getNode of the ADDRESS of the stale device.
RemoveLookup(p, s) ==
  /\ enum[p].pc = "remove"
  /\ s \in enum[p].stale
  /\ LET n == table[nodeAddr[enum[p].node]] IN
     enum' = IF n = NoNode
             THEN [enum EXCEPT ![p].stale = @ \ {s}]
             ELSE [enum EXCEPT ![p].pc = "removing", ![p].sub = s, ![p].target = n]
  /\ UNCHANGED enumOnly

\* removeDevice: the rest, under the lock of the node getNode returned.
RemoveStale(p) ==
  /\ enum[p].pc = "removing"
  /\ DropDevice(enum[p].target, enum[p].sub)
  /\ enum' = [enum EXCEPT ![p].pc = "remove", ![p].target = NoNode,
                          ![p].stale = @ \ {enum[p].sub}]
  /\ UNCHANGED <<table, nodeAddr, dev, shown, held, loop, crashes>>

\* updateNodeTable returns the mapping.
TableUpdated(p) ==
  /\ enum[p].pc = "remove" /\ enum[p].stale = {}
  /\ enum' = [enum EXCEPT ![p].pc = "caps", ![p].todo = enum[p].inv,
                          ![p].unset = {}]
  /\ UNCHANGED enumOnly

\* updateCapabilitiesOnDevice: any capability it handles goes through
\* sectionForDevice of the mapped device.
UpdateCapabilities(p) ==
  LET e == Least(enum[p].todo)
      d == enum[p].map[e]
  IN
  /\ enum[p].pc = "caps"
  /\ enum[p].todo # {}
  /\ \/ TouchDeviceSection(nodeAddr[dev[d].node], dev[d].sub)
     \/ UNCHANGED diskVars
  /\ enum' = [enum EXCEPT ![p].todo = @ \ {e}]
  /\ UNCHANGED <<table, nodeAddr, device, dev, shown, held, feed, loop, crashes>>

\* The deferred part of enumerate: the semaphore is released.
Release(p) ==
  /\ enum[p].pc = "caps" /\ enum[p].todo = {}
  /\ held' = held \ {enum[p].node}
  /\ enum' = [enum EXCEPT ![p] = Idle]
  /\ UNCHANGED <<table, nodeAddr, device, dev, shown, diskVars, feed, loop,
                 crashes>>

(***************************************************************************)
(* The process dies and is started again: only persistence survives, and   *)
(* the consumer of the events starts over as well.                         *)
(***************************************************************************)
Crash ==
  /\ crashes < MaxCrashes
  /\ crashes' = crashes + 1
  /\ table' = [a \in Addr |-> NoNode]
  /\ nodeAddr' = [n \in NodeObj |-> NoAddr]
  /\ device' = [n \in NodeObj |-> [s \in SubId |-> NoDev]]
  /\ dev' = [d \in DevObj |-> NoDevice]
  /\ shown' = {} /\ held' = {}
  /\ feed' = [a \in Addr |-> [s \in SubId |-> 0]]
  /\ loop' = LoopAt("boot")
  /\ enum' = [p \in Proc |-> Idle]
  /\ UNCHANGED diskVars

Load ==
  \/ Boot \/ LoadUniqueId \/ LoadNext
  \/ \E a \in Addr, n \in NodeObj : LoadNode(a, n)
  \/ \E s \in SubId, d \in DevObj : LoadDevice(s, d)

Handle ==
  \/ \E d \in DevObj : JoinDevice(d)
  \/ JoinAdvertise
  \/ \E s \in SubId : LeaveDevice(s)
  \/ LeaveNode

EnumStep(p) ==
  \/ Interrogate(p) \/ CollectUnset(p) \/ MatchExisting(p)
  \/ AssignReuse(p) \/ AssignPick(p) \/ AssignIdentify(p)
  \/ \E d \in DevObj : AssignCreate(p, d)
  \/ CollectStale(p) \/ RemoveStale(p) \/ TableUpdated(p)
  \/ \E s \in SubId : RemoveLookup(p, s)
  \/ UpdateCapabilities(p) \/ Release(p)

Next ==
  \/ Load \/ Handle \/ Stop \/ Crash
  \/ \E a \in Addr : Leave(a) \/ \E n \in NodeObj : JoinNode(a, n)
  \/ \E p \in Proc : EnumStep(p) \/ \E n \in NodeObj : Enumerate(n, p)

Spec == Init /\ [][Next]_vars

-----------------------------------------------------------------------------
(***************************************************************************)
(* Properties under any environment.                                       *)
(***************************************************************************)
\* At most one goroutine enumerates a node, and the semaphore is taken exactly
\* while one does (startEnumeration, and the deferred Release of enumerate).
ExclusiveEnumeration ==
  /\ \A p, q \in Proc :
       enum[p].node # NoNode /\ enum[p].node = enum[q].node => p = q
  /\ held = {enum[p].node : p \in Proc} \ {NoNode}

\* The pointers agree: the table's node for an address carries that address,
\* and a node's device under s is that node's and carries s, so that
\* removeDevice(d.address) and d itself speak of the same entry.
TableAgreesWithNodes ==
  /\ \A a \in Addr : table[a] # NoNode => nodeAddr[table[a]] = a
  /\ \A n \in NodeObj, s \in SubId :
       device[n][s] # NoDev => dev[device[n][s]].node = n /\ dev[device[n][s]].sub = s

\* A device that Devices() lists has been announced, and not withdrawn as often,
\* even when an enumeration of an earlier node of the address still removes
\* devices "by address".
ListedDevicesAnnounced ==
  \A a \in Addr, s \in SubId :
    table[a] # NoNode /\ device[table[a]][s] # NoDev => feed[a][s] >= 1

(***************************************************************************)
(* Properties of an environment in which nobody enumerates before the load *)
(* is over and no node leaves while it is enumerated.                      *)
(***************************************************************************)
Loaded == loop.pc \notin LoadPc

\* Persistence holds exactly the table: the nodes, their devices and the unique
\* ids the devices have (createNode, createSpecificDevice, setDeviceUniqueId,
\* removeDevice and removeNode each change both).
StoreMirrorsTable ==
  Loaded =>
    /\ storedNode = {a \in Addr : table[a] # NoNode}
    /\ \A a \in Addr, s \in SubId :
         store[a][s] =
           IF table[a] = NoNode \/ device[table[a]][s] = NoDev THEN NoSection
           ELSE IF dev[device[table[a]][s]].set THEN dev[device[table[a]][s]].id
           ELSE NoUniqueId

\* When updateNodeTable has returned, the node has exactly one device for every
\* endpoint of the inventory and no other device.
EnumerationReconciles ==
  \A p \in Proc : enum[p].pc = "caps" =>
    /\ {dev[d].id : d \in DevicesOn(enum[p].node)} = enum[p].inv
    /\ Cardinality(SubsOn(enum[p].node)) = Cardinality(enum[p].inv)
    /\ \A d \in DevicesOn(enum[p].node) : dev[d].set /\ enum[p].map[dev[d].id] = d

\* Handling a leave forgets the node: nothing of an address that is not in the
\* table is left in persistence or in the consumer's view of the devices.
LeaveForgetsNode ==
  \A a \in Addr : loop.pc = "read" /\ table[a] = NoNode =>
    a \notin storedNode /\ \A s \in SubId : feed[a][s] = 0

\* The consumer's view is that of DeviceFeed.
Feed == INSTANCE DeviceFeed WITH
          Node <- Addr, Sub <- SubId,
          live <- {i \in Addr \X SubId :
                     table[i[1]] # NoNode /\ device[table[i[1]]][i[2]] # NoDev},
          balance <- [i \in Addr \X SubId |-> feed[i[1]][i[2]]],
          identity <- [i \in Addr \X SubId |->
                         IF store[i[1]][i[2]] \in Nat THEN store[i[1]][i[2]] ELSE -1]
ImplementsDeviceFeed == Feed!FeedSpec

\* A device that stands for an endpoint is withdrawn only when the node leaves
\* or by an enumeration that did not find the endpoint.
WithdrawnOnlyWhenGone ==
  [][\A n \in NodeObj, s \in SubId :
       LET d == device[n][s] IN
       crashes' = crashes /\ d # NoDev /\ dev[d].set /\ device'[n][s] # d =>
         \/ loop.pc = "leaving" /\ loop.node = n
         \/ \E p \in Proc : enum[p].node = n /\ enum[p].pc = "removing"
                            /\ dev[d].id \notin enum[p].inv
    ]_vars
=============================================================================
