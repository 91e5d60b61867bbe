# Verification of the ZDA gateway

`zda` is a ZigBee device abstraction gateway: it turns the nodes of a ZigBee network into devices with
capabilities, remembers them across restarts, and tells a consumer about them through a stream of events. This
directory holds TLA+ models of the parts of it that keep state, TLC configurations that check them on small
instances, and theorems about them that TLAPS checks for every value of the constants.

    tlc  -config MCNodeTable_quiet.cfg MCNodeTable    # a model-checking run
    tlapm NodeTable_proofs.tla                        # the proofs of a module

`PROJECT.json` lists the runs, the lines of the source each definition stands for, the hazards of the code, and for
every property a *mutant*: a plausible bug in one definition that makes TLC report the property violated.

## 1. The system

Goroutines: one *provider loop* (events of the radio), one goroutine per *node enumeration*, one per discovery timer
that runs out, one poller per polled attribute, and the consumer's own goroutines, which call the methods of the
gateway and of its capabilities. They share the tables under read-write locks (`ZDA.nodeLock`, `node.m`, `device.m`),
a semaphore per node (`enumerationSem`), a persistence store, and one channel of events with a single slot.

| Component (source) | State | Operations | Module |
|---|---|---|---|
| Node and device tables (`table.go`, `node.go`) | `ZDA.node`, `node.device`, `device.deviceId/deviceIdSet` | createNode, removeNode, createNextDevice, createSpecificDevice, setDeviceUniqueId, removeDevice | `NodeTable` |
| Persistence layout (`persistence.go`) | sections `Node/<address>/Device/<sub>/Capability/<name>` | section getters, which create what is missing | all |
| Load (`provider_load.go`) | fills the tables from the sections | providerLoad, -Node, -Device | `NodeTable`, `DeviceCapabilities` |
| Provider loop (`provider_loop.go`) | position in a handler | join, leave, incoming message, end | `NodeTable` |
| Node enumeration (`enumerate_device.go`) | inventory, mapping, semaphore | startEnumeration, interrogate, updateNodeTable, updateCapabilitiesOnDevice | `NodeTable`, `DeviceCapabilities` |
| Capabilities of a device (`table.go`, `enumerate_device.go`) | `device.capabilities`, their sections, the report of the last enumeration | attach, re-enumerate, replace, reject, detach, load | `DeviceCapabilities` |
| Device discovery (`device_discovery.go`) | discovering, allowTimer | Enable, Disable, Status, Stop, timer callback | `DeviceDiscovery` |
| Attribute monitor (`attribute/monitor.go`) | match, ticker, stop channel, persisted parameters | Init, Load, Attach, Detach, poller | `AttributeMonitor` |
| Power supply (`implcaps/zcl/power_supply`) | presence flags, eight monitors, readings | Enumerate, Load, Detach, update | `PowerSupply` |
| Rules (`rules/engine.go`) | rule sets, compiled rules | LoadFS, CompileRules, Execute | `RuleCompilation`, `RuleExecution`, `RuleEngine` |
| Event channel (`da_events.go`, `gateway.go`) | a channel of one slot | sendEvent, ReadEvent | `EventDelivery` |
| Temperature, humidity and pressure (`implcaps/zcl/*_sensor`) | a persisted reading | Enumerate, Load, Detach, update, Reading | `Sensor` |
| Identify (`implcaps/zcl/identify`) | a persisted end time, timers nobody keeps | Enumerate, Load, Detach, update, Identify, Status | `Identify` |
| Product information (`implcaps/generic/product_information`) | strings, in memory and persisted | Enumerate, Load, Detach, Get | `ProductInformation` |
| Device workarounds (`implcaps/generic/device_workarounds`) | a list, in memory and persisted | Enumerate, Load, Detach, Enabled | `DeviceWorkarounds` |
| Transaction sequence (`node.go`) | a channel of 255 numbers | nextTransactionSequence | none, see section 6 |

How they interact. The provider loop loads the tables, then turns joins and leaves into table operations. A join ends
in a callback that starts an enumeration. An enumeration interrogates the node without a lock, runs the rules (compiled once
at start) over what it found, groups the endpoints, reconciles the node's devices with them (`updateNodeTable`), and then attaches
the capabilities the rules asked for to each device, under `device.m`. A capability starts attribute monitors, which
register matches with the ZCL communicator and possibly pollers. Table and capability operations write persistence and send events while
they hold locks. After a restart the load goes the opposite way: sections to tables, tables to capabilities, capabilities
to monitors.

What is hard about it, and what makes each part correct:

- **Tables.** Pointers to nodes and devices outlive their table entries: an enumeration carries on with a node that has left
  and removes devices *by address* from whichever node has joined since. Correct means that pointers and keys
  agree, a node is enumerated by one goroutine, persistence mirrors the tables, and the consumer can build the table from the events.
- **Enumeration.** Any history of inventories and restarts must leave one device per endpoint, under the number it had.
- **Capabilities.** A device, its sections, the consumer's view and what listens on the network change one after another; the process may
  end between any two changes, and an implementation may reject, fail or panic.
- **Discovery.** Timer callbacks run concurrently with calls, without a lock; an open network must be closed again.
- **Monitors.** A poller shares unguarded fields and a one-slot channel with Detach; re-enumeration attaches again without Detach.
- **Power supply.** Flags, monitors, persisted flags, persisted monitor parameters and readings of eight sources have to agree.
- **Rules.** Dependencies first, once each, circles found; overriding by later and deeper rules, and so by the rule sets that depend on others.
- **Events.** The slot fills while mutexes of the gateway, of a node or of a device are held, and the goroutine that empties it may want the same mutexes.
  Correct means that the gateway comes to a stop only by the doing of its consumer, and that a consumer can follow an enumeration by its events alone.
- **Values.** What is persisted, what is in memory, what the consumer was told and what the node was told change one after another, and timers outlive what started them.

The complete list, with the line where each hazard bites, is `hazards` in `PROJECT.json`.

## 2. The modules

### NodeTable (with DeviceFeed)

Nodes and devices are objects (`NodeObj`, `DevObj`), so a pointer held by a goroutine after its table entry is
gone is a value of the model. `table` is `ZDA.node`; `device[n]` is `n.device`; `dev[d]` a `*device`;
`storedNode` and `store` are the sections; `feed` counts DeviceAdded minus DeviceRemoved for each identifier. `loop` and `enum[p]` hold the program
counter and the locals of the provider loop and of every enumeration. One action is one critical section: a
step that takes `n.m` or `nodeLock` in the code is one step here, and two critical sections in a row are two steps
(`RemoveLookup` and `RemoveStale`, for example, are the two halves of `removeDevice`, which looks the node up and then locks it).

| Code | Actions |
|---|---|
| `providerLoad`, `-Node`, `-Device` | `Boot`, `LoadNode`, `LoadDevice`, `LoadUniqueId`, `LoadNext` |
| `receiveNodeJoinEvent`, `onNodeJoin` | `JoinNode`, `JoinDevice`, `JoinAdvertise` |
| `receiveNodeLeaveEvent` | `Leave`, `LeaveDevice`, `LeaveNode` |
| `startEnumeration`, `enumerate` | `Enumerate`, `Interrogate` (answered, or a failure that ends it), `Release` |
| `updateNodeTable` | `CollectUnset`, `MatchExisting`, `AssignReuse`, `AssignPick`, `AssignCreate`, `AssignIdentify`, `CollectStale`, `RemoveLookup`, `RemoveStale`, `TableUpdated` |
| `updateCapabilitiesOnDevice`, as far as it touches sections | `UpdateCapabilities` |
| end of the loop, end of the process | `Stop`, `Crash` |

Two constants describe the environment: `LeaveOverlapsEnumeration` (a node may leave while it is being enumerated) and
`EnumerateDuringLoad` (a consumer may enumerate the devices announced so far while the load still goes on).
The code guards against neither. Properties that hold regardless are checked with both allowed (`nodetable_racy`) and proved;
those that do not are checked with both excluded (`nodetable_quiet`), and section 5 says how they fail.

`DeviceFeed` is the abstract specification: identifiers are announced and withdrawn in turn, `Devices()` lists the announced
ones, and a device stands for one endpoint until it is withdrawn, over restarts. `Feed` in `NodeTable` is the refinement mapping
(`identity` is read off persistence, which is what survives a restart) and `ImplementsDeviceFeed` the property.

### DeviceCapabilities

One device. `held` is `d.capabilities` (by the implementation behind each), `implKey` and `data` are what its
sections hold, `running` the objects that listen on the network, `announced` the consumer's view, `results`
the report behind `EnumerateDevice.Status`. `device.m` is held through an enumeration, so the only thing that comes between its steps
is a crash. The actions follow `enumerateCapabilityOnDevice` branch by branch: `Unknown`, `Multiple`, `Reenumerate`, `Replace`, `Create`,
`Enumerate`, `Attach`, `Reject`, `Panic`, then `AllTried`, `DetachRedundant`, `Publish`. `panicked` is a history variable that names the objects a recovered
panic has let go of. That `Enumerate` of a capability stores what its `Load` needs is an assumption here; for power
supply it is what `PowerSupply` checks, and for a monitor what `AttributeMonitor` does.

### DeviceDiscovery

`Enable` and `Disable` one statement a step (neither takes a lock), run by consumers and by timer callbacks alike, and `Stop`; the timer field is read twice where the code
reads it twice (`IfTimer`, `StopOld`), and a call that finds it cleared at the second read panics; a provider whose requests may
fail, possibly after they took effect. `latest` is the timer of the Enable last answered: the window the consumer was promised. `past` records whether calls have overlapped, the consumer has disabled, or
a request has failed, so that each promise can say under which of these it holds. `allowExpiresAt` is left out: only Status reads it.

### AttributeMonitor

One monitor object and its section, through Load or Attach, further Attaches (each enumeration makes one), and Detach. The k-th
start registers match k, makes ticker k and starts poller k; `match` and `ticker` are the two fields, each of which remembers
only the last. The poller is split where it shares state with Detach: evaluating `z.ticker.C` (`Select`), the two cases of the select, `z.ticker.Stop` (`StopTicker`), and the
deferred close (`Close`). A panic ends the process (`panicked`). `CrashDuring` says at which points of the life of the object the process may end.

### PowerSupply

The eight sources (a supply and a quantity) in the order of the code; the node's clusters, PowerSource attribute and
attributes are chosen initially, and each query may fail. `target` is the attribute a monitor listens to, `stored` the one it would load,
`reading` the attribute whose value a reading shows, `orphans` what dropped objects still listen to. The values of readings and the thresholds of
announcements are left out. `Attach` of a monitor does not fail in the modes used here, as `Configure` in `AttributeMonitor` shows.

### RuleCompilation, RuleExecution and RuleEngine

`compileRuleSet` with its recursion as a stack of frames, whose names are the `trail`; the compiled rules as the sequence of the
rule sets they come from. `RuleExecution` walks a rule tree, given as its preorder with depths; filters
and values are outcomes (match, no match, failure). Expressions, JSON and the directory walk are not modelled.

`RuleEngine` composes the two: the rule sets are compiled, and their contents executed in the order compilation has left them in (`Compiled`).
It states what dependencies are for (`DependentOverrules`), which is a property of neither part alone.

### EventDelivery

What is sent, and with which mutexes held. A goroutine (the provider loop, the enumerations, the consumer) is the *list of the
instructions it has yet to execute*: take or free a mutex, send, change a table, or an instruction that stands for what the code goes on to
do once it is reached (`Starts` becomes an event for each device the node has at that moment). So a handler of the source reads as one
definition (`CreateDevice`, `RemoveFound`, `UpdateNodeTable`, `Join`, `Leave`), and each instruction is an action. A mutex is a
Go `RWMutex`: a writer that waits keeps new readers out (`AskForWriting`, `TakeForWriting`). The goroutines that enumerate are `Session`, a bound: one is started only if there is one to spare.

| Code | Definitions |
|---|---|
| `sendEvent`, `ReadEvent` | `SendEvent`, `ReadEvent` with the calls its caller may make before it reads again (`Call`) |
| `createNode`, `removeNode`, `createNextDevice`, `removeDevice`, `setDeviceUniqueId` | `SetKnown`, `CreateDevice` with `Put`, `RemoveDevice`, `RemoveFromNode`, `RemoveFound` with `GetNode`, `RemoveIfThere`, `Drop`, `SetUniqueId` |
| `receiveNodeJoinEvent`, `receiveNodeLeaveEvent`, a report | `Receive`, `Join`, `Leave`, `Snapshot`, `RemoveNode` |
| `startEnumeration`, `enumerate` | `StartEnumeration`, `Begin`, `Starts`, `Interrogate`, `Survey`, `Release`, `Stops`, `Status` |
| `updateNodeTable`, `updateCapabilitiesOnDevice` | `UpdateNodeTable`, `LookAt`, `UpdateCapabilities`, `Attach` |
| `Devices`, `Capability`, `Capabilities`, `Enumerate` of a consumer | `Call`, `List`, `PassReading`, `StartEnumeration` |

What the model leaves out: mutexes that are never held while another is asked for or an event is sent (they cannot take part in a blockage);
the critical section that picks a sub-identifier, in which nothing blocks; a critical section in which nothing blocks is one step, once the mutex is to be had. Several
capability events in a row are one. The tables are reduced to what the events are about.

### Sensor, Identify, ProductInformation, DeviceWorkarounds (CapabilityValues)

The capabilities that keep a value. `Sensor` is the one shape of the temperature, humidity and pressure capabilities, which differ in an
offset and a threshold (`kind`), with the value last reported (`reported`) and the value the consumer has (`told`) as history. The code computes
in floating point, so a change that is exactly the threshold may go either way. `Identify` has one *chain* for each
update: the stored end time, then an event, and a timer that sends the next one as long as the node identifies; a chain reads
the time (`Look`) and sends what it read (`Send`) in two steps, and chains overlap. `ProductInformation` has the fields in memory and in the section, which
drift apart, over enumerations that fail half way. `DeviceWorkarounds` is Enumerate statement by statement: the list and its section are reset, the node is
told (with a request whose answer may be lost after the node took it), then the list grows; the process may end between any two.

`CapabilityValues` puts one of the four on a device for one run. They share no state.

## 3. The runs

All bounds are constants of the .cfg or of the MC module.

| Run | What it asks | Bounds |
|---|---|---|
| `nodetable_quiet` | `StoreMirrorsTable`: persistence is the tables. `EnumerationReconciles`: one device per endpoint found, and no other. `LeaveForgetsNode`. `ImplementsDeviceFeed`. `WithdrawnOnlyWhenGone`: an identified device goes only with its node or its endpoint. | 1 address, 2 node objects (a leave and a rejoin, or a restart), 3 device objects, endpoints 1 and 2, sub-identifiers 0..2, 1 goroutine, 1 crash |
| `nodetable_racy` | `TableAgreesWithNodes`, `ListedDevicesAnnounced` in any environment (also proved, for any bounds) | the same with 2 goroutines, 4 device objects, 1 endpoint, sub-identifiers 0..1 |
| `nodetable_leave` | violation, section 5 | as `racy` without crashes, 1 goroutine |
| `devicediscovery_sound` | `OpenWindowHasTimer`, `StatusTruthful`, `ExtensionHonoured`, `NetworkCloses` | 2 callers, 3 timers (plus reuse) |
| `devicediscovery_stale` | violation | 1 caller, 3 timers |
| `attributemonitor_sound` | `NoPanicWhileAttached`, `OneSubscription`, `SourceWhileAttached`, `DetachedFallsSilent` | 3 starts, all modes, crashes outside two windows |
| `attributemonitor_panic` | violation | 2 starts |
| `devicecapabilities` | `SurvivesRestart`, `AnnouncedAsHeld`, `NobodyListensInVain`, `ReportTruthful` | 2 capabilities, 3 known names (2 of one capability), 1 unknown; any number of enumerations and crashes |
| `powersupply` | `Loadable`, `PresentIsHeard`, `ReadingsTrue`, `NothingLeftListening`, `NoPhantomSupply` | every PowerSource, any of 5 attributes, 2 enumerations, any number of crashes |
| `ruleengine` | `DependenciesFirst`, `OnceEach`, `VerdictRight`, `Terminates` of compilation; `LastRuleDecides`, `FailsIfReached` of execution; `DependentOverrules` of both | 3 rule sets, lists of up to 2 dependencies, any of them missing or broken; a rule set compiled alone holds any tree of up to 3 rules, several hold a rule each; 1 capability |
| `eventdelivery` | `OnlyACallBlocks`: nothing but a call of the consumer stops the gateway for good. `LoopReturns`: short of that every handler of the provider loop ends. `ToldStopped`, `SessionEventsOfListed`, `StoppedUnlessAsked`: what the events of an enumeration say | 1 node that joins once and leaves once, 2 device objects each made once, 2 enumerations at a time of which 1 interrogates successfully, 1 call of the consumer |
| `capabilityvalues` | `ToldIsCurrent` of the sensors, `EndAnnounced` of Identify, `InfoSurvives` of product information, `EnabledInForce` of workarounds | 12 values around the thresholds; 4 overlapping updates of up to 3 seconds; 2 fields, 2 values; 2 settings; any number of enumerations and restarts |

Why the bounds are enough. The races of the tables are between one handler and one enumeration of the same address, or between the enumeration of an old
node object and a new one; addresses meet only in the outer map, whose entries the code treats alike. Three devices over two endpoints
make every branch of `updateNodeTable` happen in one enumeration: a match, a reuse of the device without an id, a creation, a stale one. Device objects are
reused once nothing refers to them. With three timers one may be armed and forgotten while a second is armed and the callback of a third runs. A third start
of a monitor meets nothing a second has not. Circles of three, diamonds and shared
dependencies all fit three rule sets; the theorems lift that bound. In `eventdelivery` a blockage needs a goroutine that sends with a mutex held and one that waits for it
with another held: two devices suffice for each of the nested pairs (gateway and node, node and device), two enumerations for one that starts before the last has sent its
events, and a consumer that is blocked makes no second call. Four updates of Identify are one to start, one to shorten, one to extend and one to overlap them.

`CHECK_DEADLOCK FALSE` is used where the system may stop: the provider loop ends (`Stop`) and enumerations run out of node objects in `NodeTable`; after
`ZDA.Stop` nothing happens in `DeviceDiscovery`; a monitor ends detached, or with the process; the rules return; in `EventDelivery` a consumer can
block the gateway for good, which is what `OnlyACallBlocks` is about, and the node leaves in the end; in `CapabilityValues` Identify ends detached with its time over. `DeviceCapabilities`
and `PowerSupply` never stop, and are checked for deadlock.

Symmetry is used only in the `NodeTable` runs, which have no liveness properties: addresses, objects and goroutines are compared for equality only.
In `quiet` the refinement and the action property are evaluated on steps, and every state they read is symmetric in these sets.

### Assumptions on the environment inside the properties

- `OpenWindowHasTimer`, `NetworkCloses`: no request to the provider failed. A `DenyJoin` that fails in a timer callback is only logged, and the
  network stays open.
- `StatusTruthful`: calls and callbacks did not overlap. `ExtensionHonoured`: nor did the consumer disable. Both fail otherwise.
- `OneSubscription`, `DetachedFallsSilent` (and `NoPanicOnce`, which is proved): the object was attached or loaded once. They fail for one attached twice.
- `SourceWhileAttached`: no crash between storing the parameters and configuring reporting, nor in the middle of Detach (`CrashDuring`). Inside
  these windows Load finds parameters and neither flag; the next enumeration repairs it.
- `PowerSupply`: `Supported` nodes only, for all but `NoPhantomSupply`; the run includes nodes that are not, whose steps are checked against the other properties.
- Endpoints start from 1.
- `LoopReturns`: except where a call of the consumer has blocked everything. `StoppedUnlessAsked`: the consumer asked for no enumeration itself.
- `EndAnnounced`: the end time is over for good; a node that is asked to identify for ever is told of for ever.
- `ReportTruthful`, `NoPhantomSupply`: see the comment at each.

### Fairness

- `DeviceDiscovery`: weak fairness of every goroutine within a call and of every armed timer.
- `AttributeMonitor`: weak fairness of Detach and of the pollers; strong fairness of the stop case of each poller's select, since Go chooses among
  ready cases at random, so that a tick that is ready each time round does not win for ever.
- `RuleEngine`: weak fairness of the one goroutine there is.
- `EventDelivery`: weak fairness of `ReadEvent`: the consumer keeps reading. Strong fairness of each goroutine: senders wait for a Go channel in a queue, first come first served, and
  so do those who wait for an `RWMutex`, so that a goroutine that can go on again and again does so. Joins, leaves and reports are owed nothing.
- `Identify`: weak fairness of time and of each chain (timers fire and goroutines run). Reports, calls, Detach and restarts are owed nothing.
- `NodeTable`, `DeviceCapabilities`, `PowerSupply` and the other values have no liveness property and no fairness.

## 4. The proofs

### NodeTable_proofs

For any addresses, devices, goroutines and environment, and the assumptions of `NodeTableAssumption` (endpoints are natural numbers, `MaxSub` and `MaxCrashes`
natural, the null values outside their sets, `NodeObj` finite):

- `IInvInductive`, `TypeCorrect`. `TypeOK` is not inductive: a step through a pointer keeps it only if the pointer is good. `IInv` adds
  `References`: the table holds allocated nodes under their own address (`TableOwns`), every device filed on a node was created on an
  allocated one (`Pointers`), and at each program point the locals of the loop and of an enumeration hold what the code relies on there (`LoopGood`,
  `EnumGood`), such as that every endpoint already assigned has a device. Most of the argument is that no step but a crash takes an
  object's allocation away (`Keeps`), so that only what a step stores needs a look.
- `EnumerationIsExclusive`: `ExclusiveEnumeration`, from `IInv` (no run checks it; nor `TypeOK` nor `NoPanicOnce` below). Whatever handles of forgotten nodes consumers keep, a node object is
  enumerated once at a time and its semaphore is taken exactly then.
- `TablesAgree`: `TableAgreesWithNodes`. The effect of any step on the tables is summed up once (`NextTableEffect`) and the invariant `DeviceAddresses` is
  preserved by each kind of effect.
- `ListedAnnounced`: `ListedDevicesAnnounced`. The invariant counts: the balance of an identifier is at least the number of nodes of its
  address that file a device under it, which is why removals on behalf of a forgotten node never take a listed device below one.

The rest is about the quiet environment, and assumes `Quiet`: the two constants of the environment are FALSE, and endpoints are numbers from 1 that a sub-identifier can be
(both are `uint8` in the code; endpoint 0 is that of the device object, and section 5 says what becomes of it). Nothing else is bounded: any addresses, objects, goroutines, restarts.

- `StoreMirrors` (`StoreMirrorsTable`), `EnumerationIsComplete` (`EnumerationReconciles`), `LeaveForgets` (`LeaveForgetsNode`), `WithdrawnWhenGone` (`WithdrawnOnlyWhenGone`) follow from one
  invariant, `QuietIInv`. What a property says at rest has to be said of the middle of every operation too. `Books`: persistence is the table and what the load has
  yet to come to, section by section (`Sections`); no two sections of a node carry one endpoint (`Identities`); a node the table has lost files nothing (`Objects`); the consumer was told once of what is
  listed (`Told`). `LoopQuiet`: what the provider loop knows of the node at hand, such as that a device being loaded has a section and no id yet. `EnumQuiet`: the node of an
  enumeration stays in the table and the loop keeps off it (`EnumPlace`), and what the enumeration has collected is still so (`EnumWork`): the devices without an id, the endpoints found, the devices none was found
  for. That the two do not disturb each other is `ExclusiveEnumeration` and the quiet environment; an enumeration of a node the table has lost would break each part, which is what the run `nodetable_leave` shows.
- `FeedIsImplemented`: `ImplementsDeviceFeed`, the refinement. Each action is a step of `DeviceFeed` or leaves `Feed` as it is: the announcements of load, join and enumeration are `Announce`,
  removals are `Withdraw`, the end of the process is `Restart`, and giving a device its endpoint is `Identify`, which needs that no other device of the node has that endpoint.

### RuleEngine_proofs

Of compilation, for any number of rule sets and any dependency lists (`CompilationAssumption`): `IInvHolds`, and from it `RulesFollowDependencies` (`DependenciesFirst`), `CompiledOnce` (`OnceEach`)
and `VerdictIsRight` (`VerdictRight`). None of the three is inductive. `IInv` says that the stack is a chain in which each call waits for the dependency it
is at (`Waiting`), without repetition (`OneCallEach`), for rule sets not yet marked (`Calls`); that `alreadyLoaded` marks exactly the compiled ones (`Marked`), which are
closed under dependency (`Sound`) and free of circles (`NoCircle`). `CompileTypeCorrect` bounds the recursion: one call more than there are rule sets would be a second call for one of them, a pigeonhole argument. "circular" is right because the frames from the dependency upwards are a circle (`CircularIInv`); "ok" because a
set that is closed under dependency and was marked one by one has none.

Of execution, for trees of any size and depth (`ExecutionAssumption`): `FailsRightly` (`FailsIfReached`) and `LastSayHolds` (`LastRuleDecides`). The program counter runs over a preorder, so the work is in where it jumps: the
parents of the rule behind a subtree are parents of its root (`ParentsOfPast`), and whatever is jumped over lies below that root (`PassedOver`). Hence the next rule is always one a reader would run (`Progress`), and the output is what the rules before it
make of it (`Settled`). That `PastChildren` finds a rule at all is that a set of numbers that is not empty has a least one (`LeastOf`).

Of both, with any contents of the rule sets (`EngineAssumption`): `DependentsOverrule` (`DependentOverrules`). `EngineIInv` is the two invariants together, and that what is executed is what compilation has left (`Compiled`). The program is one
tree behind another, and the argument is about that concatenation: a place in it is a place in the tree of one rule set, its parents lie in the same tree, so that it is reached and matches there just when it
does in the whole. The last rule with a say in a capability is therefore the last such rule of the last rule set with a say, and `DependenciesFirst` puts every rule set behind what it needs, itself or through
others (`Needs`). `EngineIsRight` gives the five properties of the parts for the engine as a whole.

### DeviceCapabilities_proofs

For any factory, implementations and capabilities (`CapabilitiesAssumption`): `RestartKeepsCapabilities` (`SurvivesRestart`), `ConsumerSeesHeld` (`AnnouncedAsHeld`),
`OnlyHeldListen` (`NobodyListensInVain`) and `ReportsAreTrue` (the action property `ReportTruthful`). The strengthening is about the object whose Enumerate runs (`Working`): its section
names it, nothing but itself is held for its capability, and this enumeration has not made that capability active. Without it, attaching could leave a capability with
no section and rejecting could drop an active one. `Reported` is what makes the report right: an active capability is not asked for again
under the name it is held by, so that one missing from the report has met a second name.

### DeviceDiscovery_proofs

For any callers and timers (`DiscoveryAssumption`). `OpenWindowIsWatched` (`OpenWindowHasTimer`) holds in every interleaving and needs only that Stop alone is at the points of Stop.
`StatusIsTrue` (`StatusTruthful`) and `ExtensionsHold` (`ExtensionHonoured`) are about calls that come one after another: `Serial` says that at most one is
under way, `InStep` what it has done so far at each of its points, `OneWindow` that the only timer that may be armed is that of the window promised last.

### AttributeMonitor_proofs

For any number of attaches and any modes (`MonitorAssumption`), with a process that may end at any point: `NoPanicWhenOnce` (`NoPanicOnce`), `NoPanicAttached` (`NoPanicWhileAttached`), `SubscribedOnce` (`OneSubscription`). Until Detach has told
a poller to stop, every poller runs on a ticker and the stop channel is untouched (`InOrder`); after it, a single poller owns them (`Once`). `SourceOfValues` (`SourceWhileAttached`) assumes of `CrashDuring` what the
run does, and adds that what is persisted keeps the promise of the modes whenever Load may have to go by it (`Configured`) and that a poller runs where polling is configured (`Polled`).

### PowerSupply_proofs

For any attributes and values of PowerSource, any number of enumerations and restarts (`PowerAssumption`): `RestartResumes` (`Loadable`), `ShownIsHeard` (`PresentIsHeard`), `ReadingsAreTrue`
(`ReadingsTrue`) and `DetachIsComplete` (`NothingLeftListening`). They stand together in one invariant: what is flagged present is an attribute of the node (`Real`); for a supported node each monitor, its stored
parameters and each reading have to do with their own source, and what listens is flagged (`Own`); while Enumerate goes through the sources, those behind it that are flagged are listened to
(`Heard`). `Real` is what makes the rest go through: a source that is flagged is one of the node, and so one of those that the code handles as their own. `ShowsNoPhantom` (`NoPhantomSupply`) has an
invariant of its own, `SIInv`: no supply is known before PowerSource has been read for the first time.

### EventDelivery_proofs

For any number of devices, of enumerations at a time and of calls of the reader (`DeliveryAssumption`). What a goroutine has yet to do is a list of instructions, and the proof reads these lists. A *stand* (`Stand`) says where a
goroutine is: the mutexes it holds, the instruction that is due if the last one calls for it, the devices it found in the table and may speak of, how far it is with an enumeration, and the devices of which it has yet to say
"stopped". `Ok` says which instruction leads from one stand to which other, and `Goes(c, s, t)` that the list `c` leads from `s` to `t`. That is shown once for each program of the model (`CreateGoes`,
`RemoveFoundGoes`, `UpdateGoes`, `JoinGoes` and the others), and two lists that fit together fit as one (`GoesOn`). It is where the code's discipline is found out: `Allowed` has the order of the mutexes, `Owes` that a device is announced as soon as it is in the table, `Staged` and `Stopping` that
the deferred function of `enumerate` undoes what was begun.

`IInv` then says that every list leads from the stand of its goroutine to the end with nothing held (`Follows`), and relates the stands to the state: a device that may be spoken of is known to the reader (`Finds`), the reader
knows the devices of the table but for one that is announced or taken out next (`Tables`), whoever is known to be enumerating is yet to be told of (`Ends`), before the reader calls anything there is one enumeration, that of the join (`First`), and a mutex is asked for alone while it is read
(`Alone`). It was checked by TLC on the instance of the run before it was proved, with the stands computed from the lists. `IInvHolds` has a lemma for each action; where an instruction becomes a program, the lemma fits the program in.

- `NoDeadlock` (`OnlyACallBlocks`): if all that have something to do wait, and the reader reads, nobody waits for the channel. Then each waits for a mutex that is taken (`WaitsFor`), its holder waits for one further down (`WaitsBelow`), and
  gateway, node, device is as far down as it goes.
- `EndsAreTold` (`ToldStopped`): from `Ends`, as only who enumerates owes a "stopped" (`GoesEnumerates`).
- `OfListedOnly` (`SessionEventsOfListed`): from `Finds`, when the event is sent. `StoppedSaysOver` (`StoppedUnlessAsked`): from `First`.

### CapabilityValues_proofs

For any values, fields and settings, and for whichever of the capabilities is on the device:

- `ConsumerIsCurrent` (`ToldIsCurrent`): while a sensor is attached, the value the consumer was told is the stored one, and the last report was compared with it.
- `InfoIsKept` (`InfoSurvives`, with `InfoAssumption`: the marks for no value are no values): the device holds the capability exactly when the object has its information, and a field in memory is in the section too
  (`InfoIInv`), also past an enumeration that ends at a setting that is no string.
- `WorkaroundsInForce` (`EnabledInForce`): at each statement of Enumerate, what is stored and not listed yet is still to be listed by the enumeration that runs, and nothing is stored that the node was not told (`WorkaroundsIInv`).

### Only model-checked

Liveness under fairness, which TLAPS does not do: `NetworkCloses`, `DetachedFallsSilent`, `Terminates`, `LoopReturns`, `EndAnnounced`. For `LoopReturns` the half that is about safety is `NoDeadlock`. `Identify` has no property but its
liveness. Every invariant, every action property and the refinement that the passing runs check is a theorem.

## 5. Disagreements between the code and what is said of it

Three have a run that ends in a violation (`findings` in `PROJECT.json`):

1. `nodetable_leave`: a leave takes a snapshot of the devices (`provider_loop.go:53`) and then removes the node. An enumeration that creates or identifies a device in between leaves it
   announced and writes the section of the node again, so the next start loads a node that has left.
2. `devicediscovery_stale`: Disable forgets the timer without stopping it (`device_discovery.go:70`); after Enable, Disable, Enable the first timer closes the second window.
3. `attributemonitor_panic`: each re-enumeration starts another poller; at Detach the first poller to stop clears `z.ticker` and closes the channel, and the next one panics.

More were met while modelling. Each can be seen by relaxing what the model assumes:

- A device that an enumeration creates during the load is displaced by the stored device of that number (`table.go:110`): `EnumerateDuringLoad = TRUE`, `ImplementsDeviceFeed`.
- The device without a unique id matches endpoint 0, because `deviceIdSet` is not looked at (`enumerate_device.go:279`), and is then handed to another endpoint too: `Endpoint = {0, 1}`, `EnumerationReconciles`.
- A callback of Disable that overlaps an Enable leaves `discovering` false on an open network (`device_discovery.go:53`), or clears the timer field between the two reads of it in Enable or Stop (lines 39 and 89), which then panics: `StatusTruthful` without "overlap".
- A monitor attached twice hears each report twice, and the first match is never unregistered (`attribute/monitor.go:143`): `OneSubscription` without `starts <= 1`.
- A capability rejected by its first enumeration keeps its section, because `detachCapabilityFromDevice` returns early for one the device does not hold (`table.go:197`); the next start loads it
  (`DeviceCapabilities!Reject` followed by `Crash` and `LoadDevice`).
- The frequency of the mains is given to the voltage's monitor (`implcaps/zcl/power_supply/impl.go:266`), so that the capability does not load after a restart; the third battery's attributes are taken for the first's (`impl.go:478`); and mains with a
  battery backup, enumerated twice, gains a second battery (`impl.go:165`): `Loadable` and `ReadingsTrue` without `Supported`, `NoPhantomSupply` without its condition.
- A consumer that calls `Devices()`, or `Capability()` of a device, between two reads of events can block the gateway for good: the sender of the next event holds the mutex it asks for (`table.go:128`, `table.go:175`,
  `enumerate_device.go:75`), and waits for the slot that only the consumer would empty. No comment says that it must not: `OnlyACallBlocks` without `Busy("consumer")`, and `LoopReturns` without its exception.
- The Stopped event of an enumeration may say `Enumerating: true`, when another was asked for after the semaphore was released and before the status was read (`enumerate_device.go:82`; `enumerate_device_test.go:59` expects the
  opposite of one alone): `StoppedUnlessAsked` without `calls > 0`.
- `d.capabilities` is deleted from under a read lock (`table.go:171`) and written to under none while a device is loaded (`provider_load.go`), while other goroutines may read it. A race on a Go map ends the process.
- A field that a rule no longer sets is gone from memory and stays in the section (`implcaps/generic/product_information/impl.go`), so that it comes back at the next start. `impl_test.go:75` of that package expects
  the same output after a reload, and gets it because it enumerates once. `InfoSurvives` says the one direction; the other, `info[f] # Empty => pi[f] # Empty`, fails.
- The timers of Identify are not stopped by Detach: a capability that is no longer the device's goes on to send events until its time is over (`implcaps/zcl/identify/impl.go:145`). Each update starts another chain, so that events come several times a second.
- The power supply stores every report and compares the next with it (`implcaps/zcl/power_supply/impl.go:441`), so a value that drifts slowly is never announced. The sensors store what they announce. `UpdateStoringAll`, the mutant of `Sensor!Update`, is the rule of the power supply, and `ToldIsCurrent` fails of it.
- A first humidity of one per cent or less is within the threshold of the zero a sensor starts from, and is not announced. The value by which ZCL says "unknown" (0x8000, 0xffff) is passed on as a measurement.

## 6. Not modelled, and why

- The radio, the ZCL communicator and the persistence library: external; modelled by how the code calls them.
- Logging, keys, mocks, the wiring in `gateway.go`: no behaviour of their own. `Remove` of a device only asks the provider for a leave.
- JSON rule loading and expression evaluation: data, no state that another part can disturb.
- The transaction sequence of a node: a channel with room for all of its 255 numbers, from which a call takes one and puts it back. Two calls may put theirs back in the other order; nothing relies on the order, and the channel can
  neither overflow nor run dry before 255 calls run at once.
- Retries of single queries: a query is answered or it is not, after however many attempts; a retry changes nothing at the node and is invisible to the rest.
- The 256th device of a node, which is given number 255 whether or not that is taken (`node.go`): a node has at most 240 endpoints, a device for each and one made when it joins.
- That a node which is known and joins again is not enumerated: a decision of the code, and a step the model has (`NodeTable!JoinNode`).
- Unsynchronised map access (`table.go:171`): see section 5. The map is not a variable of `EventDelivery`; with it any property would fail at once.
- Readings of the power supply and their thresholds: the values are abstracted to the source they come from.

## 7. What is left

In order of what it would add:

1. The two compositions not made: a device's power supply run through `DeviceCapabilities`, which now assumes that what Enumerate stores is what Load needs, and the devices of `EventDelivery` taken from `NodeTable`.
2. A safety property of `Identify` that says when its chains overlap, and its proof.
3. More than one node in `EventDelivery`: the mutexes of two nodes are never held together, so that the order gateway, node, device would do for it too.
