---------------------------- MODULE PowerSupply ----------------------------
(***************************************************************************)
(* The power supply capability of a device                                 *)
(* (implcaps/zcl/power_supply/impl.go): found out by Enumerate, resumed by *)
(* Load, given up by Detach and fed by the reports its attribute monitors  *)
(* hear.  A source is a supply and the quantity measured of it; there is   *)
(* one monitor and one reading for every source.  Attach of a monitor does *)
(* not fail with the modes used here (AttributeMonitor.Configure).         *)
(***************************************************************************)
EXTENDS Naturals, Sequences

CONSTANTS
  Attributes,       \* the sources a node may have an attribute for
  PowerSources,     \* values of PowerSource: [main |-> ..., backup |-> ...]
  MaxEnumerations   \* bound: calls of Enumerate

Battery == <<"battery0", "battery1", "battery2">>
Supply  == {"mains"} \cup {Battery[n] : n \in DOMAIN Battery}

MainsVoltage   == <<"mains", "voltage">>
MainsFrequency == <<"mains", "frequency">>

\* The order in which Enumerate and Load go through the sources.
Order == <<MainsVoltage, MainsFrequency,
           <<"battery0", "percentage">>, <<"battery0", "voltage">>,
           <<"battery1", "percentage">>, <<"battery1", "voltage">>,
           <<"battery2", "percentage">>, <<"battery2", "voltage">>>>
Source == {Order[k] : k \in DOMAIN Order}

NoSource == <<"none", "none">>
Of(s)    == s[1]

ASSUME PowerAssumption ==
  /\ Attributes \subseteq Source
  /\ PowerSources \subseteq [main : {"mains", "battery", "unknown"}, backup : BOOLEAN]
  /\ MaxEnumerations \in Nat

VARIABLES
  node,       \* the node: its clusters, PowerSource and attributes
  op,         \* where the life of the capability is
  at,         \* the part of Enumerate that is next, an index
  attach,     \* the attach flags and errors gathered by Enumerate
  held,       \* the device holds the object
  supplies,   \* mainsPresent and batteryPresent
  present,    \* the sources flagged present
  supplyKey, presentKey,  \* persisted: the same
  target,     \* the attribute each monitor of the object listens to
  stored,     \* persisted: the attribute each monitor would Load
  reading,    \* persisted: the attribute whose value each reading is
  orphans,    \* attributes that dropped objects still listen to
  count       \* calls of Enumerate

memory    == <<at, attach, supplies, present, target>>
persisted == <<supplyKey, presentKey, stored, reading>>
vars == <<node, op, held, memory, persisted, orphans, count>>

Nobody     == [s \in Source |-> NoSource]
NoAnswers  == [basic |-> FALSE, power |-> FALSE, failed |-> FALSE]

TypeOK ==
  /\ node \in [basic : BOOLEAN, power : BOOLEAN, source : PowerSources,
               attributes : SUBSET Attributes]
  /\ op \in {"new", "basic", "mains", "battery", "monitors", "finish", "attached", "down"}
  /\ at \in 1..Len(Order)
  /\ attach \in [basic : BOOLEAN, power : BOOLEAN, failed : BOOLEAN]
  /\ held \in BOOLEAN
  /\ supplies \subseteq Supply /\ supplyKey \subseteq Supply
  /\ present \subseteq Source /\ presentKey \subseteq Source
  /\ {target, stored, reading} \subseteq [Source -> Source \cup {NoSource}]
  /\ orphans \subseteq Source
  /\ count \in 0..MaxEnumerations

Init ==
  /\ node \in [basic : BOOLEAN, power : BOOLEAN, source : PowerSources,
               attributes : SUBSET Attributes]
  /\ op = "new" /\ at = 1 /\ attach = NoAnswers /\ held = FALSE
  /\ supplies = {} /\ present = {} /\ supplyKey = {} /\ presentKey = {}
  /\ target = Nobody /\ stored = Nobody /\ reading = Nobody
  /\ orphans = {} /\ count = 0

\* The object is dropped: what it still listens to nobody can detach.
DropObject(listening) ==
  /\ orphans' = orphans \cup ({listening[s] : s \in Source} \ {NoSource})
  /\ held' = FALSE /\ supplies' = {} /\ present' = {} /\ target' = Nobody
  /\ at' = 1 /\ attach' = NoAnswers

DeleteSection ==
  /\ supplyKey' = {} /\ presentKey' = {} /\ stored' = Nobody /\ reading' = Nobody

-----------------------------------------------------------------------------
\* Enumerate is called.
Begin ==
  /\ op \in {"new", "attached"} /\ count < MaxEnumerations
  /\ count' = count + 1
  /\ attach' = NoAnswers
  /\ op' = IF node.basic THEN "basic" ELSE IF node.power THEN "mains" ELSE "finish"
  /\ at' = 1
  /\ UNCHANGED <<node, held, supplies, present, target, persisted, orphans>>

\* enumerateBasicCluster: what a value of PowerSource adds to the supplies that
\* are known; a backup is the second battery where there is a first.
Found(v, known) ==
  LET main == known \cup (IF v.main = "mains" THEN {"mains"}
                          ELSE IF v.main = "battery" THEN {"battery0"} ELSE {})
  IN main \cup (IF ~v.backup THEN {}
                ELSE IF "battery0" \in main THEN {"battery1"} ELSE {"battery0"})

\* enumerateBasicCluster: the read is answered with a value, answered without
\* one, or fails.
ReadBasic ==
  /\ op = "basic"
  /\ \/ /\ supplies' = Found(node.source, supplies)
        /\ attach' = [attach EXCEPT !.basic = TRUE]
     \/ UNCHANGED <<supplies, attach>>
  /\ supplyKey' = supplyKey \cup (supplies' \cap {"mains", "battery0", "battery1"})
  /\ op' = IF node.power THEN "mains" ELSE "finish"
  /\ UNCHANGED <<node, at, held, present, target, presentKey, stored, reading, orphans, count>>

\* Sources are flagged present, and their supplies with them; none is ever
\* flagged absent again.
Flag(found) ==
  /\ present' = present \cup found
  /\ supplies' = supplies \cup {Of(s) : s \in found}

\* enumeratePowerConfigurationCluster: voltage and frequency of the mains.
ReadMains ==
  /\ op = "mains"
  /\ \/ LET found == node.attributes \cap {MainsVoltage, MainsFrequency} IN
          /\ Flag(found)
          /\ attach' = [attach EXCEPT !.power = found # {}]
     \/ /\ attach' = [attach EXCEPT !.failed = TRUE]
        /\ UNCHANGED <<supplies, present>>
  /\ op' = "battery" /\ at' = 1
  /\ UNCHANGED <<node, held, target, persisted, orphans, count>>

\* Mutant of ReadBattery: a battery is taken to be there before the status of
\* its attributes is looked at.
ReadBatteryUnchecked ==
  /\ op = "battery"
  /\ present' = present \cup {s \in node.attributes : Of(s) = Battery[at]}
  /\ supplies' = supplies \cup {Battery[at]}
  /\ attach' = [attach EXCEPT !.power = TRUE]
  /\ IF at < Len(Battery) THEN at' = at + 1 /\ UNCHANGED op
                          ELSE at' = 1 /\ op' = "monitors"
  /\ UNCHANGED <<node, held, target, persisted, orphans, count>>

\* enumeratePowerConfigurationCluster: a battery; any answer is reason enough to
\* attach.
ReadBattery ==
  /\ op = "battery"
  /\ \/ /\ Flag({s \in node.attributes : Of(s) = Battery[at]})
        /\ attach' = [attach EXCEPT !.power = TRUE]
     \/ /\ attach' = [attach EXCEPT !.failed = TRUE]
        /\ UNCHANGED <<supplies, present>>
  /\ IF at < Len(Battery) THEN at' = at + 1 /\ UNCHANGED op
                          ELSE at' = 1 /\ op' = "monitors"
  /\ UNCHANGED <<node, held, target, persisted, orphans, count>>

\* The monitor that Enumerate attaches for a source: the frequency of the mains
\* is given to the monitor of their voltage.
MonitorFor(s) == IF s = MainsFrequency THEN MainsVoltage ELSE s

\* Mutant of AttachMonitor: the flag is persisted and the monitor forgotten.
AttachNoMonitor ==
  /\ op = "monitors"
  /\ supplyKey' = (supplyKey \ {Of(Order[at])}) \cup (supplies \cap {Of(Order[at])})
  /\ presentKey' = presentKey \cup (present \cap {Order[at]})
  /\ UNCHANGED <<target, stored>>
  /\ IF at < Len(Order) THEN at' = at + 1 /\ UNCHANGED op
                        ELSE at' = 1 /\ op' = "finish"
  /\ UNCHANGED <<node, held, attach, supplies, present, reading, orphans, count>>

\* enumeratePowerConfigurationCluster: flags are persisted, and a monitor is
\* attached for every source that is present.
AttachMonitor ==
  /\ op = "monitors"
  /\ LET s == Order[at] IN
       /\ supplyKey' = (supplyKey \ {Of(s)}) \cup (supplies \cap {Of(s)})
       /\ presentKey' = presentKey \cup (present \cap {s})
       /\ IF s \in present
          THEN /\ target' = [target EXCEPT ![MonitorFor(s)] = s]
               /\ stored' = [stored EXCEPT ![MonitorFor(s)] = s]
          ELSE UNCHANGED <<target, stored>>
  /\ IF at < Len(Order) THEN at' = at + 1 /\ UNCHANGED op
                        ELSE at' = 1 /\ op' = "finish"
  /\ UNCHANGED <<node, held, attach, supplies, present, reading, orphans, count>>

\* Mutant of Detached: only the voltage of the mains is seen to.
DetachedMainsOnly == [s \in Source |-> IF s = MainsVoltage THEN NoSource ELSE target[s]]

\* Detach: the monitor of every source that is present.
Detached == [s \in Source |-> IF s \in present THEN NoSource ELSE target[s]]

\* Enumerate returns: true if the basic cluster, or all of the power
\* configuration cluster, was read.  An object rejected is detached; its section
\* stays unless the device held it (DeviceCapabilities.Reject).
Finish ==
  /\ op = "finish"
  /\ IF attach.basic \/ (attach.power /\ ~attach.failed)
     THEN /\ op' = "attached" /\ held' = TRUE
          /\ UNCHANGED <<memory, persisted, orphans>>
     ELSE /\ op' = "new"
          /\ DropObject(Detached)
          /\ IF held THEN DeleteSection ELSE UNCHANGED persisted
  /\ UNCHANGED <<node, count>>

\* The capability is no longer enumerated, or the device goes.
Detach ==
  /\ op = "attached"
  /\ op' = "new"
  /\ DropObject(Detached)
  /\ DeleteSection
  /\ UNCHANGED <<node, count>>

-----------------------------------------------------------------------------
\* The process ends.
Crash ==
  /\ op # "down"
  /\ op' = "down"
  /\ held' = FALSE /\ supplies' = {} /\ present' = {} /\ target' = Nobody
  /\ at' = 1 /\ attach' = NoAnswers /\ orphans' = {}
  /\ UNCHANGED <<node, persisted, count>>

\* Mutant of Load: the flags are restored and no monitor.
LoadFlagsOnly ==
  /\ op = "down"
  /\ op' = "attached" /\ held' = TRUE
  /\ supplies' = supplyKey /\ present' = presentKey
  /\ UNCHANGED <<node, at, attach, target, persisted, orphans, count>>

\* Load: the flags; and the monitors of the sources present, until one fails for
\* want of its parameters.  An object that fails to load is dropped as it is.
Load ==
  /\ op = "down"
  /\ LET failing == {k \in DOMAIN Order : Order[k] \in presentKey /\ stored[Order[k]] = NoSource}
         loaded  == {k \in DOMAIN Order : Order[k] \in presentKey /\ \A f \in failing : k < f}
         heard   == [s \in Source |-> IF \E k \in loaded : Order[k] = s
                                      THEN stored[s] ELSE NoSource]
     IN IF failing = {}
        THEN /\ op' = "attached" /\ held' = TRUE
             /\ supplies' = supplyKey /\ present' = presentKey /\ target' = heard
             /\ UNCHANGED <<at, attach, orphans>>
        ELSE op' = "new" /\ DropObject(heard)
  /\ UNCHANGED <<node, persisted, count>>

\* The bits that tell the attributes of the batteries apart.
Bits(b) == CASE b = "battery0" -> {5} [] b = "battery1" -> {6} [] b = "battery2" -> {5, 6}

\* Mutant of attributeIdToBattery: a wrong bit for the second battery.
BatteryByLowBit(bits) ==
  IF 5 \in bits THEN "battery0" ELSE IF 4 \in bits THEN "battery1" ELSE "battery0"

attributeIdToBattery(bits) ==
  IF 5 \in bits THEN "battery0"
  ELSE IF 6 \in bits THEN "battery1"
  ELSE IF {5, 6} \subseteq bits THEN "battery2"
  ELSE "battery0"

ReadingOf(a) ==
  IF Of(a) = "mains" THEN a ELSE <<attributeIdToBattery(Bits(Of(a))), a[2]>>

\* update: the node reports an attribute and some monitor of the object listens.
Update(a) ==
  /\ op # "down" /\ a \in {target[s] : s \in Source}
  /\ reading' = [reading EXCEPT ![ReadingOf(a)] = a]
  /\ UNCHANGED <<node, op, held, memory, supplyKey, presentKey, stored, orphans, count>>

Next ==
  \/ Begin \/ ReadBasic \/ ReadMains \/ ReadBattery \/ AttachMonitor \/ Finish
  \/ Detach \/ Crash \/ Load
  \/ \E a \in Attributes : Update(a)

Spec == Init /\ [][Next]_vars

-----------------------------------------------------------------------------
\* The nodes for which the code keeps its promises: two attributes are handled
\* in a way that breaks them, the frequency of the mains (MonitorFor) and what
\* belongs to the third battery (attributeIdToBattery).
Supported ==
  \A a \in node.attributes : a # MainsFrequency /\ Of(a) # "battery2"

\* A restart resumes the capability: while it is attached, Load would find the
\* parameters of every monitor the persisted flags name.
Loadable ==
  Supported /\ op = "attached" => \A s \in presentKey : stored[s] # NoSource

\* Every source flagged present, and so shown by Status, is listened to.
PresentIsHeard ==
  Supported /\ op = "attached" => \A s \in present : \E m \in Source : target[m] = s

\* A reading shows the source it is named for, however the reports of the node
\* fall among enumerations and restarts.
ReadingsTrue ==
  Supported => \A s \in Source : reading[s] \in {s, NoSource}

\* Detach leaves nothing listening, whatever enumerations, failed or half done
\* at a crash, came before it.
NothingLeftListening == Supported => orphans = {}

\* The supplies of the node: what PowerSource says, and what has an attribute.
RealSupplies ==
  {Of(s) : s \in node.attributes}
    \cup {b \in {"mains"} : node.source.main = "mains"}
    \cup {b \in {"battery0"} : node.source.main = "battery" \/ node.source.backup}
    \cup {b \in {"battery1"} : node.source.main = "battery" /\ node.source.backup}

\* The device shows no supply its node does not have.  Enumerated a second time
\* it may: a backup counts as the second battery where a first is known already
\* (Found), be it the backup itself.
NoPhantomSupply ==
  count <= 1 \/ ~node.source.backup => supplies \subseteq RealSupplies
=============================================================================
