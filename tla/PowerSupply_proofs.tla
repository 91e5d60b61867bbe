------------------------- MODULE PowerSupply_proofs -------------------------
(***************************************************************************)
(* Proofs about PowerSupply, for any attributes and values of PowerSource, *)
(* and any number of enumerations and restarts.                            *)
(***************************************************************************)
EXTENDS PowerSupply, TLAPS

Types ==
  /\ node \in [basic : BOOLEAN, power : BOOLEAN, source : PowerSources,
               attributes : SUBSET Attributes]
  /\ op \in {"new", "basic", "mains", "battery", "monitors", "finish", "attached", "down"}
  /\ at \in 1..Len(Order)
  /\ target \in [Source -> Source \cup {NoSource}]
  /\ stored \in [Source -> Source \cup {NoSource}]
  /\ reading \in [Source -> Source \cup {NoSource}]
  /\ count \in Nat

\* What is flagged present, and persisted so, is an attribute the node has.
Real ==
  /\ present \subseteq node.attributes /\ presentKey \subseteq node.attributes
  /\ present \cup presentKey # {} \/ op \in {"mains", "battery", "monitors"} => node.power = TRUE

\* A monitor and a reading have to do with the source they are named for alone;
\* what listens is flagged, and what is persisted as present can be loaded.
Own ==
  /\ \A s \in Source : /\ target[s] \in {s, NoSource}
                       /\ stored[s] \in {s, NoSource}
                       /\ reading[s] \in {s, NoSource}
                       /\ target[s] # NoSource => s \in present
  /\ \A s \in presentKey : stored[s] = s
  /\ orphans = {}

\* How far Enumerate has come with the monitors of the sources present.
Heard ==
  /\ op \in {"finish", "attached"} => \A s \in present : target[s] = s
  /\ op = "monitors" =>
       \A k \in 1..Len(Order) : k < at /\ Order[k] \in present => target[Order[k]] = Order[k]

IInv == Types /\ Real /\ (Supported => Own /\ Heard)

-----------------------------------------------------------------------------
LEMMA OrderOfSources ==
  /\ Len(Order) = 8 /\ DOMAIN Order = 1..Len(Order)
  /\ \A k \in 1..Len(Order) : Order[k] \in Source
  /\ \A s \in Source : \E k \in 1..Len(Order) : Order[k] = s
<1>1. Len(Order) = 8 /\ DOMAIN Order = 1..Len(Order)
  BY DEF Order
<1> QED BY <1>1 DEF Source

LEMMA SourcesAre ==
  Source = {<<"mains", "voltage">>, <<"mains", "frequency">>,
            <<"battery0", "percentage">>, <<"battery0", "voltage">>,
            <<"battery1", "percentage">>, <<"battery1", "voltage">>,
            <<"battery2", "percentage">>, <<"battery2", "voltage">>}
<1>1. \A s : s \in Source <=> \E k \in 1..8 : Order[k] = s
  BY OrderOfSources DEF Source
<1>2. \A k \in 1..8 : k = 1 \/ k = 2 \/ k = 3 \/ k = 4 \/ k = 5 \/ k = 6 \/ k = 7 \/ k = 8
  OBVIOUS
<1>3. /\ Order[1] = <<"mains", "voltage">> /\ Order[2] = <<"mains", "frequency">>
      /\ Order[3] = <<"battery0", "percentage">> /\ Order[4] = <<"battery0", "voltage">>
      /\ Order[5] = <<"battery1", "percentage">> /\ Order[6] = <<"battery1", "voltage">>
      /\ Order[7] = <<"battery2", "percentage">> /\ Order[8] = <<"battery2", "voltage">>
  BY DEF Order, MainsVoltage, MainsFrequency
<1>4. /\ Order[1] \in Source /\ Order[2] \in Source /\ Order[3] \in Source /\ Order[4] \in Source
      /\ Order[5] \in Source /\ Order[6] \in Source /\ Order[7] \in Source /\ Order[8] \in Source
  BY OrderOfSources
<1>5. \A s \in Source : s \in {Order[1], Order[2], Order[3], Order[4], Order[5], Order[6], Order[7], Order[8]}
  BY <1>1, <1>2
<1>6. Source = {Order[1], Order[2], Order[3], Order[4], Order[5], Order[6], Order[7], Order[8]}
  BY <1>4, <1>5
<1> QED BY <1>3, <1>6

LEMMA NoSourceIsNone == NoSource \notin Source
BY SourcesAre DEF NoSource

\* The bits of the first two batteries are told apart.
LEMMA ReadingOfOwn ==
  ASSUME NEW a \in Source, a # MainsFrequency, Of(a) # "battery2"
  PROVE  ReadingOf(a) = a
<1>1. attributeIdToBattery(Bits("battery0")) = "battery0"
      /\ attributeIdToBattery(Bits("battery1")) = "battery1"
  BY DEF attributeIdToBattery, Bits
<1>2. Of(a) \in {"mains", "battery0", "battery1"}
  BY SourcesAre DEF Of
<1>3. a = <<Of(a), a[2]>>
  BY SourcesAre DEF Of
<1> QED BY <1>1, <1>2, <1>3 DEF ReadingOf

-----------------------------------------------------------------------------
(* The steps of Enumerate.                                                 *)

LEMMA InitSound == Init => IInv
<1> SUFFICES ASSUME Init PROVE IInv
  OBVIOUS
<1>1. Types
  BY OrderOfSources DEF Init, Types, Nobody
<1>2. Real
  BY DEF Init, Real
<1>3. Own /\ Heard
  BY DEF Init, Own, Heard, Nobody
<1> QED BY <1>1, <1>2, <1>3 DEF IInv

LEMMA BeginSound ==
  ASSUME IInv, Begin
  PROVE  IInv'
<1>1. Types'
  BY OrderOfSources DEF Begin, IInv, Types, persisted
<1>2. Real' /\ (Supported' <=> Supported)
  BY DEF Begin, IInv, Types, Real, persisted, Supported
<1>3. ASSUME Supported PROVE Own' /\ Heard'
  <2>1. Own'
    BY <1>3 DEF Begin, IInv, Own, persisted
  <2>2. op' = "finish" => present = {}
    BY DEF Begin, IInv, Real
  <2>3. op' # "attached" /\ op' # "monitors"
    BY DEF Begin
  <2> QED BY <1>3, <2>1, <2>2, <2>3 DEF Begin, IInv, Heard
<1> QED BY <1>1, <1>2, <1>3 DEF IInv

LEMMA ReadBasicSound ==
  ASSUME IInv, ReadBasic
  PROVE  IInv'
<1>1. Types'
  BY DEF ReadBasic, IInv, Types
<1>2. Real' /\ (Supported' <=> Supported)
  BY DEF ReadBasic, IInv, Types, Real, Supported
<1>3. ASSUME Supported PROVE Own' /\ Heard'
  <2>1. Own'
    BY <1>3 DEF ReadBasic, IInv, Own
  <2>2. op' = "finish" => present = {}
    BY DEF ReadBasic, IInv, Real
  <2>3. op' # "attached" /\ op' # "monitors"
    BY DEF ReadBasic
  <2> QED BY <1>3, <2>1, <2>2, <2>3 DEF ReadBasic, IInv, Heard
<1> QED BY <1>1, <1>2, <1>3 DEF IInv

\* The steps in between flag sources of the node, and touch no monitor.
LEMMA FlagSound ==
  ASSUME IInv, ReadMains \/ ReadBattery
  PROVE  IInv'
<1>0. op \in {"mains", "battery"} /\ UNCHANGED <<node, held, target, persisted, orphans, count>>
  BY DEF ReadMains, ReadBattery
<1>1. \E found \in SUBSET node.attributes : present' = present \cup found
  <2>1. CASE UNCHANGED present
    <3>1. present' = present \cup {} /\ {} \in SUBSET node.attributes
      BY <2>1
    <3> QED BY <3>1
  <2>2. CASE ReadMains /\ ~UNCHANGED present
    BY <2>2 DEF ReadMains, Flag
  <2>3. CASE ReadBattery /\ ~UNCHANGED present
    BY <2>3 DEF ReadBattery, Flag
  <2> QED BY <2>1, <2>2, <2>3
<1>2. op' = "battery" \/ (op' = "monitors" /\ at' = 1)
  BY DEF ReadMains, ReadBattery
<1>3. at' \in 1..Len(Order)
  <2>1. at' = at \/ at' = 1 \/ (at < Len(Battery) /\ at' = at + 1)
    BY DEF ReadMains, ReadBattery
  <2>2. Len(Battery) = 3
    BY DEF Battery
  <2> QED BY <2>1, <2>2, OrderOfSources DEF IInv, Types
<1>4. Types'
  BY <1>0, <1>2, <1>3 DEF IInv, Types, persisted
<1>5. node.power = TRUE
  BY <1>0 DEF IInv, Real
<1>6. Real' /\ (Supported' <=> Supported)
  BY <1>0, <1>1, <1>5 DEF IInv, Real, Supported, persisted
<1>7. ASSUME Supported PROVE Own' /\ Heard'
  <2>1. present \subseteq present'
    BY <1>1
  <2>2. Own'
    BY <1>0, <1>7, <2>1 DEF IInv, Own, persisted
  <2> QED BY <1>2, <1>3, <2>2 DEF Heard, IInv, Types
<1> QED BY <1>4, <1>6, <1>7 DEF IInv

LEMMA AttachMonitorSound ==
  ASSUME IInv, AttachMonitor
  PROVE  IInv'
<1> DEFINE s == Order[at]
<1>1. op = "monitors" /\ at \in 1..Len(Order) /\ s \in Source
  BY OrderOfSources DEF AttachMonitor, IInv, Types
<1>2. UNCHANGED <<node, held, attach, supplies, present, reading, orphans, count>>
  BY DEF AttachMonitor
<1>3. presentKey' = presentKey \cup (present \cap {s})
  BY DEF AttachMonitor
<1>4. /\ s \in present => /\ target' = [target EXCEPT ![MonitorFor(s)] = s]
                          /\ stored' = [stored EXCEPT ![MonitorFor(s)] = s]
      /\ s \notin present => UNCHANGED <<target, stored>>
  BY DEF AttachMonitor
<1>5. \/ at < Len(Order) /\ at' = at + 1 /\ op' = "monitors"
      \/ at = Len(Order) /\ at' = 1 /\ op' = "finish"
  BY <1>1, OrderOfSources DEF AttachMonitor
<1>6. at' \in 1..Len(Order)
  BY <1>1, <1>5, OrderOfSources
<1>7. MonitorFor(s) \in Source
  BY <1>1, SourcesAre DEF MonitorFor, MainsVoltage
<1>8. Types'
  BY <1>1, <1>2, <1>4, <1>5, <1>6, <1>7 DEF IInv, Types
<1>9. Real' /\ (Supported' <=> Supported)
  BY <1>1, <1>2, <1>3, <1>5 DEF IInv, Real, Supported
<1>10. ASSUME Supported PROVE Own' /\ Heard'
  <2>1. s \in present => MonitorFor(s) = s
    BY <1>10 DEF IInv, Real, Supported, MonitorFor
  <2>2. \A x \in Source : /\ target'[x] = IF x = s /\ s \in present THEN s ELSE target[x]
                          /\ stored'[x] = IF x = s /\ s \in present THEN s ELSE stored[x]
    BY <1>1, <1>4, <2>1 DEF IInv, Types
  <2>3. presentKey' \subseteq Source
    BY <1>9, <1>2, PowerAssumption DEF Real, IInv, Types
  <2>4. Own'
    BY <1>2, <1>3, <1>10, <2>2, <2>3 DEF IInv, Own
  <2>5. \A k \in 1..Len(Order) : k <= at /\ Order[k] \in present => target'[Order[k]] = Order[k]
    <3> SUFFICES ASSUME NEW k \in 1..Len(Order), k <= at, Order[k] \in present
                 PROVE  target'[Order[k]] = Order[k]
      OBVIOUS
    <3>1. CASE k = at
      BY <1>1, <2>2, <3>1
    <3>2. CASE k < at
      <4>1. target[Order[k]] = Order[k]
        BY <1>1, <1>10, <3>2 DEF IInv, Heard
      <4> QED BY <2>2, <4>1, OrderOfSources
    <3> QED BY <1>1, <3>1, <3>2, OrderOfSources
  <2>6. CASE op' = "monitors"
    <3>1. at' = at + 1
      BY <1>5, <2>6
    <3>2. \A k \in 1..Len(Order) : k < at' => k <= at
      BY <1>1, <3>1, OrderOfSources
    <3> QED BY <1>2, <2>4, <2>5, <2>6, <3>2 DEF Heard
  <2>7. CASE op' = "finish"
    <3>1. at = Len(Order)
      BY <1>5, <2>7
    <3>2. \A x \in present : \E k \in 1..Len(Order) : k <= at /\ Order[k] = x
      BY <1>2, <3>1, OrderOfSources, PowerAssumption DEF IInv, Real, Types
    <3> QED BY <1>2, <2>4, <2>5, <2>7, <3>2 DEF Heard
  <2> QED BY <1>5, <2>6, <2>7
<1> QED BY <1>8, <1>9, <1>10 DEF IInv

-----------------------------------------------------------------------------
(* Detaching, restarting and reporting.                                    *)

\* What a Supported node's object listens to, Detach ends.
LEMMA NothingLeft ==
  ASSUME IInv, Supported, NEW x \in Source
  PROVE  Detached[x] = NoSource
BY DEF IInv, Own, Detached

\* The object goes, with or without its section.
LEMMA DroppedSound ==
  ASSUME IInv, DropObject(Detached), UNCHANGED <<node, count>>, op' = "new",
         DeleteSection \/ UNCHANGED persisted
  PROVE  IInv'
<1>1. /\ target' = Nobody /\ present' = {} /\ at' = 1
      /\ orphans' = orphans \cup ({Detached[s] : s \in Source} \ {NoSource})
  BY DEF DropObject
<1>2. \/ presentKey' = {} /\ stored' = Nobody /\ reading' = Nobody
      \/ UNCHANGED <<presentKey, stored, reading>>
  BY DEF DeleteSection, persisted
<1>3. Types'
  BY <1>1, <1>2, OrderOfSources DEF IInv, Types, Nobody
<1>4. Real' /\ (Supported' <=> Supported)
  BY <1>1, <1>2 DEF IInv, Real, Supported
<1>5. ASSUME Supported PROVE Own' /\ Heard'
  <2>1. orphans' = {}
    BY <1>1, <1>5, NothingLeft DEF IInv, Own
  <2>2. \A s \in Source : target'[s] = NoSource
    BY <1>1 DEF Nobody
  <2>3. /\ \A s \in Source : stored'[s] \in {s, NoSource} /\ reading'[s] \in {s, NoSource}
        /\ \A s \in presentKey' : stored'[s] = s
    BY <1>2, <1>5 DEF IInv, Own, Nobody
  <2> QED BY <1>1, <2>1, <2>2, <2>3 DEF Own, Heard
<1> QED BY <1>3, <1>4, <1>5 DEF IInv

LEMMA FinishSound ==
  ASSUME IInv, Finish
  PROVE  IInv'
<1>1. CASE op' = "attached"
  <2>1. op = "finish" /\ UNCHANGED <<node, count, memory, persisted, orphans>>
    BY <1>1 DEF Finish
  <2>2. Types' /\ Real' /\ (Supported' <=> Supported)
    BY <1>1, <2>1 DEF IInv, Types, Real, Supported, memory, persisted
  <2>3. ASSUME Supported PROVE Own' /\ Heard'
    BY <1>1, <2>1, <2>3 DEF IInv, Own, Heard, memory, persisted
  <2> QED BY <2>2, <2>3 DEF IInv
<1>2. CASE op' = "new"
  BY <1>2, DroppedSound DEF Finish
<1> QED BY <1>1, <1>2 DEF Finish

LEMMA CrashSound ==
  ASSUME IInv, Crash
  PROVE  IInv'
<1>1. Types'
  BY OrderOfSources DEF Crash, IInv, Types, Nobody, persisted
<1>2. Real' /\ (Supported' <=> Supported)
  BY DEF Crash, IInv, Real, persisted, Supported
<1>3. ASSUME Supported PROVE Own' /\ Heard'
  BY <1>3 DEF Crash, IInv, Own, Heard, persisted, Nobody
<1> QED BY <1>1, <1>2, <1>3 DEF IInv

LEMMA DetachSound ==
  ASSUME IInv, Detach
  PROVE  IInv'
BY DroppedSound DEF Detach

\* Load of a supported node does not fail: what is persisted as present has the
\* parameters of its own monitor.
LEMMA LoadSound ==
  ASSUME IInv, Load
  PROVE  IInv'
<1> DEFINE failing == {k \in DOMAIN Order : Order[k] \in presentKey /\ stored[Order[k]] = NoSource}
           loaded  == {k \in DOMAIN Order : Order[k] \in presentKey /\ \A f \in failing : k < f}
           heard   == [s \in Source |-> IF \E k \in loaded : Order[k] = s
                                       THEN stored[s] ELSE NoSource]
<1>1. UNCHANGED <<node, persisted, count>>
  BY DEF Load
<1>2. \/ /\ failing = {} /\ op' = "attached"
         /\ present' = presentKey /\ target' = heard
         /\ UNCHANGED <<at, attach, orphans>>
      \/ failing # {} /\ op' = "new" /\ DropObject(heard)
  BY DEF Load
<1>3. heard \in [Source -> Source \cup {NoSource}]
  BY DEF IInv, Types
<1>4. /\ target' \in [Source -> Source \cup {NoSource}] /\ at' \in 1..Len(Order)
      /\ present' \subseteq presentKey /\ op' \in {"new", "attached"}
  <2>1. CASE failing = {}
    BY <1>2, <1>3, <2>1 DEF IInv, Types
  <2>2. CASE failing # {}
    <3>1. target' = Nobody /\ at' = 1 /\ present' = {} /\ op' = "new"
      BY <1>2, <2>2 DEF DropObject
    <3> QED BY <3>1, OrderOfSources DEF Nobody
  <2> QED BY <2>1, <2>2
<1> HIDE DEF failing, loaded, heard
<1>5. Types'
  BY <1>1, <1>4 DEF IInv, Types, persisted
<1>6. Real' /\ (Supported' <=> Supported)
  BY <1>1, <1>4 DEF IInv, Real, Supported, persisted
<1>7. ASSUME Supported PROVE Own' /\ Heard'
  <2>1. presentKey \subseteq Source
    BY PowerAssumption DEF IInv, Real, Types
  <2>2. \A s \in presentKey : stored[s] = s
    BY <1>7 DEF IInv, Own
  <2>3. failing = {}
    BY <2>1, <2>2, NoSourceIsNone DEF failing
  <2>4. op' = "attached" /\ present' = presentKey /\ target' = heard /\ orphans' = orphans
    BY <1>2, <2>3
  <2>5. \A s \in Source : (\E k \in loaded : Order[k] = s) <=> s \in presentKey
    BY <2>3, OrderOfSources DEF loaded
  <2>6. \A s \in Source : heard[s] = IF s \in presentKey THEN s ELSE NoSource
    BY <2>2, <2>5 DEF heard
  <2>7. Own'
    BY <1>1, <1>7, <2>4, <2>6 DEF IInv, Own, persisted
  <2>8. Heard'
    BY <2>1, <2>4, <2>6 DEF Heard
  <2> QED BY <2>7, <2>8
<1> QED BY <1>5, <1>6, <1>7 DEF IInv

\* What a supported node's monitor hears is stored under its own name.
LEMMA UpdateSound ==
  ASSUME IInv, NEW a \in Attributes, Update(a)
  PROVE  IInv'
<1>1. /\ UNCHANGED <<node, op, at, present, target, presentKey, stored, orphans, count>>
      /\ reading' = [reading EXCEPT ![ReadingOf(a)] = a]
      /\ a \in {target[s] : s \in Source} /\ a \in Source
  BY PowerAssumption DEF Update, memory
<1>2. Types'
  BY <1>1 DEF IInv, Types
<1>3. Real' /\ (Supported' <=> Supported)
  BY <1>1 DEF IInv, Real, Supported
<1>4. ASSUME Supported PROVE Own' /\ Heard'
  <2>1. target[a] = a
    BY <1>1, <1>4, NoSourceIsNone DEF IInv, Own
  <2>2. a \in node.attributes
    BY <1>1, <1>4, <2>1, NoSourceIsNone DEF IInv, Own, Real
  <2>3. ReadingOf(a) = a
    BY <1>1, <1>4, <2>2, ReadingOfOwn DEF Supported
  <2>4. \A s \in Source : reading'[s] \in {s, NoSource}
    BY <1>1, <1>4, <2>3 DEF IInv, Own, Types
  <2> QED BY <1>1, <1>4, <2>4 DEF IInv, Own, Heard
<1> QED BY <1>2, <1>3, <1>4 DEF IInv

LEMMA StutterSound ==
  ASSUME IInv, UNCHANGED vars
  PROVE  IInv'
<1>1. Types' /\ Real' /\ (Supported' <=> Supported)
  BY DEF IInv, Types, Real, Supported, vars, memory, persisted
<1>2. ASSUME Supported PROVE Own' /\ Heard'
  BY <1>2 DEF IInv, Own, Heard, vars, memory, persisted
<1> QED BY <1>1, <1>2 DEF IInv

-----------------------------------------------------------------------------
\* The bookkeeping of the capability is sound in every state.
THEOREM BookkeepingSound == Spec => []IInv
<1>1. ASSUME IInv, [Next]_vars PROVE IInv'
  <2>1. CASE Next
    BY <1>1, <2>1, BeginSound, ReadBasicSound, FlagSound, AttachMonitorSound, FinishSound,
       DetachSound, CrashSound, LoadSound, UpdateSound DEF Next
  <2>2. CASE UNCHANGED vars
    BY <1>1, <2>2, StutterSound
  <2> QED BY <1>1, <2>1, <2>2
<1> QED BY <1>1, InitSound, PTL DEF Spec

\* A restart finds the parameters of every monitor it has to resume.
THEOREM RestartResumes == Spec => []Loadable
<1>1. IInv => Loadable
  <2> SUFFICES ASSUME IInv, Supported, NEW s \in presentKey PROVE stored[s] # NoSource
    BY DEF Loadable
  <2>1. s \in Source
    BY PowerAssumption DEF IInv, Real, Types
  <2> QED BY <2>1, NoSourceIsNone DEF IInv, Own
<1> QED BY <1>1, BookkeepingSound, PTL

\* Every source that Status shows of an attached capability is listened to.
THEOREM ShownIsHeard == Spec => []PresentIsHeard
<1>1. IInv => PresentIsHeard
  <2> SUFFICES ASSUME IInv, Supported, op = "attached", NEW s \in present
               PROVE  \E m \in Source : target[m] = s
    BY DEF PresentIsHeard
  <2>1. s \in Source
    BY PowerAssumption DEF IInv, Real, Types
  <2> QED BY <2>1 DEF IInv, Heard
<1> QED BY <1>1, BookkeepingSound, PTL

\* A reading is of the source it is named for, in memory and after a restart.
THEOREM ReadingsAreTrue == Spec => []ReadingsTrue
<1>1. IInv => ReadingsTrue
  BY DEF IInv, Own, ReadingsTrue
<1> QED BY <1>1, BookkeepingSound, PTL

\* Whatever attempts came before it, a Detach leaves nothing listening.
THEOREM DetachIsComplete == Spec => []NothingLeftListening
<1>1. IInv => NothingLeftListening
  BY DEF IInv, Own, NothingLeftListening
<1> QED BY <1>1, BookkeepingSound, PTL

-----------------------------------------------------------------------------
(* The supplies shown.                                                     *)

\* While a backup cannot have been counted twice.
FirstTime == count <= 1 \/ ~node.source.backup

\* The supplies known, in memory and persisted, are supplies of the node, and
\* none is known before PowerSource is read for the first time.
SIInv ==
  /\ FirstTime => supplies \subseteq RealSupplies /\ supplyKey \subseteq RealSupplies
  /\ count = 0 => supplies = {} /\ supplyKey = {} /\ op \in {"new", "attached", "down"}
  /\ count = 1 /\ op = "basic" => supplies = {}

\* PowerSource adds no supply the node does not have, a backup read once or no
\* backup at all.
LEMMA FoundIsReal ==
  ASSUME NEW known, known \subseteq RealSupplies, known = {} \/ ~node.source.backup
  PROVE  Found(node.source, known) \subseteq RealSupplies
<1> DEFINE v    == node.source
           main == known \cup (IF v.main = "mains" THEN {"mains"}
                               ELSE IF v.main = "battery" THEN {"battery0"} ELSE {})
<1>1. Found(v, known) = main \cup (IF ~v.backup THEN {}
                                   ELSE IF "battery0" \in main THEN {"battery1"} ELSE {"battery0"})
  BY DEF Found
<1>2. v.main = "mains" => "mains" \in RealSupplies
  BY DEF RealSupplies
<1>3. v.main = "battery" \/ v.backup => "battery0" \in RealSupplies
  BY DEF RealSupplies
<1>4. v.main = "battery" /\ v.backup => "battery1" \in RealSupplies
  BY DEF RealSupplies
<1>5. main \subseteq RealSupplies
  BY <1>2, <1>3
<1>6. known = {} /\ "battery0" \in main => v.main = "battery"
  OBVIOUS
<1> HIDE DEF main
<1>7. CASE ~v.backup
  BY <1>1, <1>5, <1>7
<1>8. CASE known = {} /\ v.backup
  BY <1>1, <1>3, <1>4, <1>5, <1>6, <1>8
<1> QED BY <1>7, <1>8

\* Each step takes the supplies known from what is known and what is read.
LEMMA SuppliesStep ==
  ASSUME IInv, SIInv, Next
  PROVE  SIInv'
<1>0. node' = node /\ count \in Nat /\ (RealSupplies' = RealSupplies)
  BY DEF IInv, Types, Next, Begin, ReadBasic, ReadMains, ReadBattery, AttachMonitor, Finish,
         Detach, Crash, Load, Update, RealSupplies
<1>1. CASE Begin
  <2>1. UNCHANGED <<supplies, supplyKey>> /\ count' = count + 1
    BY <1>1 DEF Begin, persisted
  <2>2. FirstTime' => FirstTime
    BY <1>0, <2>1 DEF FirstTime
  <2>3. count' = 1 => supplies' = {}
    BY <1>0, <2>1 DEF SIInv
  <2>4. count' # 0
    BY <1>0, <2>1
  <2> QED BY <1>0, <2>1, <2>2, <2>3, <2>4 DEF SIInv
<1>2. CASE ReadBasic
  <2>1. /\ op = "basic" /\ op' # "basic" /\ count' = count
        /\ supplies' = supplies \/ supplies' = Found(node.source, supplies)
        /\ supplyKey' \subseteq supplyKey \cup supplies'
    BY <1>2 DEF ReadBasic
  <2>2. count # 0
    BY <2>1 DEF SIInv
  <2>3. FirstTime' <=> FirstTime
    BY <1>0, <2>1 DEF FirstTime
  <2>4. ASSUME FirstTime PROVE supplies' \subseteq RealSupplies
    <3>1. supplies = {} \/ ~node.source.backup
      BY <1>0, <2>1, <2>2, <2>4 DEF SIInv, FirstTime
    <3> QED BY <2>1, <2>4, <3>1, FoundIsReal DEF SIInv
  <2> QED BY <1>0, <2>1, <2>2, <2>3, <2>4 DEF SIInv
<1>3. CASE ReadMains \/ ReadBattery
  <2>1. /\ op \in {"mains", "battery"} /\ op' # "basic" /\ count' = count
        /\ supplyKey' = supplyKey
    BY <1>3 DEF ReadMains, ReadBattery, persisted
  <2>2. supplies' \subseteq supplies \cup {Of(a) : a \in node.attributes}
    BY <1>3 DEF ReadMains, ReadBattery, Flag
  <2>3. supplies' \subseteq supplies \cup RealSupplies
    BY <2>2 DEF RealSupplies
  <2>4. count # 0
    BY <2>1 DEF SIInv
  <2> QED BY <1>0, <2>1, <2>3, <2>4 DEF SIInv, FirstTime
<1>4. CASE AttachMonitor
  <2>1. /\ op = "monitors" /\ op' # "basic" /\ UNCHANGED <<count, supplies>>
        /\ supplyKey' \subseteq supplyKey \cup supplies
    BY <1>4 DEF AttachMonitor
  <2> QED BY <1>0, <2>1 DEF SIInv, FirstTime
\* The steps that keep the supplies, forget them or restore what is persisted.
<1>5. CASE Finish \/ Detach \/ Crash \/ Load \/ \E a \in Attributes : Update(a)
  <2>1. /\ count' = count
        /\ supplies' \in {supplies, supplyKey, {}} /\ supplyKey' \in {supplyKey, {}}
    BY <1>5 DEF Finish, Detach, Crash, Load, Update, DropObject, DeleteSection, memory, persisted
  <2>2. count = 0 => op' \in {"new", "attached", "down"}
    BY <1>5 DEF SIInv, Finish, Detach, Crash, Load, Update
  <2>3. op' = "basic" => op = "basic" /\ supplies' = supplies
    BY <1>5 DEF Finish, Detach, Crash, Load, Update, memory
  <2> QED BY <1>0, <2>1, <2>2, <2>3 DEF SIInv, FirstTime
<1> QED BY <1>1, <1>2, <1>3, <1>4, <1>5 DEF Next

\* The device shows no supply its node does not have, for as long as a backup
\* has not been read twice.
THEOREM ShowsNoPhantom == Spec => []NoPhantomSupply
<1>1. Init => SIInv
  BY DEF Init, SIInv
<1>2. ASSUME IInv, SIInv, [Next]_vars PROVE SIInv'
  <2>1. CASE UNCHANGED vars
    BY <1>2, <2>1 DEF SIInv, FirstTime, RealSupplies, vars, memory, persisted
  <2> QED BY <1>2, <2>1, SuppliesStep
<1>3. SIInv => NoPhantomSupply
  BY DEF SIInv, FirstTime, NoPhantomSupply
<1> QED BY <1>1, <1>2, <1>3, BookkeepingSound, PTL DEF Spec

-----------------------------------------------------------------------------
\* What Types leaves out of TypeOK.
Rest ==
  /\ attach \in [basic : BOOLEAN, power : BOOLEAN, failed : BOOLEAN]
  /\ held \in BOOLEAN
  /\ supplies \subseteq Supply /\ supplyKey \subseteq Supply
  /\ orphans \subseteq Source
  /\ count \in 0..MaxEnumerations

LEMMA SupplyOfSource ==
  /\ \A s \in Source : Of(s) \in Supply
  /\ {"mains", "battery0", "battery1"} \subseteq Supply
<1>1. DOMAIN Battery = 1..3 /\ Battery[1] = "battery0" /\ Battery[2] = "battery1"
      /\ Battery[3] = "battery2"
  BY DEF Battery
<1>2. Supply = {"mains", "battery0", "battery1", "battery2"}
  <2>1. {Battery[n] : n \in 1..3} = {Battery[1], Battery[2], Battery[3]}
    OBVIOUS
  <2> QED BY <1>1, <2>1 DEF Supply
<1> QED BY <1>2, SourcesAre DEF Of

LEMMA RestStep ==
  ASSUME IInv, Rest, Next
  PROVE  Rest'
<1>0. node.attributes \subseteq Source
  BY PowerAssumption DEF IInv, Types
<1>1. CASE Begin
  BY <1>1, PowerAssumption DEF Begin, Rest, NoAnswers, persisted
<1>2. CASE ReadBasic
  <2>1. Found(node.source, supplies) \subseteq Supply
    BY SupplyOfSource DEF Rest, Found
  <2>2. supplies' \subseteq Supply
    BY <1>2, <2>1 DEF ReadBasic, Rest
  <2>3. supplyKey' \subseteq Supply
    BY <1>2, <2>2 DEF ReadBasic, Rest
  <2> QED BY <1>2, <2>2, <2>3 DEF ReadBasic, Rest
<1>3. CASE ReadMains \/ ReadBattery
  <2>1. \/ supplies' = supplies
        \/ \E found \in SUBSET node.attributes : supplies' = supplies \cup {Of(s) : s \in found}
    <3>1. CASE ReadMains
      BY <3>1 DEF ReadMains, Flag
    <3>2. CASE ReadBattery
      BY <3>2 DEF ReadBattery, Flag
    <3> QED BY <1>3, <3>1, <3>2
  <2>2. supplies' \subseteq Supply
    BY <1>0, <2>1, SupplyOfSource DEF Rest
  <2>3. attach' \in [basic : BOOLEAN, power : BOOLEAN, failed : BOOLEAN]
    BY <1>3 DEF ReadMains, ReadBattery, Rest
  <2> QED BY <1>3, <2>2, <2>3 DEF ReadMains, ReadBattery, Rest, persisted
<1>4. CASE AttachMonitor
  <2>1. /\ UNCHANGED <<attach, held, supplies, orphans, count>>
        /\ supplyKey' \subseteq supplyKey \cup supplies
    BY <1>4 DEF AttachMonitor
  <2> QED BY <2>1 DEF Rest
<1>5. CASE Finish \/ Detach
  <2>1. \A s \in Source : Detached[s] \in Source \cup {NoSource}
    BY DEF Detached, IInv, Types
  <2>2. \/ held' = TRUE /\ UNCHANGED <<memory, persisted, orphans, count>>
        \/ /\ DropObject(Detached) /\ count' = count
           /\ DeleteSection \/ UNCHANGED persisted
    BY <1>5 DEF Finish, Detach
  <2>3. CASE held' = TRUE /\ UNCHANGED <<memory, persisted, orphans, count>>
    BY <2>3 DEF Rest, memory, persisted
  <2>4. CASE DropObject(Detached) /\ count' = count /\ (DeleteSection \/ UNCHANGED persisted)
    <3>1. supplyKey' \in {supplyKey, {}}
      BY <2>4 DEF DeleteSection, persisted
    <3> QED BY <2>1, <2>4, <3>1 DEF Rest, DropObject, NoAnswers
  <2> QED BY <2>2, <2>3, <2>4
<1>6. CASE Crash
  BY <1>6 DEF Crash, Rest, NoAnswers, persisted
<1>7. CASE Load
  <2> DEFINE failing == {k \in DOMAIN Order : Order[k] \in presentKey /\ stored[Order[k]] = NoSource}
             loaded  == {k \in DOMAIN Order : Order[k] \in presentKey /\ \A f \in failing : k < f}
             heard   == [s \in Source |-> IF \E k \in loaded : Order[k] = s
                                         THEN stored[s] ELSE NoSource]
  <2>1. \A s \in Source : heard[s] \in Source \cup {NoSource}
    BY DEF IInv, Types
  <2>2. UNCHANGED <<supplyKey, count>>
    BY <1>7 DEF Load, persisted
  <2>3. \/ held' = TRUE /\ supplies' = supplyKey /\ UNCHANGED <<attach, orphans>>
        \/ DropObject(heard)
    BY <1>7 DEF Load
  <2> HIDE DEF heard
  <2>4. CASE DropObject(heard)
    BY <2>1, <2>2, <2>4 DEF Rest, DropObject, NoAnswers
  <2> QED BY <2>2, <2>3, <2>4 DEF Rest
<1>8. CASE \E a \in Attributes : Update(a)
  BY <1>8 DEF Update, Rest, memory
<1> QED BY <1>1, <1>2, <1>3, <1>4, <1>5, <1>6, <1>7, <1>8 DEF Next

\* Every variable has its type, which no run checks.
THEOREM PowerTypeCorrect == Spec => []TypeOK
<1>1. ASSUME Init PROVE Rest
  <2>1. held \in BOOLEAN
    BY <1>1 DEF Init
  <2>2. attach \in [basic : BOOLEAN, power : BOOLEAN, failed : BOOLEAN]
    BY <1>1 DEF Init, NoAnswers
  <2>3. /\ supplies \subseteq Supply /\ supplyKey \subseteq Supply
        /\ orphans \subseteq Source
    BY <1>1 DEF Init
  <2>4. count \in 0..MaxEnumerations
    BY <1>1, PowerAssumption DEF Init
  <2> QED BY <2>1, <2>2, <2>3, <2>4 DEF Rest
<1>2. ASSUME IInv, Rest, [Next]_vars PROVE Rest'
  <2>1. CASE UNCHANGED vars
    BY <1>2, <2>1 DEF Rest, vars, memory, persisted
  <2> QED BY <1>2, <2>1, RestStep
<1>3. IInv /\ Rest => TypeOK
  BY PowerAssumption DEF IInv, Types, Real, Rest, TypeOK
<1> QED BY <1>1, <1>2, <1>3, BookkeepingSound, PTL DEF Spec
=============================================================================
