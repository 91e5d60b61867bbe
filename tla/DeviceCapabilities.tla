------------------------- MODULE DeviceCapabilities -------------------------
(***************************************************************************)
(* The capabilities of one device: attached from what the rules ask for    *)
(* (enumerate_device.go, updateCapabilitiesOnDevice and                    *)
(* enumerateCapabilityOnDevice; table.go, attachCapabilityToDevice and     *)
(* detachCapabilityFromDevice), loaded from persistence after a restart    *)
(* (provider_load.go) and detached with the device (table.go,              *)
(* removeDevice).  d.m is held throughout an enumeration, so that only a   *)
(* crash comes between its steps.  A capability object is known by its     *)
(* implementation; `running' is what it set going on the network.          *)
(***************************************************************************)
CONSTANTS
  Implementation, \* the names rules may ask for
  Capability,
  Mapping,        \* factory.Mapping: the capability of each name it knows
  Nothing

Known == DOMAIN Mapping

ASSUME CapabilitiesAssumption ==
  /\ Known \subseteq Implementation /\ Mapping \in [Known -> Capability]
  /\ Nothing \notin Implementation

VARIABLES
  held,      \* d.capabilities
  implKey,   \* persisted: Capability/<name>/Implementation
  data,      \* persisted: Data is enough for Load
  running,   \* implementations whose object listens to the node
  announced, \* CapabilityAdded was sent, and no CapabilityRemoved since
  results,   \* d.eda.results: the capabilities said to be attached
  phase,     \* where an enumeration is
  todo,      \* names the rules asked for that it has not come to
  active,    \* activeCapabilities
  object,    \* the implementation whose Enumerate runs
  errs,      \* the capabilities it will report as attached
  panicked   \* history: implementations whose Enumerate panicked in this process

device == <<held, implKey, data, running, announced>>
local  == <<phase, todo, active, object, errs>>
vars   == <<device, results, local, panicked>>

Held == {c \in Capability : held[c] # Nothing}

TypeOK ==
  /\ held \in [Capability -> Known \cup {Nothing}]
  /\ \A c \in Held : Mapping[held[c]] = c
  /\ implKey \in [Capability -> Known \cup {Nothing}]
  /\ data \in [Capability -> BOOLEAN]
  /\ running \subseteq Known
  /\ announced \subseteq Capability /\ results \subseteq Capability
  /\ phase \in {"idle", "attaching", "detaching", "down"}
  /\ todo \subseteq Implementation /\ object \in Known \cup {Nothing}
  /\ active \subseteq Held
  /\ errs \subseteq Capability /\ panicked \subseteq Known

NoCapability == [c \in Capability |-> Nothing]
NoData       == [c \in Capability |-> FALSE]

Init ==
  /\ held = NoCapability /\ implKey = NoCapability /\ data = NoData
  /\ running = {} /\ announced = {} /\ results = {} /\ panicked = {}
  /\ phase = "idle" /\ todo = {} /\ active = {} /\ object = Nothing /\ errs = {}

\* detachCapabilityFromDevice, of a capability the device holds: its section is
\* deleted and the consumer told.
Drop(c) ==
  /\ held' = [held EXCEPT ![c] = Nothing]
  /\ implKey' = [implKey EXCEPT ![c] = Nothing]
  /\ data' = [data EXCEPT ![c] = FALSE]
  /\ announced' = announced \ {c}

-----------------------------------------------------------------------------
\* updateCapabilitiesOnDevice is called with the output of the rules.
Begin ==
  /\ phase = "idle"
  /\ \E wanted \in SUBSET Implementation : todo' = wanted
  /\ phase' = "attaching" /\ active' = {} /\ errs' = {}
  /\ UNCHANGED <<device, results, object, panicked>>

\* A name the factory does not know is reported and passed over.
Unknown(i) ==
  /\ phase = "attaching" /\ object = Nothing /\ i \in todo
  /\ i \notin Known
  /\ todo' = todo \ {i}
  /\ UNCHANGED <<device, results, phase, active, object, errs, panicked>>

\* A second implementation of a capability is refused, and the report of the
\* first overwritten.
Multiple(i) ==
  /\ phase = "attaching" /\ object = Nothing /\ i \in todo
  /\ i \in Known /\ Mapping[i] \in active
  /\ todo' = todo \ {i}
  /\ errs' = errs \ {Mapping[i]}
  /\ UNCHANGED <<device, results, phase, active, object, panicked>>

\* The object the device holds is enumerated again.
Reenumerate(i) ==
  /\ phase = "attaching" /\ object = Nothing /\ i \in todo
  /\ i \in Known /\ Mapping[i] \notin active
  /\ held[Mapping[i]] = i
  /\ object' = i /\ todo' = todo \ {i}
  /\ UNCHANGED <<device, results, phase, active, errs, panicked>>

\* Another implementation of the capability is detached to make room.
Replace(i) ==
  /\ phase = "attaching" /\ object = Nothing /\ i \in todo
  /\ i \in Known /\ Mapping[i] \notin active
  /\ held[Mapping[i]] \notin {i, Nothing}
  /\ running' = running \ {held[Mapping[i]]}
  /\ Drop(Mapping[i])
  /\ UNCHANGED <<results, local, panicked>>

\* Mutant of Create: the section does not say what to load.
CreateUnnamed(i) ==
  /\ phase = "attaching" /\ object = Nothing /\ i \in todo
  /\ i \in Known /\ Mapping[i] \notin active
  /\ held[Mapping[i]] = Nothing
  /\ object' = i /\ todo' = todo \ {i}
  /\ UNCHANGED <<device, results, phase, active, errs, panicked>>

\* A new object is made, and named in its section before it is enumerated.
Create(i) ==
  /\ phase = "attaching" /\ object = Nothing /\ i \in todo
  /\ i \in Known /\ Mapping[i] \notin active
  /\ held[Mapping[i]] = Nothing
  /\ implKey' = [implKey EXCEPT ![Mapping[i]] = i]
  /\ object' = i /\ todo' = todo \ {i}
  /\ UNCHANGED <<held, data, running, announced, results, phase, active, errs, panicked>>

\* Enumerate of the object stores what Load will need and starts to listen.
Enumerate ==
  /\ object # Nothing
  /\ data' = [data EXCEPT ![Mapping[object]] = TRUE]
  /\ running' = running \cup {object}
  /\ UNCHANGED <<held, implKey, announced, results, local, panicked>>

\* Enumerate returns true, with or without an error: attachCapabilityToDevice.
Attach ==
  /\ object # Nothing /\ object \in running /\ data[Mapping[object]]
  /\ LET c == Mapping[object] IN
       /\ held' = [held EXCEPT ![c] = object]
       /\ announced' = announced \cup {c}
       /\ active' = active \cup {c} /\ errs' = errs \cup {c}
  /\ object' = Nothing
  /\ UNCHANGED <<implKey, data, running, results, phase, todo, panicked>>

\* Mutant of Reject: the object is not detached.
RejectUndetached ==
  /\ object # Nothing
  /\ LET c == Mapping[object] IN
       /\ IF c \in Held THEN Drop(c) ELSE UNCHANGED <<held, implKey, data, announced>>
       /\ errs' = errs \ {c}
  /\ object' = Nothing
  /\ UNCHANGED <<running, results, phase, todo, active, panicked>>

\* Enumerate returns false: the object is detached; a capability the device did
\* not hold keeps its section (detachCapabilityFromDevice).
Reject ==
  /\ object # Nothing
  /\ running' = running \ {object}
  /\ LET c == Mapping[object] IN
       /\ IF c \in Held THEN Drop(c) ELSE UNCHANGED <<held, implKey, data, announced>>
       /\ errs' = errs \ {c}
  /\ object' = Nothing
  /\ UNCHANGED <<results, phase, todo, active, panicked>>

\* Enumerate panics: recovered from, and reported as not attached.
Panic ==
  /\ object # Nothing
  /\ errs' = errs \ {Mapping[object]}
  /\ panicked' = panicked \cup {object}
  /\ object' = Nothing
  /\ UNCHANGED <<device, results, phase, todo, active>>

\* The names are done; what is held and not active is detached.
AllTried ==
  /\ phase = "attaching" /\ object = Nothing /\ todo = {}
  /\ phase' = "detaching"
  /\ UNCHANGED <<device, results, todo, active, object, errs, panicked>>

\* Mutant of DetachRedundant: the consumer is not told.
DetachRedundantSilently(c) ==
  /\ phase = "detaching" /\ c \in Held \ active
  /\ running' = running \ {held[c]}
  /\ held' = [held EXCEPT ![c] = Nothing]
  /\ implKey' = [implKey EXCEPT ![c] = Nothing]
  /\ data' = [data EXCEPT ![c] = FALSE]
  /\ UNCHANGED <<announced, results, local, panicked>>

DetachRedundant(c) ==
  /\ phase = "detaching" /\ c \in Held \ active
  /\ running' = running \ {held[c]}
  /\ Drop(c)
  /\ UNCHANGED <<results, local, panicked>>

\* Mutant of Publish: a capability whose Enumerate panicked is left attached.
PublishUntidied ==
  /\ phase = "detaching"
  /\ phase' = "idle" /\ results' = errs
  /\ UNCHANGED <<device, todo, active, object, errs, panicked>>

\* enumerate: the report becomes what Status tells.
Publish ==
  /\ phase = "detaching" /\ Held \subseteq active
  /\ phase' = "idle" /\ results' = errs
  /\ UNCHANGED <<device, todo, active, object, errs, panicked>>

-----------------------------------------------------------------------------
\* removeDevice: everything is detached and the section of the device deleted.
\* A node that joins again starts from nothing.
RemoveDevice ==
  /\ phase = "idle"
  /\ held' = NoCapability /\ implKey' = NoCapability /\ data' = NoData
  /\ running' = {c \in running : \A d \in Held : c # held[d]}
  /\ announced' = announced \ Held
  /\ results' = {}
  /\ active' = {} /\ errs' = {}
  /\ UNCHANGED <<phase, todo, object, panicked>>

\* The process ends, at any moment.
Crash ==
  /\ phase # "down"
  /\ phase' = "down"
  /\ held' = NoCapability /\ running' = {} /\ announced' = {} /\ results' = {}
  /\ todo' = {} /\ active' = {} /\ object' = Nothing /\ errs' = {}
  /\ panicked' = {}
  /\ UNCHANGED <<implKey, data>>

\* providerLoadDevice: every section that names an implementation and has the
\* data for it is attached again.
LoadDevice ==
  /\ phase = "down"
  /\ held' = [c \in Capability |-> IF data[c] THEN implKey[c] ELSE Nothing]
  /\ running' = {implKey[c] : c \in {d \in Capability : data[d]}} \ {Nothing}
  /\ announced' = {c \in Capability : data[c] /\ implKey[c] # Nothing}
  /\ phase' = "idle"
  /\ UNCHANGED <<implKey, data, results, todo, active, object, errs, panicked>>

Next ==
  \/ Begin \/ Enumerate \/ Attach \/ Reject \/ Panic \/ AllTried \/ Publish
  \/ \E i \in Implementation :
       Unknown(i) \/ Multiple(i) \/ Reenumerate(i) \/ Replace(i) \/ Create(i)
  \/ \E c \in Capability : DetachRedundant(c)
  \/ RemoveDevice \/ Crash \/ LoadDevice

Spec == Init /\ [][Next]_vars

-----------------------------------------------------------------------------
\* A restart brings back every capability the device holds: at every moment its
\* section says what to load and has what Load needs.
SurvivesRestart ==
  \A c \in Held : implKey[c] = held[c] /\ data[c]

\* The consumer's view, built from CapabilityAdded and CapabilityRemoved, is
\* the device's, between enumerations and in the middle of one.
AnnouncedAsHeld == announced = Held

\* Nothing listens to the node for a capability the device does not hold, but
\* an object whose Enumerate is running, or panicked: that one is let go of as
\* it is (enumerateCapabilityOnDevice recovers, and detaches nothing).
NobodyListensInVain ==
  running \ {object} \subseteq {held[c] : c \in Held} \cup panicked

\* Once an enumeration is reported, EnumerateDevice.Status calls attached
\* nothing that is not; and it leaves out a capability that is attached only
\* where two implementations of it were there to be asked for.
TrueReport ==
  /\ results' \subseteq Held'
  /\ \A c \in Held' \ results' :
       \E i, j \in Known : i # j /\ Mapping[i] = c /\ Mapping[j] = c

ReportTruthful == [][Publish => TrueReport]_vars
=============================================================================
