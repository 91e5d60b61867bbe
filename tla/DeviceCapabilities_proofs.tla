---------------------- MODULE DeviceCapabilities_proofs ----------------------
(***************************************************************************)
(* Proofs about DeviceCapabilities, for any factory and any sets of        *)
(* implementations and capabilities: a factory may know several            *)
(* implementations of a capability.                                        *)
(*                                                                         *)
(* The invariant is about the object whose Enumerate runs: it is named in  *)
(* the section of its capability, which nothing else holds and which this  *)
(* enumeration has not made active yet.  Attaching and rejecting it are    *)
(* sound for that reason.                                                  *)
(***************************************************************************)
EXTENDS DeviceCapabilities, TLAPS

\* A section names an implementation of its own capability.
Named == \A c \in Capability : implKey[c] # Nothing => Mapping[implKey[c]] = c

\* The object whose Enumerate runs.
Working ==
  object # Nothing =>
    /\ implKey[Mapping[object]] = object
    /\ held[Mapping[object]] \in {object, Nothing}
    /\ Mapping[object] \notin active
    /\ object \notin todo

\* Enumerate runs while names are gone through, and nothing is left of an
\* enumeration when the process has ended.
Phases ==
  /\ phase # "attaching" => object = Nothing
  /\ phase = "down" => active = {} /\ errs = {}

\* An active capability is not asked for again under the name it is held by; it
\* is missing from the report only where another name was there to be refused.
Reported ==
  /\ \A c \in active : held[c] \notin todo
  /\ errs \subseteq active
  /\ \A c \in active \ errs : \E i, j \in Known : i # j /\ Mapping[i] = c /\ Mapping[j] = c

IInv ==
  /\ TypeOK /\ Named /\ Working /\ Phases /\ Reported
  /\ SurvivesRestart /\ AnnouncedAsHeld /\ NobodyListensInVain

USE DEF Held, Known

-----------------------------------------------------------------------------
LEMMA InitIInv == Init => IInv
<1> SUFFICES ASSUME Init PROVE IInv
  OBVIOUS
<1>1. TypeOK
  BY CapabilitiesAssumption DEF Init, TypeOK, NoCapability, NoData
<1> QED BY <1>1 DEF IInv, Init, Named, Working, Phases, Reported, NoCapability, NoData,
                    SurvivesRestart, AnnouncedAsHeld, NobodyListensInVain

\* detachCapabilityFromDevice of a capability that is not active.
LEMMA DropTyped ==
  ASSUME IInv, NEW c \in Capability, Drop(c), c \notin active,
         running' \subseteq running
  PROVE  /\ held' \in [Capability -> Known \cup {Nothing}]
         /\ implKey' \in [Capability -> Known \cup {Nothing}]
         /\ data' \in [Capability -> BOOLEAN]
         /\ Held' = Held \ {c}
         /\ \A d \in Held' : held'[d] = held[d] /\ Mapping[held[d]] = d
         /\ announced' = Held' /\ active \subseteq Held'
         /\ Named' /\ SurvivesRestart'
BY CapabilitiesAssumption DEF IInv, TypeOK, Drop, Named, SurvivesRestart, AnnouncedAsHeld

LEMMA NextIInv == IInv /\ [Next]_vars => IInv'
<1> SUFFICES ASSUME IInv, [Next]_vars PROVE IInv'
  OBVIOUS
<1> USE CapabilitiesAssumption
<1>1. CASE Begin
  BY <1>1 DEF Begin, device, IInv, TypeOK, Named, Working, Phases, Reported,
     SurvivesRestart, AnnouncedAsHeld, NobodyListensInVain
<1>2. CASE Enumerate
  BY <1>2 DEF Enumerate, local, IInv, TypeOK, Named, Working, Phases, Reported,
     SurvivesRestart, AnnouncedAsHeld, NobodyListensInVain
<1>3. CASE Attach
  <2>1. TypeOK' /\ Named' /\ Working' /\ Phases'
    BY <1>3 DEF Attach, IInv, TypeOK, Named, Working, Phases
  <2>2. Reported'
    BY <1>3 DEF Attach, IInv, TypeOK, Working, Reported
  <2>3. SurvivesRestart' /\ AnnouncedAsHeld'
    BY <1>3 DEF Attach, IInv, TypeOK, Working, SurvivesRestart, AnnouncedAsHeld
  <2>4. NobodyListensInVain'
    BY <1>3 DEF Attach, IInv, TypeOK, Working, NobodyListensInVain
  <2> QED BY <2>1, <2>2, <2>3, <2>4 DEF IInv
<1>4. CASE Reject
  <2> DEFINE c == Mapping[object]
  <2>1. c \in Capability /\ c \notin active /\ object \in Known
    BY <1>4 DEF Reject, IInv, TypeOK, Working
  <2>2. CASE c \in Held
    <3>1. Drop(c) /\ running' = running \ {object} /\ object' = Nothing /\ errs' = errs \ {c}
          /\ UNCHANGED <<results, phase, todo, active, panicked>>
      BY <1>4, <2>2 DEF Reject
    <3> HIDE DEF c
    <3>2. /\ held' \in [Capability -> Known \cup {Nothing}]
          /\ implKey' \in [Capability -> Known \cup {Nothing}]
          /\ data' \in [Capability -> BOOLEAN]
          /\ Held' = Held \ {c}
          /\ \A d \in Held' : held'[d] = held[d] /\ Mapping[held[d]] = d
          /\ announced' = Held' /\ active \subseteq Held'
          /\ Named' /\ SurvivesRestart'
      BY <3>1, <2>1, DropTyped
    <3>3. TypeOK' /\ Working' /\ Phases' /\ AnnouncedAsHeld'
      BY <3>1, <3>2 DEF IInv, TypeOK, Working, Phases, AnnouncedAsHeld
    <3>4. Reported'
      BY <3>1, <3>2, <2>1 DEF IInv, TypeOK, Reported
    <3>5. NobodyListensInVain'
      <4>1. held[c] = object
        BY <1>4, <2>2 DEF Reject, IInv, Working, c
      <4> QED BY <3>1, <3>2, <4>1 DEF IInv, NobodyListensInVain
    <3> QED BY <3>2, <3>3, <3>4, <3>5 DEF IInv
  <2>3. CASE c \notin Held
    <3>1. /\ UNCHANGED <<held, implKey, data, announced>>
          /\ running' = running \ {object} /\ object' = Nothing /\ errs' = errs \ {c}
          /\ UNCHANGED <<results, phase, todo, active, panicked>>
      BY <1>4, <2>3 DEF Reject
    <3> HIDE DEF c
    <3>2. TypeOK' /\ Named' /\ Working' /\ Phases' /\ SurvivesRestart' /\ AnnouncedAsHeld'
      BY <3>1 DEF IInv, TypeOK, Named, Working, Phases, SurvivesRestart, AnnouncedAsHeld
    <3>3. Reported' /\ NobodyListensInVain'
      BY <3>1, <2>1 DEF IInv, TypeOK, Reported, NobodyListensInVain
    <3> QED BY <3>2, <3>3 DEF IInv
  <2> QED BY <2>2, <2>3
<1>5. CASE Panic
  <2>1. Mapping[object] \notin active
    BY <1>5 DEF Panic, IInv, Working
  <2> QED BY <1>5, <2>1 DEF Panic, device, IInv, TypeOK, Named, Working, Phases, Reported,
             SurvivesRestart, AnnouncedAsHeld, NobodyListensInVain
<1>6. CASE AllTried
  BY <1>6 DEF AllTried, device, IInv, TypeOK, Named, Working, Phases, Reported,
     SurvivesRestart, AnnouncedAsHeld, NobodyListensInVain
<1>7. CASE Publish
  BY <1>7 DEF Publish, device, IInv, TypeOK, Named, Working, Phases, Reported,
     SurvivesRestart, AnnouncedAsHeld, NobodyListensInVain
<1>8. ASSUME NEW i \in Implementation, Unknown(i) PROVE IInv'
  BY <1>8 DEF Unknown, device, IInv, TypeOK, Named, Working, Phases, Reported,
     SurvivesRestart, AnnouncedAsHeld, NobodyListensInVain
<1>9. ASSUME NEW i \in Implementation, Multiple(i) PROVE IInv'
  <2>1. Reported'
    <3>1. held[Mapping[i]] \in Known /\ held[Mapping[i]] # i
          /\ Mapping[held[Mapping[i]]] = Mapping[i] /\ i \in Known
      BY <1>9 DEF Multiple, IInv, TypeOK, Reported
    <3> QED BY <1>9, <3>1 DEF Multiple, device, IInv, TypeOK, Reported
  <2> QED BY <1>9, <2>1 DEF Multiple, device, IInv, TypeOK, Named, Working, Phases,
             SurvivesRestart, AnnouncedAsHeld, NobodyListensInVain
<1>10. ASSUME NEW i \in Implementation, Reenumerate(i) PROVE IInv'
  BY <1>10 DEF Reenumerate, device, IInv, TypeOK, Named, Working, Phases, Reported,
     SurvivesRestart, AnnouncedAsHeld, NobodyListensInVain
<1>11. ASSUME NEW i \in Implementation, Replace(i) PROVE IInv'
  <2> DEFINE c == Mapping[i]
  <2>1. /\ c \in Capability /\ c \notin active /\ Drop(c) /\ object = Nothing
        /\ running' = running \ {held[c]}
        /\ UNCHANGED <<results, local, panicked>>
    BY <1>11 DEF Replace
  <2> HIDE DEF c
  <2>2. /\ held' \in [Capability -> Known \cup {Nothing}]
        /\ implKey' \in [Capability -> Known \cup {Nothing}]
        /\ data' \in [Capability -> BOOLEAN]
        /\ Held' = Held \ {c}
        /\ \A d \in Held' : held'[d] = held[d] /\ Mapping[held[d]] = d
        /\ announced' = Held' /\ active \subseteq Held'
        /\ Named' /\ SurvivesRestart'
    BY <2>1, DropTyped
  <2>3. TypeOK' /\ Working' /\ Phases' /\ AnnouncedAsHeld' /\ Reported'
    BY <2>1, <2>2 DEF local, IInv, TypeOK, Working, Phases, AnnouncedAsHeld, Reported
  <2>4. NobodyListensInVain'
    BY <2>1, <2>2 DEF local, IInv, NobodyListensInVain
  <2> QED BY <2>2, <2>3, <2>4 DEF IInv
<1>12. ASSUME NEW i \in Implementation, Create(i) PROVE IInv'
  BY <1>12 DEF Create, IInv, TypeOK, Named, Working, Phases, Reported,
     SurvivesRestart, AnnouncedAsHeld, NobodyListensInVain
<1>13. ASSUME NEW c \in Capability, DetachRedundant(c) PROVE IInv'
  <2>1. /\ c \notin active /\ Drop(c) /\ object = Nothing
        /\ running' = running \ {held[c]}
        /\ UNCHANGED <<results, local, panicked>>
    BY <1>13 DEF DetachRedundant, IInv, Phases
  <2>2. /\ held' \in [Capability -> Known \cup {Nothing}]
        /\ implKey' \in [Capability -> Known \cup {Nothing}]
        /\ data' \in [Capability -> BOOLEAN]
        /\ Held' = Held \ {c}
        /\ \A d \in Held' : held'[d] = held[d] /\ Mapping[held[d]] = d
        /\ announced' = Held' /\ active \subseteq Held'
        /\ Named' /\ SurvivesRestart'
    BY <2>1, DropTyped
  <2>3. TypeOK' /\ Working' /\ Phases' /\ AnnouncedAsHeld' /\ Reported'
    BY <2>1, <2>2 DEF local, IInv, TypeOK, Working, Phases, AnnouncedAsHeld, Reported
  <2>4. NobodyListensInVain'
    BY <2>1, <2>2 DEF local, IInv, NobodyListensInVain
  <2> QED BY <2>2, <2>3, <2>4 DEF IInv
<1>14. CASE RemoveDevice
  BY <1>14 DEF RemoveDevice, IInv, TypeOK, Named, Working, Phases, Reported,
     SurvivesRestart, AnnouncedAsHeld, NobodyListensInVain, NoCapability, NoData
<1>15. CASE Crash
  BY <1>15 DEF Crash, IInv, TypeOK, Named, Working, Phases, Reported,
     SurvivesRestart, AnnouncedAsHeld, NobodyListensInVain, NoCapability
<1>16. CASE LoadDevice
  <2>1. TypeOK' /\ Named' /\ Working' /\ Phases' /\ Reported'
    BY <1>16 DEF LoadDevice, IInv, TypeOK, Named, Working, Phases, Reported
  <2>2. SurvivesRestart' /\ AnnouncedAsHeld' /\ NobodyListensInVain'
    BY <1>16 DEF LoadDevice, IInv, TypeOK, Phases, SurvivesRestart, AnnouncedAsHeld,
       NobodyListensInVain
  <2> QED BY <2>1, <2>2 DEF IInv
<1>17. CASE UNCHANGED vars
  BY <1>17 DEF vars, device, local, IInv, TypeOK, Named, Working, Phases, Reported,
     SurvivesRestart, AnnouncedAsHeld, NobodyListensInVain
<1> QED BY <1>1, <1>2, <1>3, <1>4, <1>5, <1>6, <1>7, <1>8, <1>9, <1>10, <1>11, <1>12,
           <1>13, <1>14, <1>15, <1>16, <1>17 DEF Next

-----------------------------------------------------------------------------
\* The object being enumerated is named in a section that nothing else holds,
\* and device, persistence, consumer and network agree, at every step
\* (enumerateCapabilityOnDevice, attach- and detachCapabilityFromDevice).
THEOREM IInvHolds == Spec => []IInv
BY InitIInv, NextIInv, PTL DEF Spec

\* The fields of a device and its sections keep their types.
THEOREM TypeCorrect == Spec => []TypeOK
<1>1. IInv => TypeOK
  BY DEF IInv
<1> QED BY <1>1, IInvHolds, PTL

\* At every moment of an enumeration the sections hold what the next start needs
\* to attach again what is attached (providerLoadDevice).
THEOREM RestartKeepsCapabilities == Spec => []SurvivesRestart
<1>1. IInv => SurvivesRestart
  BY DEF IInv
<1> QED BY <1>1, IInvHolds, PTL

\* CapabilityAdded and CapabilityRemoved tell the consumer what the device holds
\* (attachCapabilityToDevice, detachCapabilityFromDevice).
THEOREM ConsumerSeesHeld == Spec => []AnnouncedAsHeld
<1>1. IInv => AnnouncedAsHeld
  BY DEF IInv
<1> QED BY <1>1, IInvHolds, PTL

\* An object that was replaced, rejected or detached listens to nothing; one
\* whose Enumerate panicked may (enumerateCapabilityOnDevice).
THEOREM OnlyHeldListen == Spec => []NobodyListensInVain
<1>1. IInv => NobodyListensInVain
  BY DEF IInv
<1> QED BY <1>1, IInvHolds, PTL

\* The report of an enumeration is what the device holds when it ends, but for a
\* capability two implementations competed for (enumerate).
THEOREM ReportsAreTrue == Spec => ReportTruthful
<1>1. IInv /\ Publish => TrueReport
  BY DEF IInv, Publish, device, TypeOK, Reported, TrueReport
<1>2. IInv /\ [Next]_vars => [Publish => TrueReport]_vars
  BY <1>1
<1> QED BY <1>2, IInvHolds, PTL DEF Spec, ReportTruthful
=============================================================================
