----------------------- MODULE CapabilityValues_proofs -----------------------
(***************************************************************************)
(* Proofs about the capabilities that only keep a value: the sensors, for  *)
(* any values a node may report, ProductInformation, for any fields and    *)
(* values, and DeviceWorkarounds, for any settings.                        *)
(***************************************************************************)
EXTENDS CapabilityValues, TLAPS

\* A sensor: what is stored is what was last passed on.

\* What is stored is what the consumer has: that is why comparing a report with
\* the one is as good as comparing it with the other.
SensorIInv == SensorTypeOK /\ told = reading /\ ToldIsCurrent

LEMMA DistanceIsSymmetric ==
  ASSUME NEW a \in Int, NEW b \in Int
  PROVE  Distance(a, b) = Distance(b, a) /\ Distance(a, a) = 0
BY DEF Distance

LEMMA KindTyped ==
  ASSUME kind \in {Temperature, Humidity, Pressure}
  PROVE  kind.offset \in Int /\ kind.threshold \in Nat
BY DEF Temperature, Humidity, Pressure

\* A report is passed on, or is close to what was.
LEMMA UpdateKeepsCurrent ==
  ASSUME SensorIInv, Update
  PROVE  SensorIInv'
<1>1. PICK value \in Reported :
        LET new == value + kind.offset IN
          /\ \/ Distance(new, reading) >= kind.threshold /\ reading' = new /\ told' = new
             \/ Distance(new, reading) <= kind.threshold /\ UNCHANGED <<reading, told>>
          /\ reported' = new
  BY DEF Update
<1> DEFINE new == value + kind.offset
<1>2. kind.offset \in Int /\ kind.threshold \in Nat /\ kind' = kind
  BY KindTyped DEF SensorIInv, SensorTypeOK, Update
<1>3. new \in Int /\ reported' = new
  BY <1>1, <1>2, SensorAssumption
<1>4. told' = reading' /\ reading' \in Int
  BY <1>1, <1>3 DEF SensorIInv, SensorTypeOK
<1>5. SensorTypeOK'
  BY <1>2, <1>3, <1>4 DEF SensorIInv, SensorTypeOK, Update
<1>6. Distance(told', new) <= kind.threshold
  <2>1. CASE told' = new
    <3>1. Distance(told', new) = 0
      BY <1>3, <2>1, DistanceIsSymmetric
    <3> QED BY <1>2, <3>1
  <2>2. CASE UNCHANGED told /\ Distance(new, reading) <= kind.threshold
    BY <1>3, <2>2, DistanceIsSymmetric DEF SensorIInv, SensorTypeOK
  <2> QED BY <1>1, <2>1, <2>2
<1>7. ToldIsCurrent'
  BY <1>2, <1>3, <1>6 DEF ToldIsCurrent, Distance
<1> QED BY <1>4, <1>5, <1>7 DEF SensorIInv

\* The other steps forget the report, or leave it and what was told.
LEMMA OthersKeepCurrent ==
  ASSUME SensorIInv, SensorEnumerate \/ SensorDetach \/ SensorLoad \/ UNCHANGED sensorVars
  PROVE  SensorIInv'
<1>1. SensorTypeOK' /\ told' = reading'
  <2>1. attached' \in BOOLEAN
    BY ZenonT(30) DEF SensorIInv, SensorTypeOK, SensorEnumerate, SensorDetach, SensorLoad, sensorVars
  <2>2. kind' = kind /\ told' = reading'
    BY DEF SensorIInv, SensorEnumerate, SensorDetach, SensorLoad, sensorVars
  <2>3. reading' \in {0, reading} /\ reported' \in {None, reported}
    BY DEF SensorEnumerate, SensorDetach, SensorLoad, sensorVars
  <2> QED BY <2>1, <2>2, <2>3 DEF SensorIInv, SensorTypeOK
<1>2. kind' = kind /\ (reported' = None \/ (reported' = reported /\ told' = told))
  BY DEF SensorIInv, SensorEnumerate, SensorDetach, SensorLoad, sensorVars
<1>3. ToldIsCurrent'
  BY <1>2 DEF SensorIInv, ToldIsCurrent, Distance
<1> QED BY <1>1, <1>3 DEF SensorIInv

\* Whatever a node reports, in any order and across enumerations and restarts,
\* the consumer is never further from the last report than the threshold of
\* update.
THEOREM ConsumerIsCurrent == ValuesSpec => []ToldIsCurrent
<1>1. ValuesInit => SensorIInv
  <2> SUFFICES ASSUME SensorInit PROVE SensorIInv
    BY DEF ValuesInit
  <2>1. attached \in BOOLEAN
    BY Zenon DEF SensorInit
  <2>2. kind \in {Temperature, Humidity, Pressure} /\ reading = 0 /\ told = 0 /\ reported = None
    BY DEF SensorInit
  <2> QED BY <2>1, <2>2 DEF SensorIInv, SensorTypeOK, ToldIsCurrent
<1>2. SensorIInv /\ [ValuesNext]_<<sensorVars, identifyVars, infoVars, workaroundVars, capability>>
        => SensorIInv'
  BY UpdateKeepsCurrent, OthersKeepCurrent DEF ValuesNext, SensorNext
<1>3. SensorIInv => ToldIsCurrent
  BY DEF SensorIInv
<1> QED BY <1>1, <1>2, <1>3, PTL DEF ValuesSpec

-----------------------------------------------------------------------------
\* ProductInformation: the device holds the capability exactly when the object
\* has its information, and every field in memory is in the section.
Text == Value \cup {Empty}

InfoIInv ==
  /\ info \in [Field -> Text]
  /\ pi \in [Field -> Text] \cup {Nothing}
  /\ holds <=> pi # Nothing
  /\ pi # Nothing => \A f \in Field : pi[f] # Empty => info[f] # Empty

\* Overwriting the fields of S keeps the types, and leaves none of them empty if
\* none of the values given is.
LEMMA WithStores ==
  ASSUME NEW fields \in [Field -> Text], NEW S \in SUBSET Field, NEW given,
         \A f \in S : given[f] \in Text
  PROVE  /\ With(fields, S, given) \in [Field -> Text]
         /\ \A f \in Field :
              With(fields, S, given)[f] = IF f \in S THEN given[f] ELSE fields[f]
BY DEF With

\* Answer, of an enumeration that leaves nothing in memory which is not in the
\* section, keeps the invariant.
LEMMA AnswerKeeps ==
  ASSUME InfoIInv, NEW attach \in BOOLEAN, NEW object, NEW new \in [Field -> Text],
         attach => /\ object \in [Field -> Text]
                   /\ \A f \in Field : object[f] # Empty => new[f] # Empty,
         Answer(attach, object, new)
  PROVE  InfoIInv'
<1>1. NoField \in [Field -> Text]
  BY DEF NoField, Text
<1>2. CASE attach
  <2>1. pi' = object /\ info' = new /\ holds'
    BY <1>2 DEF Answer
  <2>2. object # Nothing
    BY <1>2, InfoAssumption DEF Text
  <2> QED BY <1>2, <2>1, <2>2 DEF InfoIInv
<1>3. CASE ~attach
  <2>1. pi' = Nothing /\ ~holds' /\ info' \in {NoField, new}
    BY <1>3 DEF Answer
  <2> QED BY <1>1, <2>1 DEF InfoIInv
<1> QED BY <1>2, <1>3

LEMMA FailureKeeps ==
  ASSUME InfoIInv, EnumerateFails
  PROVE  InfoIInv'
<1>1. PICK settings \in [Field -> Value \cup {Empty, NotString}] :
        \E S \in SUBSET {f \in Field : settings[f] \in Value} :
          Answer(pi # Nothing, pi, With(info, S, settings))
  BY DEF EnumerateFails
<1>. PICK S \in SUBSET {f \in Field : settings[f] \in Value} :
        Answer(pi # Nothing, pi, With(info, S, settings))
  BY <1>1
<1> DEFINE new == With(info, S, settings)
<1>2. /\ new \in [Field -> Text]
      /\ \A f \in Field : new[f] = IF f \in S THEN settings[f] ELSE info[f]
  <2>1. S \in SUBSET Field /\ \A f \in S : settings[f] \in Text
    BY DEF Text
  <2> QED BY <2>1, WithStores DEF InfoIInv
<1>3. \A f \in S : settings[f] # Empty
  BY InfoAssumption
<1>4. pi # Nothing => /\ pi \in [Field -> Text]
                      /\ \A f \in Field : pi[f] # Empty => new[f] # Empty
  BY <1>2, <1>3 DEF InfoIInv
<1>5. (pi # Nothing) \in BOOLEAN
  OBVIOUS
<1> QED BY <1>1, <1>2, <1>4, <1>5, AnswerKeeps

LEMMA EnumerationKeeps ==
  ASSUME InfoIInv, EnumerateInfo
  PROVE  InfoIInv'
<1>1. PICK settings \in [Field -> Text] :
        LET S == {f \in Field : settings[f] # Empty}
        IN  Answer(S # {}, With(NoField, S, settings), With(info, S, settings))
  BY DEF EnumerateInfo, Text
<1> DEFINE S == {f \in Field : settings[f] # Empty}
           new == With(info, S, settings)
           object == With(NoField, S, settings)
<1>2. NoField \in [Field -> Text] /\ \A f \in Field : NoField[f] = Empty
  BY DEF NoField, Text
<1>3. S \in SUBSET Field /\ \A f \in S : settings[f] \in Text
  OBVIOUS
<1>4. /\ new \in [Field -> Text]
      /\ \A f \in Field : new[f] = IF f \in S THEN settings[f] ELSE info[f]
  BY <1>3, WithStores DEF InfoIInv
<1>5. /\ object \in [Field -> Text]
      /\ \A f \in Field : object[f] = IF f \in S THEN settings[f] ELSE NoField[f]
  BY <1>2, <1>3, WithStores
<1>6. \A f \in Field : object[f] # Empty => new[f] # Empty
  BY <1>2, <1>4, <1>5
<1>7. (S # {}) \in BOOLEAN /\ Answer(S # {}, object, new)
  BY <1>1
<1> QED BY <1>4, <1>5, <1>6, <1>7, AnswerKeeps

\* Whatever the settings are and wherever one of them ends the enumeration, the
\* device never holds the capability without the information, and every field
\* that Get shows is there after a restart.
THEOREM InfoIsKept == ValuesSpec => []InfoSurvives
<1>1. ValuesInit => InfoIInv
  <2>1. NoField \in [Field -> Text]
    BY DEF NoField, Text
  <2> QED BY <2>1 DEF ValuesInit, InfoInit, InfoIInv
<1>2. InfoIInv /\ [ValuesNext]_<<sensorVars, identifyVars, infoVars, workaroundVars, capability>>
        => InfoIInv'
  <2> SUFFICES ASSUME InfoIInv, InfoNext \/ UNCHANGED infoVars
               PROVE  InfoIInv'
    BY DEF ValuesNext
  <2>1. CASE InfoDetach
    <3>1. NoField \in [Field -> Text]
      BY DEF NoField, Text
    <3> QED BY <2>1, <3>1 DEF InfoDetach, InfoIInv
  <2>2. CASE InfoLoad
    <3>1. CASE named
      <4>1. pi' = info /\ info' = info /\ holds'
        BY <2>2, <3>1 DEF InfoLoad
      <4>2. info # Nothing
        BY InfoAssumption DEF InfoIInv, Text
      <4> QED BY <4>1, <4>2 DEF InfoIInv
    <3>2. CASE ~named
      BY <2>2, <3>2 DEF InfoLoad, InfoIInv
    <3> QED BY <3>1, <3>2
  <2>3. CASE UNCHANGED infoVars
    BY <2>3 DEF infoVars, InfoIInv
  <2> QED BY <2>1, <2>2, <2>3, FailureKeeps, EnumerationKeeps DEF InfoNext
<1>3. InfoIInv => InfoSurvives
  BY DEF InfoIInv, InfoSurvives
<1> QED BY <1>1, <1>2, <1>3, PTL DEF ValuesSpec

-----------------------------------------------------------------------------
\* DeviceWorkarounds: what is stored and not listed yet is still to be listed by
\* the enumeration that runs.
WorkaroundsIInv ==
  /\ enabled \subseteq stored /\ stored \subseteq {KeepAlive}
  /\ stored \ enabled \subseteq pending
  /\ pending # {} => busy
  /\ stored # {} => keptAlive

\* However often the rules change, and wherever an enumeration is refused or cut
\* short, the list in memory is the one a restart would show, and the node was
\* told to do what it says.
THEOREM WorkaroundsInForce == ValuesSpec => []EnabledInForce
<1>1. ValuesInit => WorkaroundsIInv
  BY DEF ValuesInit, WorkaroundsInit, WorkaroundsIInv
<1>2. WorkaroundsIInv /\ [ValuesNext]_<<sensorVars, identifyVars, infoVars, workaroundVars, capability>>
        => WorkaroundsIInv'
  <2> SUFFICES ASSUME WorkaroundsIInv, WorkaroundsNext \/ UNCHANGED workaroundVars
               PROVE  WorkaroundsIInv'
    BY DEF ValuesNext
  <2>1. CASE Reset
    BY <2>1 DEF Reset, WorkaroundsIInv
  <2>2. CASE PassOver
    BY <2>2 DEF PassOver, WorkaroundsIInv
  <2>3. CASE Configure
    BY <2>3 DEF Configure, WorkaroundsIInv
  <2>4. CASE Append
    BY <2>4 DEF Append, WorkaroundsIInv
  <2>5. CASE Refused
    BY <2>5 DEF Refused, WorkaroundsIInv
  <2>6. CASE Return
    BY <2>6 DEF Return, WorkaroundsIInv
  <2>7. CASE WorkaroundsDetach
    BY <2>7 DEF WorkaroundsDetach, WorkaroundsIInv
  <2>8. CASE WorkaroundsLoad
    BY <2>8 DEF WorkaroundsLoad, WorkaroundsIInv
  <2>9. CASE UNCHANGED workaroundVars
    BY <2>9 DEF workaroundVars, WorkaroundsIInv
  <2> QED BY <2>1, <2>2, <2>3, <2>4, <2>5, <2>6, <2>7, <2>8, <2>9 DEF WorkaroundsNext
<1>3. WorkaroundsIInv => EnabledInForce
  BY DEF WorkaroundsIInv, EnabledInForce
<1> QED BY <1>1, <1>2, <1>3, PTL DEF ValuesSpec
=============================================================================
