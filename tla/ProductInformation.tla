------------------------- MODULE ProductInformation -------------------------
(***************************************************************************)
(* What a device says of itself (implcaps/generic/product_information,     *)
(* impl.go), from the settings a rule computes.  The fields are kept in    *)
(* memory, made anew by each enumeration, and in the section, which is     *)
(* only ever added to.  The device's part in it is that of                 *)
(* DeviceCapabilities: an object that is not attached is detached, and its *)
(* section deleted if the device held it.                                  *)
(***************************************************************************)
CONSTANTS
  Field,      \* "Name", "Manufacturer", "Version", "Serial"
  Value,      \* strings with something in them
  Empty,      \* the empty string, and a field that is not set
  NotString,  \* a setting of another type
  Nothing

ASSUME InfoAssumption ==
  /\ Empty \notin Value /\ NotString \notin Value \cup {Empty}
  /\ Nothing \notin [Field -> Value \cup {Empty}]

VARIABLES
  pi,       \* g.pi of the device's object, or Nothing
  info,     \* persisted: the fields of its section
  holds,    \* the capability is the device's
  named     \* persisted: the section says what to load

infoVars == <<pi, info, holds, named>>

NoField == [f \in Field |-> Empty]

\* The fields of a set take the values given, the others stay as they are.
With(fields, S, given) == [f \in Field |-> IF f \in S THEN given[f] ELSE fields[f]]

InfoInit == pi = Nothing /\ info = NoField /\ holds = FALSE /\ named = FALSE

\* What the caller makes of the answer of Enumerate, which left the fields
\* `new' in the section and `object' in memory.
Answer(attach, object, new) ==
  /\ holds' = attach
  /\ pi'    = IF attach THEN object ELSE Nothing
  /\ info'  = IF holds /\ ~attach THEN NoField ELSE new
  /\ named' = (attach \/ ~holds)

\* A setting that is no string ends the enumeration where it is met: the map
\* gives the fields in any order, and those before it are stored.
EnumerateFails ==
  \E settings \in [Field -> Value \cup {Empty, NotString}] :
    /\ \E f \in Field : settings[f] = NotString
    /\ \E S \in SUBSET {f \in Field : settings[f] \in Value} :
         Answer(pi # Nothing, pi, With(info, S, settings))

\* Mutant of EnumerateInfo: a field that is stored already is not stored again.
EnumerateOnce ==
  \E settings \in [Field -> Value \cup {Empty}] :
    LET S == {f \in Field : settings[f] # Empty}
    IN  Answer(S # {}, With(NoField, S, settings),
               With(info, {f \in S : pi = Nothing}, settings))

\* Every field that is not empty is stored; memory has those alone.
EnumerateInfo ==
  \E settings \in [Field -> Value \cup {Empty}] :
    LET S == {f \in Field : settings[f] # Empty}
    IN  Answer(S # {}, With(NoField, S, settings), With(info, S, settings))

\* The rules no longer ask for it, or its device is removed.
InfoDetach ==
  /\ holds
  /\ holds' = FALSE /\ pi' = Nothing /\ info' = NoField /\ named' = FALSE

\* The process restarts: what the section holds is loaded, if it says what to.
InfoLoad ==
  /\ holds' = named
  /\ pi' = IF named THEN info ELSE Nothing
  /\ UNCHANGED <<info, named>>

InfoNext == EnumerateFails \/ EnumerateInfo \/ InfoDetach \/ InfoLoad

-----------------------------------------------------------------------------
\* The device never holds the capability without the information behind it (Get
\* follows the pointer), not even after an enumeration that failed half way; and
\* no field that is shown is gone after a restart.
InfoSurvives ==
  holds => /\ pi # Nothing
           /\ \A f \in Field : pi[f] # Empty => info[f] # Empty
=============================================================================
