------------------------------- MODULE Sensor -------------------------------
(***************************************************************************)
(* The reading of a temperature, humidity or pressure sensor               *)
(* (implcaps/zcl/temperature_sensor, humidity_sensor and pressure_sensor,  *)
(* impl.go), which differ in what `kind' holds.  Values are in the units   *)
(* the node reports: hundredths of a degree, ten-thousandths of humidity,  *)
(* a pressure in tenths; a temperature is shown in kelvin.  The code       *)
(* computes them in floating point, so a difference that is exactly the    *)
(* threshold may fall on either side of it.                                *)
(***************************************************************************)
EXTENDS Integers

CONSTANTS
  Reported,   \* values a node reports
  None

ASSUME SensorAssumption == Reported \subseteq Int /\ None \notin Int

VARIABLES
  kind,       \* which of the three it is
  attached,   \* the capability is the device's, and its monitor delivers reports
  reading,    \* persisted: the reading, 0 while there is none
  reported,   \* history: the last report since it was attached, or None
  told        \* the value the consumer has: from an update, or from Reading

sensorVars == <<kind, attached, reading, reported, told>>

\* What is added to a report, and the change that is passed on.
Temperature == [offset |-> 27315, threshold |-> 10]
Humidity    == [offset |-> 0, threshold |-> 100]
Pressure    == [offset |-> 0, threshold |-> 1]

Distance(a, b) == IF a < b THEN b - a ELSE a - b

SensorInit ==
  /\ kind \in {Temperature, Humidity, Pressure}
  /\ attached = FALSE /\ reading = 0 /\ reported = None /\ told = 0

\* Enumerate: the monitor is attached, or the capability is not.  A capability
\* the device had is detached then, and its section deleted.
SensorEnumerate ==
  \/ attached' = TRUE /\ UNCHANGED <<kind, reading, reported, told>>
  \/ /\ attached' = FALSE
     /\ reading' = IF attached THEN 0 ELSE reading
     /\ reported' = None /\ told' = reading'
     /\ UNCHANGED kind

\* Detach, of a capability that is no longer wanted or goes with its device:
\* its section is deleted.
SensorDetach ==
  /\ attached
  /\ attached' = FALSE /\ reading' = 0 /\ reported' = None /\ told' = 0
  /\ UNCHANGED kind

\* Mutant of Update: every report is stored, and compared with the one before.
UpdateStoringAll ==
  /\ attached
  /\ \E value \in Reported :
       LET new == value + kind.offset IN
         /\ \/ Distance(new, reading) >= kind.threshold /\ told' = new
            \/ Distance(new, reading) <= kind.threshold /\ UNCHANGED told
         /\ reading' = new
         /\ reported' = new
  /\ UNCHANGED <<kind, attached>>

\* update: what is stored is what was last passed on.
Update ==
  /\ attached
  /\ \E value \in Reported :
       LET new == value + kind.offset IN
         /\ \/ Distance(new, reading) >= kind.threshold /\ reading' = new /\ told' = new
            \/ Distance(new, reading) <= kind.threshold /\ UNCHANGED <<reading, told>>
         /\ reported' = new
  /\ UNCHANGED <<kind, attached>>

\* The process restarts: Load attaches the monitor again, or fails and leaves
\* the section where it is.  A consumer begins with Reading.
SensorLoad ==
  /\ attached' \in {FALSE, attached}
  /\ told' = reading
  /\ reported' = IF attached' THEN reported ELSE None
  /\ UNCHANGED <<kind, reading>>

SensorNext == SensorEnumerate \/ SensorDetach \/ Update \/ SensorLoad

-----------------------------------------------------------------------------
SensorTypeOK ==
  /\ kind \in {Temperature, Humidity, Pressure} /\ attached \in BOOLEAN
  /\ reading \in Int /\ reported \in Int \cup {None} /\ told \in Int

\* The consumer is never further from what the node last reported than the
\* threshold, however slowly the value drifted and across restarts: a report is
\* compared with what was passed on, and not with the report before.
ToldIsCurrent ==
  reported # None => Distance(told, reported) <= kind.threshold
=============================================================================
