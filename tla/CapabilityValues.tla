-------------------------- MODULE CapabilityValues --------------------------
(***************************************************************************)
(* A device with one of the capabilities that only keep a value: a sensor, *)
(* Identify, ProductInformation or DeviceWorkarounds.  They share nothing: *)
(* an enumeration calls one after the other, and each has its own section  *)
(* and its own monitor.                                                    *)
(***************************************************************************)
EXTENDS Sensor, Identify, ProductInformation, DeviceWorkarounds

VARIABLE capability

ValuesInit ==
  /\ capability \in {"sensor", "identify", "product", "workarounds"}
  /\ SensorInit /\ IdentifyInit /\ InfoInit /\ WorkaroundsInit

ValuesNext ==
  /\ \/ capability = "sensor" /\ SensorNext
        /\ UNCHANGED <<identifyVars, infoVars, workaroundVars>>
     \/ capability = "identify" /\ IdentifyNext
        /\ UNCHANGED <<sensorVars, infoVars, workaroundVars>>
     \/ capability = "product" /\ InfoNext
        /\ UNCHANGED <<sensorVars, identifyVars, workaroundVars>>
     \/ capability = "workarounds" /\ WorkaroundsNext
        /\ UNCHANGED <<sensorVars, identifyVars, infoVars>>
  /\ UNCHANGED capability

ValuesSpec ==
  /\ ValuesInit
  /\ [][ValuesNext]_<<sensorVars, identifyVars, infoVars, workaroundVars, capability>>
  /\ IdentifyFairness
=============================================================================
