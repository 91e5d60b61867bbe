----------------------- MODULE MCDeviceCapabilities -----------------------
(* DeviceCapabilities with a factory that knows three names, two of them   *)
(* for one capability.  In the factory shipped (factory/mapping.go) every  *)
(* name has a capability of its own; enumerateCapabilityOnDevice provides  *)
(* for names that share one, and so does the model.                        *)
EXTENDS DeviceCapabilities, TLC

CONSTANTS temperature, power, batteryPower, unknown,  \* implementations
          TemperatureSensor, PowerSupply              \* capabilities

Shared == (temperature :> TemperatureSensor) @@ (power :> PowerSupply)
            @@ (batteryPower :> PowerSupply)
=============================================================================
