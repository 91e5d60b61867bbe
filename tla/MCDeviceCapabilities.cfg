SPECIFICATION Spec
CONSTANTS
  temperature = temperature
  power = power
  batteryPower = batteryPower
  unknown = unknown
  TemperatureSensor = TemperatureSensor
  PowerSupply = PowerSupply
  Nothing = Nothing
  Implementation = {temperature, power, batteryPower, unknown}
  Capability = {TemperatureSensor, PowerSupply}
  Mapping <- Shared
INVARIANTS
  SurvivesRestart
  AnnouncedAsHeld
  
PROPERTIES
  ReportTruthful
