--------------------------- MODULE MCPowerSupply ---------------------------
(* PowerSupply with the nodes of the run: any PowerSource, and any of five *)
(* attributes, the two that are handled apart among them.                  *)
EXTENDS PowerSupply

NodeAttributes ==
  {MainsVoltage, MainsFrequency, <<"battery0", "voltage">>, <<"battery1", "voltage">>,
   <<"battery2", "voltage">>}

AnySource == [main : {"mains", "battery", "unknown"}, backup : BOOLEAN]
=============================================================================
