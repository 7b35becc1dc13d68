--------------------------- MODULE MCThermalUplink ---------------------------
(* Two addresses, of which each socket of the ESP32 gets one, and three      *)
(* descriptors.                                                             *)
EXTENDS ThermalUplink
MCPeers == {"a", "b"}
MCFds == 3..5
=============================================================================
