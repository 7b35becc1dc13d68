------------------------- MODULE MCThermalReceiver --------------------------
(* Three connections, which come and go any number of times.               *)
EXTENDS ThermalReceiver
CONSTANTS c1, c2, c3
MCClients == {c1, c2, c3}
=============================================================================
