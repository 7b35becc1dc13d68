--------------------------- MODULE MCThermalProxy ---------------------------
(* Two connections, which come and go any number of times; signals below the *)
(* threshold of 2, between it and the threshold with the margin, and above.  *)
EXTENDS ThermalProxy
CONSTANTS c1, c2
MCClients == {c1, c2}
MCSignals == 1..4
=============================================================================
