--------------------------- MODULE MCControlPlane ---------------------------
(* One emergency sequence and one centering, of two commands each.  Two      *)
(* faults are enough for an answer that is late and another that is lost.    *)
EXTENDS ControlPlane
=============================================================================
