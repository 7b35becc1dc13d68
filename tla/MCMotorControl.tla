--------------------------- MODULE MCMotorControl ---------------------------
(* Two servos.  Set commands ask for the angle in the middle of the range,   *)
(* which a step of speed 2 from either end would overshoot.                  *)
EXTENDS MotorControl
=============================================================================
