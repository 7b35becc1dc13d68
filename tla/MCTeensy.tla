------------------------------ MODULE MCTeensy ------------------------------
(* Three segments of three packets, of which the second carries the number;  *)
(* one camera frame is a repeat.                                            *)
EXTENDS Teensy
Repeats == {2}
=============================================================================
