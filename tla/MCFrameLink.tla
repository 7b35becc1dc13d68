---------------------------- MODULE MCFrameLink ----------------------------
(* Model checking of FrameLink: the instances are in the configurations. *)
EXTENDS FrameLink
=============================================================================
