---------------------------- MODULE MCStm32Uart -----------------------------
(* Lines and a queue of two or three entries, so that lines overflow, a      *)
(* batch finds the queue full, and the reset meets a line half received.     *)
EXTENDS Stm32Uart
=============================================================================
