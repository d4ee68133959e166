----------------------------- MODULE MCInterrupts -----------------------------
(***************************************************************************)
(* TLC instances of Interrupts.                                            *)
(***************************************************************************)
EXTENDS Interrupts

===============================================================================
