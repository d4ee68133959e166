------------------------------ MODULE MCDisplay ------------------------------
(***************************************************************************)
(* TLC instances of Display.                                               *)
(***************************************************************************)
EXTENDS Display

==============================================================================
