----------------------------- MODULE MCVirtualRtc -----------------------------
(***************************************************************************)
(* TLC instances of VirtualRtc.                                            *)
(***************************************************************************)
EXTENDS VirtualRtc

===============================================================================
