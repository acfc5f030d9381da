---------------------------- MODULE MCForwardH2 -----------------------------
(* TLC instances of ForwardH2.                                             *)
EXTENDS ForwardH2, TLC
=============================================================================
