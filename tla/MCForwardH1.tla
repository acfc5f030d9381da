---------------------------- MODULE MCForwardH1 -----------------------------
(* TLC instances of ForwardH1.                                             *)
EXTENDS ForwardH1, TLC
=============================================================================
