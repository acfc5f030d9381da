----------------------------- MODULE MCWsRelay ------------------------------
(* TLC instances of WsRelay.                                               *)
EXTENDS WsRelay, TLC
=============================================================================
