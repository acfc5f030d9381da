---------------------------- MODULE MCH2Upstream ----------------------------
(* TLC instances of H2Upstream.                                            *)
EXTENDS H2Upstream
=============================================================================
