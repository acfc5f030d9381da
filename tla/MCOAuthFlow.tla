---------------------------- MODULE MCOAuthFlow -----------------------------
(* TLC instance of OAuthFlow.                                              *)
EXTENDS OAuthFlow, TLC
=============================================================================
