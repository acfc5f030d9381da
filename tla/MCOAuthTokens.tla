--------------------------- MODULE MCOAuthTokens ----------------------------
(* TLC instances of OAuthTokens.                                           *)
EXTENDS OAuthTokens, TLC

Symmetry == Permutations(AppExecs) \cup Permutations(CliExecs) \cup Permutations(SignIns)
=============================================================================
