---------------------------- MODULE MCAppProxy ----------------------------
(* TLC instance of AppProxy: two start calls, two collections.             *)
EXTENDS AppProxy, TLC

Symmetry == Permutations(Calls) \cup Permutations(Roots)
=============================================================================
