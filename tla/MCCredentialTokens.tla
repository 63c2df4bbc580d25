------------------------ MODULE MCCredentialTokens ------------------------
(* CredentialTokens on small instances.  Only the runs without liveness use *)
(* the symmetry.                                                            *)
EXTENDS CredentialTokens, TLC

Symmetry == Permutations(Callers) \cup Permutations(Callbacks) \cup Permutations(States)
===========================================================================
