--------------------------- MODULE MCOAuthServer ---------------------------
(* OAuthServer on small instances.  Only runs without liveness use the      *)
(* symmetry.                                                                *)
EXTENDS OAuthServer, TLC

Symmetry == Permutations(Requests)
============================================================================
