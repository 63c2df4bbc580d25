------------------------------ MODULE MCSheets ------------------------------
(* Sheets on small instances.  Only the contents of the key column are       *)
(* compared, never ordered.                                                  *)
EXTENDS Sheets, TLC

Symmetry == Permutations(Calls) \cup Permutations(Keys)
=============================================================================
