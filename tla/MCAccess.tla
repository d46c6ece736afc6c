------------------------------ MODULE MCAccess ------------------------------
(* Model-checking instance of Access.                                      *)
EXTENDS Access, TLC

Symmetry == Permutations(Requests) \cup Permutations(Users)
=============================================================================
