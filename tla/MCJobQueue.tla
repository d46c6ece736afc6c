----------------------------- MODULE MCJobQueue -----------------------------
(* Model-checking instance of JobQueue. The runs check liveness, so they   *)
(* use no symmetry.                                                        *)
EXTENDS JobQueue, TLC
=============================================================================
