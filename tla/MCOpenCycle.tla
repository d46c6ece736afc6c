---------------------------- MODULE MCOpenCycle -----------------------------
(* Model-checking instance of OpenCycle and Notifications.  At the start   *)
(* no unit is excluded from another cycle than the one looked at (the      *)
(* requests exclude them from it), and either all units of an open cycle   *)
(* have a template or none has one.                                        *)
EXTENDS OpenCycle, TLC

MCInit ==
    /\ Init
    /\ \A u \in Units : excluded[u] \subseteq {This}
    /\ \A u, v \in Units : templates[u] = templates[v]
    /\ cycle = "draft" => \A u \in Units : templates[u] = NULL

MCSpec == MCInit /\ [][Next]_vars

Symmetry == Permutations(Requests) \cup Permutations(Units)
=============================================================================
