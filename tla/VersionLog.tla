----------------------------- MODULE VersionLog -----------------------------
(***************************************************************************)
(* What the three importers promise the readers of their uploads: for each *)
(* version series (a budget upload's cycle and org unit, a personnel or    *)
(* shared cost upload's cycle) an append-only log of accepted documents.   *)
(* The version of a document is its position, the latest is the last one.  *)
(***************************************************************************)
EXTENDS Naturals, Sequences

CONSTANTS
    Series,   \* version series
    Docs      \* documents clients send, each in one request

VARIABLE log  \* per series, the accepted documents in version order

Accept(k, d) ==
    /\ \A j \in Series : \A v \in 1..Len(log[j]) : log[j][v] # d
    /\ log' = [log EXCEPT ![k] = Append(@, d)]

Init == log = [k \in Series |-> << >>]
Next == \E k \in Series, d \in Docs : Accept(k, d)
Spec == Init /\ [][Next]_log
=============================================================================
