---------------------------- MODULE CycleStatus -----------------------------
(***************************************************************************)
(* What the cycles component promises its clients: the committed status of *)
(* every budget cycle moves along the edges of state_machine.py            *)
(*      (absent) -> draft -> open <-> closed                               *)
(* and a fiscal year never has two cycles that are not closed.  The        *)
(* importers only depend on this module; CycleLifecycle implements it.     *)
(***************************************************************************)
CONSTANTS
    Cycles,    \* cycle ids
    YearOf     \* YearOf[c]: the fiscal_year cycle c is created for

VARIABLE status   \* committed budget_cycles.status, "absent" before INSERT

CycleState == {"absent", "draft", "open", "closed"}
Active     == {"draft", "open"}

\* uq_budget_cycles_active_year: c may become (or stay) active.
YearFree(c) ==
    \A d \in Cycles \ {c} : YearOf[d] = YearOf[c] => status[d] \notin Active

Edges == {<<"absent", "draft">>, <<"draft", "open">>,
          <<"open", "closed">>, <<"closed", "open">>}

Move(c, to) ==
    /\ <<status[c], to>> \in Edges
    /\ to \in Active => YearFree(c)
    /\ status' = [status EXCEPT ![c] = to]

Init == status = [c \in Cycles |-> "absent"]
Next == \E c \in Cycles, to \in CycleState : Move(c, to)
Spec == Init /\ [][Next]_status

\* At most one draft or open cycle per fiscal year.
OneActiveCyclePerYear ==
    \A c, d \in Cycles :
        c # d /\ YearOf[c] = YearOf[d] =>
            ~ (status[c] \in Active /\ status[d] \in Active)
=============================================================================
