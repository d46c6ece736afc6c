-------------------------- MODULE MCCycleLifecycle --------------------------
(* Model-checking instance of CycleLifecycle: every cycle is created for   *)
(* the same fiscal year, the case in which they compete for the index.     *)
EXTENDS CycleLifecycle, TLC

CONSTANT Year

OneYear == [c \in Cycles |-> Year]

(* Either one cycle with schedule changes, or two cycles with the default  *)
(* schedule: the two hazards, competing cycles and competing schedules,    *)
(* do not need each other.  A reminder schedule takes no notice of time,   *)
(* nor of a cycle that closes: further lists are written before that, and  *)
(* the last one is the last step.                                          *)
Known(c) == \/ status[c] # "absent" \/ lists[c] # <<>>
            \/ \E s \in Sessions : req[s].pc # "idle" /\ req[s].c = c

Reminded(c) ==
    \/ <<"CYCLE_REMINDER_SET", c>> \in audits
    \/ lists[c] \notin {<<>>, <<[days |-> DefaultDays, saw |-> 0]>>}
    \/ lists[c] # <<>> /\ ~opened_at[c]

OneHazard ==
    \/ /\ clock = 0 /\ Cardinality({c \in Cycles : Known(c)}) <= 1
       /\ \A c \in Cycles : /\ Len(lists[c]) > 1 => closed_at[c] = NULL
                           /\ Len(lists[c]) < MaxLists
    \/ /\ \A s \in Sessions : req[s].pc # "idle" => req[s].op # "remind"
       /\ \A c \in Cycles : ~Reminded(c)

Symmetry == Permutations(Sessions) \cup Permutations(Cycles)
=============================================================================
