------------------------------ MODULE OrgWalks ------------------------------
(***************************************************************************)
(* Who is told: the two walks up the org tree.  resolve_manager            *)
(* (shared_costs/helpers.py) asks the database at every unit it comes to,  *)
(* while users come and go; _walk_uplines (cycles/reminders.py) walks over *)
(* what _resolve_recipients has loaded, and remembers nothing of where it  *)
(* has been.                                                               *)
(***************************************************************************)
EXTENDS Scope

CONSTANT OrgUnits      \* org_units

ASSUME WalkAssumption == IsFiniteSet(OrgUnits) /\ NULL \notin OrgUnits

VARIABLES
    parent,      \* org_units.parent_id
    staffed,     \* units with an active user, for uplines an active reviewer
    walk         \* one walk

walkvars == <<parent, staffed, walk>>

Walk ==
    [kind: {"manager", "uplines"}, pc: {"walk", "done"},
     start: OrgUnits,
     at: OrgUnits \cup {NULL},             \* current_id, current
     visited: SUBSET OrgUnits,             \* resolve_manager only
     loaded: SUBSET OrgUnits,              \* reviewers_by_unit
     found: OrgUnits \cup {NULL},          \* the unit whose users are told
     steps: Nat,                        \* history: times round the loop
     manned: SUBSET OrgUnits,              \* history: staffed at some time since the start
     vacant: SUBSET OrgUnits]              \* history: not staffed at some time

Begin(kind, u) ==
    [kind |-> kind, pc |-> "walk", start |-> u, at |-> u, visited |-> {}, loaded |-> staffed,
     found |-> NULL, steps |-> 0, manned |-> staffed, vacant |-> OrgUnits \ staffed]

Done(w) == [w EXCEPT !.pc = "done"]

(* (mutant: the unit itself is not asked, its parent is.) *)
FromTheParent ==
    LET w == walk IN
    /\ w.kind = "manager" /\ w.pc = "walk"
    /\ walk' = IF w.at = NULL \/ w.at \in w.visited THEN Done(w)
               ELSE IF parent[w.at] \in staffed THEN Done([w EXCEPT !.found = parent[w.at]])
               ELSE [w EXCEPT !.at = parent[w.at], !.visited = @ \cup {w.at}, !.steps = @ + 1]
    /\ UNCHANGED <<parent, staffed>>

(* (mutant: nothing is remembered of where the walk has been.) *)
WithoutVisited ==
    LET w == walk IN
    /\ w.steps <= Cardinality(OrgUnits) /\ w.kind = "manager" /\ w.pc = "walk"
    /\ walk' = IF w.at = NULL THEN Done(w)
               ELSE IF w.at \in staffed THEN Done([w EXCEPT !.found = w.at])
               ELSE [w EXCEPT !.at = parent[w.at], !.steps = @ + 1]
    /\ UNCHANGED <<parent, staffed>>

(* resolve_manager, once round its loop: ends at the root or where it has  *)
(* been, at a unit with an active user, or goes on to the parent.          *)
resolve_manager ==
    LET w == walk IN
    /\ w.kind = "manager" /\ w.pc = "walk"
    /\ walk' = IF w.at = NULL \/ w.at \in w.visited THEN Done(w)
               ELSE IF w.at \in staffed THEN Done([w EXCEPT !.found = w.at])
               ELSE [w EXCEPT !.at = parent[w.at], !.visited = @ \cup {w.at}, !.steps = @ + 1]
    /\ UNCHANGED <<parent, staffed>>

(* _walk_uplines, once round its loop; it runs in memory and is stopped    *)
(* here after as many rounds as there are units: on a cycle without        *)
(* reviewers the code never stops.                                         *)
_walk_uplines ==
    LET w == walk  up == parent[w.at] IN
    /\ w.kind = "uplines" /\ w.pc = "walk" /\ w.steps <= Cardinality(OrgUnits)
    /\ walk' = IF up = NULL THEN Done(w)
               ELSE IF up \in w.loaded THEN Done([w EXCEPT !.found = up])
               ELSE [w EXCEPT !.at = up, !.steps = @ + 1]
    /\ UNCHANGED <<parent, staffed>>

(* Users are deactivated, activated and moved by other requests. *)
Staff ==
    /\ walk.pc = "walk"
    /\ \E u \in OrgUnits :
         /\ staffed' = (staffed \ {u}) \cup ({u} \ staffed)
         /\ walk' = [walk EXCEPT !.manned = @ \cup staffed', !.vacant = @ \cup (OrgUnits \ staffed')]
    /\ UNCHANGED parent

WalkInit ==
    /\ parent \in [OrgUnits -> OrgUnits \cup {NULL}]
    /\ staffed \in SUBSET OrgUnits
    /\ walk \in {Begin(kind, u) : kind \in {"manager", "uplines"}, u \in OrgUnits}

WalkNext == resolve_manager \/ _walk_uplines \/ Staff

WalkSpec == WalkInit /\ [][WalkNext]_walkvars
-----------------------------------------------------------------------------
Above(u) == Ancestors(parent, u)

(* Whatever the parent links are, cycles included: an UplineReviewer sees  *)
(* the units below his own, all of them and no others.                     *)
ScopeIsSubtree ==
    \A unit \in OrgUnits :
      scoped_org_units({"UplineReviewer"}, unit, parent, {}) = Subtree(parent, unit)

(* Who is told of a shared cost is the nearest above, as far as a walk     *)
(* that asks unit by unit can tell: a unit that was staffed meanwhile, and *)
(* every unit below it on the way was once without; nobody is told only if *)
(* every unit above was once without.  A reminder names the nearest        *)
(* reviewers strictly above, as they were loaded.                          *)
NearestIsTold ==
    LET w == walk
        way == IF w.kind = "manager" THEN Above(w.start) ELSE Above(w.start) \ {w.start}
        without == IF w.kind = "manager" THEN w.vacant ELSE OrgUnits \ w.loaded
        passed == IF w.found = NULL THEN way ELSE way \ Above(w.found)
    IN  w.pc = "done" =>
          /\ passed \subseteq without
          /\ w.found # NULL => /\ w.found \in Above(w.start)
                               /\ w.found \in (IF w.kind = "manager" THEN w.manned ELSE w.loaded)

(* resolve_manager ends on any links, _walk_uplines where the units above  *)
(* are no cycle: neither goes round more often than there are units.       *)
WalksEnd ==
    walk.steps > Cardinality(OrgUnits)
    => walk.kind = "uplines" /\ \E u \in Above(walk.start) : parent[u] # NULL /\ u \in Above(parent[u])
=============================================================================
