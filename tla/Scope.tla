------------------------------- MODULE Scope --------------------------------
(***************************************************************************)
(* Who may see which unit: core/security/rbac.py.  No code of the          *)
(* repository moves a unit, so the tree is a parameter of the operators;   *)
(* parent_id is a plain foreign key, and nothing keeps it free of cycles.  *)
(***************************************************************************)
EXTENDS Naturals, FiniteSets

CONSTANT NULL

(* The org_units table is the domain of parent_id. *)
ScopedRoles == {"Global", "CompanyReviewer", "FilingUnitManager", "UplineReviewer"}

(* (mutant: the search ends with the children of the root.) *)
ChildrenOnly(parent, root) == {root} \cup {u \in DOMAIN parent : parent[u] = root}

(* rbac._descendants: breadth first, a query per generation, until one     *)
(* brings nothing new.                                                     *)
_descendants(parent, root) ==
    LET search[n \in 0..Cardinality(DOMAIN parent)] ==
          IF n = 0
          THEN [visited |-> {root}, frontier |-> {root}]
          ELSE LET last == search[n - 1]
                   new  == {u \in DOMAIN parent \ last.visited : parent[u] \in last.frontier}
               IN  [visited |-> last.visited \cup new, frontier |-> new]
    IN  search[Cardinality(DOMAIN parent)].visited

(* rbac.scoped_org_units; ALL_SCOPES is every unit.  "Global" stands for   *)
(* the four global roles, "top" for the units of level 0000.               *)
scoped_org_units(roles, unit, parent, top) ==
    CASE "Global" \in roles            -> DOMAIN parent
      [] "CompanyReviewer" \in roles /\ "Global" \notin roles -> top
      [] OTHER ->
           IF unit = NULL THEN {}
           ELSE IF "FilingUnitManager" \in roles THEN {unit}
           ELSE IF "UplineReviewer" \in roles THEN _descendants(parent, unit)
           ELSE {}
-----------------------------------------------------------------------------
(* The subtree below a unit, without a search: what is in every set that   *)
(* holds the unit and the children of its members.                         *)
Subtree(parent, root) ==
    {u \in DOMAIN parent :
       \A S \in SUBSET DOMAIN parent :
         root \in S /\ (\A v \in DOMAIN parent : parent[v] \in S => v \in S) => u \in S}

(* The units from one upward, itself included. *)
Ancestors(parent, u) == {v \in DOMAIN parent : u \in Subtree(parent, v)}
=============================================================================
