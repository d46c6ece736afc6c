-------------------------- MODULE ReportingProofs ---------------------------
(***************************************************************************)
(* Safety of what reads: the two walks up the org tree and the scope of a  *)
(* reader; then, for any number of requests and writes, the import of      *)
(* actuals, the consolidated report and the dashboard.                     *)
(*                                                                         *)
(* Parent links that form cycles are not excluded.  What is above a unit   *)
(* is the least set with the unit in it that is closed under parent links, *)
(* so a walk needs no induction over the tree, only over its own steps.    *)
(*                                                                         *)
(* A request keeps what its statements have read, so nearly everything is  *)
(* a relation between those copies and tables that only grow: versions are *)
(* appended, account codes added.  The table of actuals is the exception,  *)
(* rows of it are deleted; but it always holds files as a whole, and so    *)
(* does every copy of it.                                                  *)
(***************************************************************************)
EXTENDS Reporting, OrgWalks, FiniteSetTheorems, WellFoundedInduction, TLAPS

Links == [OrgUnits -> OrgUnits \cup {NULL}]

(* What is still above a unit that may be the root's missing parent. *)
Way(par, u) == IF u = NULL THEN {} ELSE Ancestors(par, u)

LEMMA ItselfAbove ==
    ASSUME NEW par \in Links, NEW u \in OrgUnits
    PROVE  u \in Ancestors(par, u) /\ Ancestors(par, u) \subseteq OrgUnits
BY DEF Links, Ancestors, Subtree

\* Who is above the parent is above the unit.
LEMMA AboveParent ==
    ASSUME NEW par \in Links, NEW u \in OrgUnits, par[u] # NULL
    PROVE  Ancestors(par, par[u]) \subseteq Ancestors(par, u)
BY DEF Links, Ancestors, Subtree

\* What is above a unit is closed under parent links.
LEMMA AboveClosed ==
    ASSUME NEW par \in Links, NEW u \in OrgUnits, NEW v \in Ancestors(par, u), par[v] # NULL
    PROVE  par[v] \in Ancestors(par, u)
BY DEF Links, Ancestors, Subtree

\* And it is the least such set with the unit in it.
LEMMA AboveLeast ==
    ASSUME NEW par \in Links, NEW S \in SUBSET OrgUnits, NEW u \in S,
           \A v \in S : par[v] # NULL => par[v] \in S
    PROVE  Ancestors(par, u) \subseteq S
<1> SUFFICES ASSUME NEW v \in Ancestors(par, u), v \notin S PROVE FALSE
  OBVIOUS
<1> DEFINE Rest == OrgUnits \ S
<1>1. v \in Rest /\ Rest \in SUBSET OrgUnits
  BY DEF Links, Ancestors
<1>2. \A w \in OrgUnits : par[w] \in Rest => w \in Rest
  BY WalkAssumption DEF Links
<1>3. u \in Rest
  BY <1>1, <1>2 DEF Links, Ancestors, Subtree
<1> QED
  BY <1>3

\* One step of a walk: a unit, then what is above its parent.
LEMMA AboveStep ==
    ASSUME NEW par \in Links, NEW u \in OrgUnits
    PROVE  Ancestors(par, u) = {u} \cup Way(par, par[u])
<1> DEFINE S == {u} \cup Way(par, par[u])
<1>1. par[u] = NULL \/ par[u] \in OrgUnits
  BY DEF Links
<1>2. S \in SUBSET OrgUnits
  BY <1>1, ItselfAbove DEF Way
<1>3. \A v \in S : par[v] # NULL => par[v] \in S
  BY <1>1, ItselfAbove, AboveClosed DEF Way
<1>4. Ancestors(par, u) \subseteq S
  <2>1. u \in S
    OBVIOUS
  <2> HIDE DEF S
  <2> QED
    BY <2>1, <1>2, <1>3, AboveLeast
<1>5. S \subseteq Ancestors(par, u)
  BY <1>1, ItselfAbove, AboveParent DEF Way
<1> QED
  BY <1>4, <1>5
-----------------------------------------------------------------------------
\* A set of naturals that is not empty has a smallest member.
LEMMA SmallestNat ==
    ASSUME NEW T \in SUBSET Nat, T # {}
    PROVE  \E n \in T : \A m \in T : n <= m
<1> DEFINE R == OpToRel(<, Nat)
<1>1. PICK n \in T : \A m \in T : <<m, n>> \notin R
  <2>1. IsWellFoundedOn(R, Nat)
    BY NatLessThanWellFounded
  <2> HIDE DEF R
  <2> QED
    BY <2>1, WFMin
<1>2. \A m \in T : ~ (m < n)
  BY <1>1 DEF OpToRel
<1> QED
  BY <1>2

\* So a set that holds 0, and with a number below N the next one, holds
\* them all.
LEMMA UpTo ==
    ASSUME NEW N \in Nat, NEW T, 0 \in T, \A n \in 0..N : n < N /\ n \in T => n + 1 \in T
    PROVE  0..N \subseteq T
<1> SUFFICES ASSUME NEW k \in 0..N, k \notin T PROVE FALSE
  OBVIOUS
<1> DEFINE Rest == 0..N \ T
<1>1. PICK n \in Rest : \A m \in Rest : n <= m
  <2>1. Rest \in SUBSET Nat /\ Rest # {}
    OBVIOUS
  <2> HIDE DEF Rest
  <2> QED
    BY <2>1, SmallestNat
<1>2. n # 0 /\ n - 1 \in 0..N /\ n - 1 < N
  BY <1>1
<1>3. n - 1 \in T
  BY <1>1, <1>2
<1> QED
  BY <1>1, <1>2, <1>3

(* The search of _descendants, a function of the number of queries. *)
Query(par, last) ==
    LET new == {u \in DOMAIN par \ last.visited : par[u] \in last.frontier}
    IN  [visited |-> last.visited \cup new, frontier |-> new]

IsSearch(par, root, N, g) ==
    g = [n \in 0..N |-> IF n = 0 THEN [visited |-> {root}, frontier |-> {root}] ELSE Query(par, g[n - 1])]

\* There is one, whatever the number of queries.
LEMMA SearchExists ==
    ASSUME NEW par, NEW root, NEW N \in Nat
    PROVE  \E g : IsSearch(par, root, N, g)
<1> DEFINE T == {n \in 0..N : \E g : IsSearch(par, root, n, g)}
<1>1. 0 \in T
  <2> DEFINE g == [n \in 0..0 |-> [visited |-> {root}, frontier |-> {root}]]
  <2>1. IsSearch(par, root, 0, g)
    BY DEF IsSearch
  <2> HIDE DEF g
  <2> QED
    BY <2>1
<1>2. ASSUME NEW n \in 0..N, n < N, n \in T PROVE n + 1 \in T
  <2>1. PICK g : IsSearch(par, root, n, g)
    BY <1>2
  <2> DEFINE h == [m \in 0..(n + 1) |-> IF m = n + 1 THEN Query(par, g[n]) ELSE g[m]]
  <2>2. \A m \in 0..n : g[m] = IF m = 0 THEN [visited |-> {root}, frontier |-> {root}]
                               ELSE Query(par, g[m - 1])
    BY <2>1 DEF IsSearch
  <2>3. \A m \in 0..(n + 1) : h[m] = IF m = 0 THEN [visited |-> {root}, frontier |-> {root}]
                                     ELSE Query(par, h[m - 1])
    <3> TAKE m \in 0..(n + 1)
    <3>1. CASE m = n + 1
      <4>1. h[m] = Query(par, g[n]) /\ h[m - 1] = g[n] /\ m # 0
        BY <3>1
      <4> QED
        BY <4>1
    <3>2. CASE m # n + 1
      <4>1. m \in 0..n /\ h[m] = g[m] /\ (m # 0 => h[m - 1] = g[m - 1])
        BY <3>2
      <4> QED
        BY <4>1, <2>2
    <3> QED
      BY <3>1, <3>2
  <2>4. IsSearch(par, root, n + 1, h)
    <3>1. h = [m \in 0..(n + 1) |-> h[m]]
      OBVIOUS
    <3> HIDE DEF h
    <3> QED
      BY <2>3, <3>1 DEF IsSearch
  <2>5. n + 1 \in 0..N
    BY <1>2
  <2> HIDE DEF h
  <2> QED
    BY <2>4, <2>5
<1>3. N \in T
  <2> HIDE DEF T
  <2>1. 0..N \subseteq T
    BY <1>1, <1>2, UpTo
  <2> QED
    BY <2>1
<1> QED
  BY <1>3

LEMMA SubtreeClosed ==
    ASSUME NEW U, NEW par \in [U -> U \cup {NULL}], NEW root \in U, NEW u \in U,
           par[u] \in Subtree(par, root)
    PROVE  u \in Subtree(par, root)
BY DEF Subtree

(* After some queries: what was found belongs to the subtree, all children *)
(* are found of what was found before the last query, and each query but   *)
(* one that ended the search has found something.                          *)
Searched(par, root, n, last) ==
    /\ last.visited \subseteq Subtree(par, root)
    /\ root \in last.visited
    /\ last.frontier \subseteq last.visited
    /\ \A u \in DOMAIN par : par[u] \in last.visited \ last.frontier => u \in last.visited
    /\ last.frontier = {} \/ n < Cardinality(last.visited)

LEMMA QueryKeeps ==
    ASSUME NEW U, IsFiniteSet(U), NEW par \in [U -> U \cup {NULL}], NEW root \in U,
           NEW n \in Nat, NEW last, Searched(par, root, n, last)
    PROVE  Searched(par, root, n + 1, Query(par, last))
<1> DEFINE new == {u \in U \ last.visited : par[u] \in last.frontier}
<1>1. /\ Query(par, last).visited = last.visited \cup new
      /\ Query(par, last).frontier = new
  BY DEF Query
<1>2. new \subseteq Subtree(par, root) /\ last.visited \subseteq U
  BY SubtreeClosed DEF Searched, Subtree
<1>3. \A u \in U : par[u] \in last.visited => u \in last.visited \cup new
  BY DEF Searched
<1>4. new = {} \/ n + 1 < Cardinality(last.visited \cup new)
  <2> SUFFICES ASSUME new # {} PROVE n + 1 < Cardinality(last.visited \cup new)
    OBVIOUS
  <2>1. IsFiniteSet(last.visited \cup new) /\ IsFiniteSet(last.visited)
    BY <1>2, FS_Subset
  <2>2. last.visited \subseteq last.visited \cup new /\ last.visited # last.visited \cup new
    OBVIOUS
  <2>3. Cardinality(last.visited) < Cardinality(last.visited \cup new)
    <3> HIDE DEF new
    <3> QED
      BY <2>1, <2>2, FS_Subset, FS_CardinalityType
  <2>4. n < Cardinality(last.visited)
    BY DEF Searched
  <2> QED
    BY <2>1, <2>3, <2>4, FS_CardinalityType
<1> HIDE DEF new
<1> QED
  BY <1>1, <1>2, <1>3, <1>4 DEF Searched

(* What _descendants returns: breadth first, a query per generation and no *)
(* more of them than units, it comes to the subtree, on any parent links.  *)
LEMMA SubtreeFound ==
    ASSUME NEW U, IsFiniteSet(U), NEW par \in [U -> U \cup {NULL}], NEW root \in U
    PROVE  _descendants(par, root) = Subtree(par, root)
<1> DEFINE N == Cardinality(U)
           search == CHOOSE g : IsSearch(par, root, N, g)
<1>1. N \in Nat /\ DOMAIN par = U
  BY FS_CardinalityType
<1>2. _descendants(par, root) = search[N].visited
  BY <1>1 DEF _descendants, IsSearch, Query
<1>3. IsSearch(par, root, N, search)
  <2> HIDE DEF N
  <2> QED
    BY <1>1, SearchExists
<1> HIDE DEF search
<1>4. /\ search[0] = [visited |-> {root}, frontier |-> {root}]
      /\ \A n \in 0..N : n < N => search[n + 1] = Query(par, search[n])
  <2> HIDE DEF N
  <2>1. \A n \in 0..N : search[n] = IF n = 0 THEN [visited |-> {root}, frontier |-> {root}]
                                    ELSE Query(par, search[n - 1])
    BY <1>1, <1>3 DEF IsSearch
  <2>2. ASSUME NEW n \in 0..N, n < N PROVE search[n + 1] = Query(par, search[n])
    <3>1. n + 1 \in 0..N /\ n + 1 # 0 /\ (n + 1) - 1 = n
      BY <1>1, <2>2
    <3> QED
      BY <2>1, <3>1
  <2>3. 0 \in 0..N
    BY <1>1
  <2> QED
    BY <2>1, <2>2, <2>3
<1> DEFINE T == {n \in 0..N : Searched(par, root, n, search[n])}
<1>5. 0 \in T
  <2>1. Cardinality({root}) = 1
    BY FS_Singleton
  <2>2. root \in Subtree(par, root)
    BY DEF Subtree
  <2>3. search[0].visited = {root} /\ search[0].frontier = {root} /\ 0 \in 0..N
    BY <1>1, <1>4
  <2>4. Searched(par, root, 0, search[0])
    BY <2>1, <2>2, <2>3 DEF Searched
  <2> QED
    BY <2>3, <2>4
<1>6. ASSUME NEW n \in 0..N, n < N, n \in T PROVE n + 1 \in T
  <2>1. Searched(par, root, n + 1, Query(par, search[n]))
    <3> HIDE DEF N
    <3> QED
      BY <1>1, <1>6, QueryKeeps
  <2> QED
    BY <1>1, <1>4, <1>6, <2>1
<1>7. Searched(par, root, N, search[N])
  <2>1. 0..N \subseteq T
    <3> HIDE DEF T, N
    <3> QED
      BY <1>1, <1>5, <1>6, UpTo
  <2> QED
    BY <1>1, <2>1
<1>8. search[N].visited \subseteq U
  BY <1>7 DEF Searched, Subtree
<1>9. search[N].frontier = {}
  <2>1. Cardinality(search[N].visited) <= N
    BY <1>8, FS_Subset
  <2>2. Cardinality(search[N].visited) \in Nat
    BY <1>8, FS_Subset, FS_CardinalityType
  <2> QED
    BY <1>1, <1>7, <2>1, <2>2 DEF Searched
<1>10. Subtree(par, root) \subseteq search[N].visited
  <2>1. \A v \in U : par[v] \in search[N].visited => v \in search[N].visited
    BY <1>1, <1>7, <1>9 DEF Searched
  <2>2. root \in search[N].visited
    BY <1>7 DEF Searched
  <2> HIDE DEF N
  <2> QED
    BY <1>1, <1>8, <2>1, <2>2 DEF Subtree
<1> QED
  BY <1>2, <1>7, <1>10 DEF Searched
-----------------------------------------------------------------------------
(* The units above are a cycle: one of them is above its own parent. *)
Cyclic(u) == \E v \in Above(u) : parent[v] # NULL /\ v \in Above(parent[v])

WalkTypeOK == parent \in Links /\ staffed \in SUBSET OrgUnits /\ walk \in Walk

(* What a walk's histories say of the table of users now. *)
HistoriesFollow == staffed \subseteq walk.manned /\ OrgUnits \ staffed \subseteq walk.vacant

(* Round its loop, resolve_manager has met no staffed unit, and what is    *)
(* above its start is where it has been and what is above where it is;     *)
(* where it has been is closed under parent links but for that one link.   *)
ManagerOnTheWay ==
    LET w == walk IN
    w.kind = "manager" =>
      /\ w.steps = Cardinality(w.visited)
      /\ w.pc = "walk" =>
           /\ w.found = NULL
           /\ w.visited \subseteq w.vacant
           /\ Above(w.start) = w.visited \cup Way(parent, w.at)
           /\ \A v \in w.visited : parent[v] # NULL => parent[v] \in w.visited \cup {w.at}

(* Round its loop, _walk_uplines has left behind no reviewers; its rounds  *)
(* are the units it has left behind, unless they are a cycle.              *)
UplinesOnTheWay ==
    LET w == walk IN
    w.kind = "uplines" =>
      /\ w.at \in Above(w.start)
      /\ Cyclic(w.start) \/ w.steps = Cardinality(Above(w.start) \ Above(w.at))
      /\ w.pc = "walk" =>
           /\ w.found = NULL
           /\ Above(w.start) \ {w.start} \subseteq (OrgUnits \ w.loaded) \cup Way(parent, parent[w.at])

WalkInv == WalkTypeOK /\ HistoriesFollow /\ ManagerOnTheWay /\ UplinesOnTheWay /\ NearestIsTold
-----------------------------------------------------------------------------
LEMMA WalkInvStarts == WalkInit => WalkInv
<1> SUFFICES ASSUME WalkInit PROVE WalkInv
  OBVIOUS
<1>1. PICK kind \in {"manager", "uplines"}, u \in OrgUnits : walk = Begin(kind, u)
  BY DEF WalkInit
<1>2. parent \in Links /\ staffed \in SUBSET OrgUnits
  BY DEF WalkInit, Links
<1>3. /\ walk \in Walk /\ walk.kind = kind /\ walk.pc = "walk" /\ walk.start = u /\ walk.at = u
      /\ walk.visited = {} /\ walk.loaded = staffed /\ walk.found = NULL /\ walk.steps = 0
      /\ walk.manned = staffed /\ walk.vacant = OrgUnits \ staffed
  BY <1>1, <1>2 DEF Begin, Walk
<1>4. Cardinality({}) = 0
  BY FS_EmptySet
<1>5. ManagerOnTheWay
  BY <1>3, <1>4, WalkAssumption DEF ManagerOnTheWay, Way, Above
<1>6. UplinesOnTheWay
  <2>1. Above(u) = {u} \cup Way(parent, parent[u])
    BY <1>2, AboveStep DEF Above
  <2>2. Above(u) \ Above(u) = {} /\ u \in Above(u)
    BY <1>2, ItselfAbove DEF Above
  <2> QED
    BY <1>3, <1>4, <2>1, <2>2 DEF UplinesOnTheWay
<1> QED
  BY <1>2, <1>3, <1>5, <1>6 DEF WalkInv, WalkTypeOK, HistoriesFollow, NearestIsTold

\* Users come and go: the walk stays where it is, its histories grow.
LEMMA StaffKeeps == WalkInv /\ Staff => WalkInv'
<1> SUFFICES ASSUME WalkInv, Staff PROVE WalkInv'
  OBVIOUS
<1>1. PICK u \in OrgUnits :
        /\ staffed' = (staffed \ {u}) \cup ({u} \ staffed)
        /\ walk' = [walk EXCEPT !.manned = @ \cup staffed', !.vacant = @ \cup (OrgUnits \ staffed')]
  BY DEF Staff
<1>2. parent' = parent /\ walk.pc = "walk" /\ parent \in Links /\ walk \in Walk
      /\ staffed' \in SUBSET OrgUnits
  BY <1>1 DEF Staff, WalkInv, WalkTypeOK
<1>3. /\ walk' \in Walk /\ walk'.kind = walk.kind /\ walk'.pc = walk.pc /\ walk'.start = walk.start
      /\ walk'.at = walk.at /\ walk'.visited = walk.visited /\ walk'.loaded = walk.loaded
      /\ walk'.found = walk.found /\ walk'.steps = walk.steps
      /\ walk'.manned = walk.manned \cup staffed'
      /\ walk'.vacant = walk.vacant \cup (OrgUnits \ staffed')
  BY <1>1, <1>2 DEF Walk
<1>4. \A v : Above(v)' = Above(v)
  BY <1>2 DEF Above
<1>5. ManagerOnTheWay'
  BY <1>2, <1>3, <1>4 DEF WalkInv, ManagerOnTheWay
<1>6. UplinesOnTheWay'
  BY <1>2, <1>3, <1>4 DEF WalkInv, UplinesOnTheWay, Cyclic, Above
<1> QED
  BY <1>2, <1>3, <1>5, <1>6 DEF WalkInv, WalkTypeOK, HistoriesFollow, NearestIsTold

\* Where resolve_manager has been before, nothing more is above.
LEMMA BeenThere ==
    ASSUME WalkInv, walk.kind = "manager", walk.pc = "walk", walk.at = NULL \/ walk.at \in walk.visited
    PROVE  Above(walk.start) \subseteq walk.visited
<1> DEFINE w == walk
<1>1. /\ w \in Walk /\ parent \in Links
      /\ Above(w.start) = w.visited \cup Way(parent, w.at)
      /\ \A v \in w.visited : parent[v] # NULL => parent[v] \in w.visited \cup {w.at}
  BY DEF WalkInv, WalkTypeOK, ManagerOnTheWay
<1>2. CASE w.at = NULL
  BY <1>1, <1>2 DEF Way
<1>3. CASE w.at \in w.visited
  <2>1. w.visited \in SUBSET OrgUnits /\ w.at # NULL
    BY <1>1, <1>3, WalkAssumption DEF Walk
  <2>2. \A v \in w.visited : parent[v] # NULL => parent[v] \in w.visited
    BY <1>1, <1>3
  <2>3. Ancestors(parent, w.at) \subseteq w.visited
    <3> HIDE DEF w
    <3> QED
      BY <1>1, <1>3, <2>1, <2>2, AboveLeast
  <2> QED
    BY <1>1, <2>1, <2>3 DEF Way
<1> QED
  BY <1>2, <1>3

LEMMA ManagerKeeps == WalkInv /\ resolve_manager => WalkInv'
<1> SUFFICES ASSUME WalkInv, resolve_manager PROVE WalkInv'
  OBVIOUS
<1> DEFINE w == walk
<1>1. /\ w.kind = "manager" /\ w.pc = "walk" /\ parent' = parent /\ staffed' = staffed
      /\ w \in Walk /\ parent \in Links /\ staffed \in SUBSET OrgUnits /\ w.start \in OrgUnits
  BY DEF resolve_manager, WalkInv, WalkTypeOK, Walk
<1>2. /\ w.steps = Cardinality(w.visited) /\ w.found = NULL
      /\ w.visited \subseteq w.vacant /\ staffed \subseteq w.manned /\ OrgUnits \ staffed \subseteq w.vacant
      /\ Above(w.start) = w.visited \cup Way(parent, w.at)
      /\ \A v \in w.visited : parent[v] # NULL => parent[v] \in w.visited \cup {w.at}
  BY <1>1 DEF WalkInv, ManagerOnTheWay, HistoriesFollow
<1>3. \A v : Above(v)' = Above(v)
  BY <1>1 DEF Above
<1>4. CASE w.at = NULL \/ w.at \in w.visited
  <2>1. walk' = Done(w)
    BY <1>4 DEF resolve_manager
  <2>2. /\ walk' \in Walk /\ walk'.kind = "manager" /\ walk'.pc = "done" /\ walk'.start = w.start
        /\ walk'.visited = w.visited /\ walk'.found = NULL /\ walk'.steps = w.steps
        /\ walk'.manned = w.manned /\ walk'.vacant = w.vacant
    BY <1>1, <1>2, <2>1 DEF Done, Walk
  <2>3. Above(w.start) \subseteq w.vacant
    BY <1>1, <1>2, <1>4, BeenThere
  <2> QED
    BY <1>1, <1>2, <1>3, <2>2, <2>3
    DEF WalkInv, WalkTypeOK, HistoriesFollow, ManagerOnTheWay, UplinesOnTheWay, NearestIsTold
<1>5. CASE w.at # NULL /\ w.at \notin w.visited /\ w.at \in staffed
  <2>1. walk' = Done([w EXCEPT !.found = w.at])
    BY <1>5 DEF resolve_manager
  <2>2. /\ walk' \in Walk /\ walk'.kind = "manager" /\ walk'.pc = "done" /\ walk'.start = w.start
        /\ walk'.visited = w.visited /\ walk'.found = w.at /\ walk'.steps = w.steps
        /\ walk'.manned = w.manned /\ walk'.vacant = w.vacant
    BY <1>1, <1>2, <2>1 DEF Done, Walk
  <2>3. w.at \in OrgUnits /\ Way(parent, w.at) = Above(w.at) /\ w.at \in Above(w.at)
    BY <1>1, <1>5, ItselfAbove DEF Way, Above, Walk
  <2>4. Above(w.start) \ Above(w.at) \subseteq w.vacant /\ w.at \in Above(w.start) /\ w.at \in w.manned
    BY <1>2, <1>5, <2>3
  <2> QED
    BY <1>1, <1>2, <1>3, <1>5, <2>2, <2>4
    DEF WalkInv, WalkTypeOK, HistoriesFollow, ManagerOnTheWay, UplinesOnTheWay, NearestIsTold
<1>6. CASE w.at # NULL /\ w.at \notin w.visited /\ w.at \notin staffed
  <2>1. walk' = [w EXCEPT !.at = parent[w.at], !.visited = w.visited \cup {w.at}, !.steps = w.steps + 1]
    BY <1>6 DEF resolve_manager
  <2>2. w.at \in OrgUnits /\ parent[w.at] \in OrgUnits \cup {NULL}
    BY <1>1, <1>6 DEF Walk, Links
  <2>3. /\ walk' \in Walk /\ walk'.kind = "manager" /\ walk'.pc = "walk" /\ walk'.start = w.start
        /\ walk'.at = parent[w.at] /\ walk'.visited = w.visited \cup {w.at} /\ walk'.found = NULL
        /\ walk'.steps = w.steps + 1 /\ walk'.manned = w.manned /\ walk'.vacant = w.vacant
    <3>1. w.visited \cup {w.at} \in SUBSET OrgUnits /\ w.steps + 1 \in Nat
      BY <1>1, <2>2 DEF Walk
    <3> QED
      BY <1>1, <1>2, <2>1, <2>2, <3>1 DEF Walk
  <2>4. Cardinality(w.visited \cup {w.at}) = w.steps + 1
    <3>1. IsFiniteSet(w.visited)
      BY <1>1, WalkAssumption, FS_Subset DEF Walk
    <3> QED
      BY <1>2, <1>6, <3>1, FS_AddElement
  <2>5. Way(parent, w.at) = {w.at} \cup Way(parent, parent[w.at])
    BY <1>1, <1>6, <2>2, AboveStep DEF Way
  <2>6. Above(w.start) = (w.visited \cup {w.at}) \cup Way(parent, parent[w.at])
    BY <1>2, <2>5
  <2>7. w.at \in w.vacant
    BY <1>2, <1>6, <2>2
  <2>8. ManagerOnTheWay'
    BY <1>1, <1>2, <1>3, <2>3, <2>4, <2>6, <2>7 DEF ManagerOnTheWay
  <2> QED
    BY <1>1, <1>2, <2>3, <2>8 DEF WalkInv, WalkTypeOK, HistoriesFollow, UplinesOnTheWay, NearestIsTold
<1> QED
  BY <1>4, <1>5, <1>6

LEMMA UplinesKeep == WalkInv /\ _walk_uplines => WalkInv'
<1> SUFFICES ASSUME WalkInv, _walk_uplines PROVE WalkInv'
  OBVIOUS
<1> DEFINE w == walk
           up == parent[w.at]
<1>1. /\ w.kind = "uplines" /\ w.pc = "walk" /\ parent' = parent /\ staffed' = staffed
      /\ w \in Walk /\ parent \in Links /\ staffed \in SUBSET OrgUnits /\ w.start \in OrgUnits
  BY DEF _walk_uplines, WalkInv, WalkTypeOK, Walk
<1>2. /\ w.at \in Above(w.start) /\ w.found = NULL
      /\ Cyclic(w.start) \/ w.steps = Cardinality(Above(w.start) \ Above(w.at))
      /\ Above(w.start) \ {w.start} \subseteq (OrgUnits \ w.loaded) \cup Way(parent, up)
      /\ staffed \subseteq w.manned /\ OrgUnits \ staffed \subseteq w.vacant
  BY <1>1 DEF WalkInv, UplinesOnTheWay, HistoriesFollow
<1>3. w.at \in OrgUnits /\ up \in OrgUnits \cup {NULL} /\ (up # NULL => up \in Above(w.start))
  BY <1>1, <1>2, ItselfAbove, AboveClosed DEF Above, Links
<1>4. \A v : Above(v)' = Above(v)
  BY <1>1 DEF Above
<1>5. \A v : Cyclic(v)' <=> Cyclic(v)
  BY <1>1 DEF Cyclic, Above
<1>6. CASE up = NULL
  <2>1. walk' = Done(w)
    BY <1>6 DEF _walk_uplines
  <2>2. /\ walk' \in Walk /\ walk'.kind = "uplines" /\ walk'.pc = "done" /\ walk'.start = w.start
        /\ walk'.at = w.at /\ walk'.loaded = w.loaded /\ walk'.found = NULL /\ walk'.steps = w.steps
        /\ walk'.manned = w.manned /\ walk'.vacant = w.vacant
    BY <1>1, <1>2, <2>1 DEF Done, Walk
  <2>3. Above(w.start) \ {w.start} \subseteq OrgUnits \ w.loaded
    BY <1>2, <1>6 DEF Way
  <2> QED
    BY <1>1, <1>2, <1>4, <1>5, <2>2, <2>3
    DEF WalkInv, WalkTypeOK, HistoriesFollow, ManagerOnTheWay, UplinesOnTheWay, NearestIsTold
<1>7. CASE up # NULL /\ up \in w.loaded
  <2>1. walk' = Done([w EXCEPT !.found = up])
    BY <1>7 DEF _walk_uplines
  <2>2. /\ walk' \in Walk /\ walk'.kind = "uplines" /\ walk'.pc = "done" /\ walk'.start = w.start
        /\ walk'.at = w.at /\ walk'.loaded = w.loaded /\ walk'.found = up /\ walk'.steps = w.steps
        /\ walk'.manned = w.manned /\ walk'.vacant = w.vacant
    BY <1>1, <1>2, <1>3, <2>1 DEF Done, Walk
  <2>3. (Above(w.start) \ {w.start}) \ Above(up) \subseteq OrgUnits \ w.loaded
    BY <1>2, <1>7 DEF Way, Above
  <2>4. NearestIsTold'
    BY <1>3, <1>4, <1>7, <2>2, <2>3 DEF NearestIsTold
  <2> QED
    BY <1>1, <1>2, <1>4, <1>5, <2>2, <2>4
    DEF WalkInv, WalkTypeOK, HistoriesFollow, ManagerOnTheWay, UplinesOnTheWay
<1>8. CASE up # NULL /\ up \notin w.loaded
  <2>1. walk' = [w EXCEPT !.at = up, !.steps = w.steps + 1]
    BY <1>8 DEF _walk_uplines
  <2>2. /\ walk' \in Walk /\ walk'.kind = "uplines" /\ walk'.pc = "walk" /\ walk'.start = w.start
        /\ walk'.at = up /\ walk'.loaded = w.loaded /\ walk'.found = NULL /\ walk'.steps = w.steps + 1
        /\ walk'.manned = w.manned /\ walk'.vacant = w.vacant
    <3>1. up \in OrgUnits /\ w.steps + 1 \in Nat
      BY <1>1, <1>3, <1>8 DEF Walk
    <3> HIDE DEF up
    <3> QED
      BY <1>1, <1>2, <2>1, <3>1 DEF Walk
  <2>3. Way(parent, up) = {up} \cup Way(parent, parent[up])
    BY <1>1, <1>3, <1>8, AboveStep DEF Way
  <2>4. Above(w.start) \ {w.start} \subseteq (OrgUnits \ w.loaded) \cup Way(parent, parent[up])
    BY <1>2, <1>3, <1>8, <2>3
  <2>5. Cyclic(w.start) \/ w.steps + 1 = Cardinality(Above(w.start) \ Above(up))
    <3> SUFFICES ASSUME ~Cyclic(w.start)
                 PROVE  w.steps + 1 = Cardinality(Above(w.start) \ Above(up))
      OBVIOUS
    <3>1. w.at \notin Above(up)
      BY <1>2, <1>8 DEF Cyclic
    <3>2. Above(w.at) = {w.at} \cup Above(up)
      BY <1>1, <1>3, <1>8, AboveStep DEF Above, Way
    <3>3. Above(w.start) \ Above(up) = (Above(w.start) \ Above(w.at)) \cup {w.at}
      BY <1>2, <3>1, <3>2
    <3>4. IsFiniteSet(Above(w.start) \ Above(w.at))
      BY <1>1, WalkAssumption, ItselfAbove, FS_Subset DEF Above
    <3>5. w.at \notin Above(w.start) \ Above(w.at)
      BY <3>2
    <3> QED
      BY <1>2, <3>3, <3>4, <3>5, FS_AddElement
  <2>6. UplinesOnTheWay'
    BY <1>1, <1>3, <1>4, <1>5, <1>8, <2>2, <2>4, <2>5 DEF UplinesOnTheWay
  <2> QED
    BY <1>1, <1>2, <2>2, <2>6 DEF WalkInv, WalkTypeOK, HistoriesFollow, ManagerOnTheWay, NearestIsTold
<1> QED
  BY <1>6, <1>7, <1>8

LEMMA WalkInvHolds == WalkSpec => []WalkInv
<1>1. WalkInv /\ [WalkNext]_walkvars => WalkInv'
  <2> SUFFICES ASSUME WalkInv, [WalkNext]_walkvars PROVE WalkInv'
    OBVIOUS
  <2>1. CASE UNCHANGED walkvars
    BY <2>1 DEF walkvars, WalkInv, WalkTypeOK, HistoriesFollow, ManagerOnTheWay, UplinesOnTheWay,
                NearestIsTold, Cyclic, Above
  <2> QED
    BY <2>1, ManagerKeeps, UplinesKeep, StaffKeeps DEF WalkNext
<1> QED
  BY <1>1, WalkInvStarts, PTL DEF WalkSpec
-----------------------------------------------------------------------------
(* NearestIsTold on every table of units and every change of its users:    *)
(* resolve_manager tells the nearest staffed unit it could see, a reminder *)
(* the nearest reviewers loaded, and nobody only if there was nobody.      *)
THEOREM NearestUnitIsTold == WalkSpec => []NearestIsTold
<1>1. WalkInv => NearestIsTold
  BY DEF WalkInv
<1> QED
  BY <1>1, WalkInvHolds, PTL

(* WalksEnd: resolve_manager goes round its loop no more often than there  *)
(* are units whatever the links are, _walk_uplines wherever the units      *)
(* above the start are not a cycle.                                        *)
THEOREM WalksAreBounded == WalkSpec => []WalksEnd
<1>1. WalkInv => WalksEnd
  <2>0. Cardinality(OrgUnits) \in Nat
    BY WalkAssumption, FS_CardinalityType
  <2> SUFFICES ASSUME WalkInv, walk.kind = "manager" \/ ~Cyclic(walk.start)
               PROVE  walk.steps <= Cardinality(OrgUnits)
    BY <2>0 DEF WalksEnd, Cyclic, WalkInv, WalkTypeOK, Walk
  <2>1. walk \in Walk /\ parent \in Links
    BY DEF WalkInv, WalkTypeOK
  <2>2. PICK S \in SUBSET OrgUnits : walk.steps = Cardinality(S)
    BY <2>1, ItselfAbove DEF WalkInv, ManagerOnTheWay, UplinesOnTheWay, Walk, Above
  <2> QED
    BY <2>2, WalkAssumption, FS_Subset
<1> QED
  BY <1>1, WalkInvHolds, PTL

(* ScopeIsSubtree on every org tree: an UplineReviewer sees his own unit   *)
(* and the units below it, all of them and no others.                      *)
THEOREM ScopeIsTheSubtree == WalkSpec => []ScopeIsSubtree
<1>1. WalkInv => ScopeIsSubtree
  <2> SUFFICES ASSUME parent \in Links, NEW unit \in OrgUnits
               PROVE  scoped_org_units({"UplineReviewer"}, unit, parent, {}) = Subtree(parent, unit)
    BY DEF WalkInv, WalkTypeOK, ScopeIsSubtree
  <2>1. scoped_org_units({"UplineReviewer"}, unit, parent, {}) = _descendants(parent, unit)
    BY WalkAssumption DEF scoped_org_units
  <2> QED
    BY <2>1, WalkAssumption, SubtreeFound DEF Links
<1> QED
  BY <1>1, WalkInvHolds, PTL
-----------------------------------------------------------------------------
(* Where a request is, and what it is. *)
Placed(q) ==
    /\ q.pc = "idle" => q = Idle(q.kind)
    /\ q.pc = "count" => q.kind = "dashboard" /\ q.step = 1
    /\ q.pc = "audit" => q.kind \in {"actuals", "account"}
    /\ q.pc = "run" =>
         /\ q.kind = "report" => q.step \in 1..6
         /\ q.kind = "dashboard" => q.step \in 1..4
         /\ q.kind = "actuals" => q.step \in 1..3
    /\ q.kind = "report" => q.pc \in {"idle", "run", "done"} /\ (q.pc = "done" => q.step = 7)
    /\ q.committed => q.kind = "actuals" /\ q.pc \in {"audit", "done", "failed"}

(* No version is read that is not there. *)
VersionsExist(q) ==
    /\ \A u \in Units : q.budget[u] <= Len(uploads[u])
    /\ q.personnel <= Len(costs["personnel"]) /\ q.shared <= Len(costs["shared"])

(* The account codes of the uploads are read after the uploads. *)
CodesKnown(q) ==
    q.kind = "report" /\ q.step > 5 => \A k \in BudgetMap(q) : k[2] \in q.accounts

(* The timestamps are read last: each is the time of a version no lower    *)
(* than those read before.                                                 *)
CostStamped(source, version, stamp) ==
    version # 0 => \E n \in DOMAIN costs[source] : version <= n /\ stamp = costs[source][n].at

BudgetStamped(budget, stamp) ==
    (\E v \in Units : budget[v] # 0) =>
      \E u \in Units : \E n \in DOMAIN uploads[u] :
        stamp = uploads[u][n].at /\ \A v \in Units : budget[v] <= n

Stamped(q) ==
    q.kind = "report" /\ q.step > 6 =>
      /\ BudgetStamped(q.budget, q.stamps.budget)
      /\ CostStamped("personnel", q.personnel, q.stamps.personnel)
      /\ CostStamped("shared", q.shared, q.stamps.shared)

(* Rows of actuals that stand together: of imports that have committed,    *)
(* each with its whole file, and none that an importer of another row had  *)
(* seen committed when it deleted.                                         *)
Whole(table) ==
    \A a \in table :
      /\ req[a.by].committed
      /\ {c.key : c \in {c \in table : c.by = a.by}} = req[a.by].sheet
      /\ \A b \in table : a.by \notin req[b.by].before

(* Between its DELETE and its commit an import will remove whatever is     *)
(* still there of what had committed before.                               *)
Removes(q) ==
    q.kind = "actuals" /\ q.pc = "run" /\ q.step = 3
    => \A a \in actuals : a.by \in q.before => a \in q.actuals

(* What a dashboard shows of the units that had submitted. *)
Shows(q) ==
    q.kind = "dashboard" =>
      /\ q.had \subseteq Submitted
      /\ q.unsubmitted \cap q.had = {}
      /\ q.pc = "done" \/ q.step > 2 => \A u \in q.had : q.budget[u] # 0

Sound(q) ==
    /\ Placed(q)
    /\ VersionsExist(q)
    /\ CodesKnown(q)
    /\ Stamped(q)
    /\ Whole(q.actuals)
    /\ q.before \subseteq Committed
    /\ Removes(q)
    /\ Shows(q)

(* Who submits is a filing unit, and enters account codes there are. *)
LinesKnown ==
    \A u \in Units :
      /\ uploads[u] # <<>> => u \in Filing
      /\ \A n \in 1..Len(uploads[u]) : uploads[u][n].lines \subseteq accounts

(* The versions of a series are uploaded and committed one after another.  *)
InOrder(versions) ==
    \A n \in 1..Len(versions) :
      /\ versions[n].at <= versions[n].done
      /\ \A m \in 1..Len(versions) : m < n => versions[m].done < versions[n].at

Ordered == (\A u \in Units : InOrder(uploads[u])) /\ \A source \in Sources : InOrder(costs[source])

IInv == TypeOK /\ LinesKnown /\ Ordered /\ Whole(actuals) /\ \A r \in Requests : Sound(req[r])
-----------------------------------------------------------------------------
\* A finite set of naturals that is not empty has a greatest member: the
\* one with the fewest above it.
LEMMA GreatestOfFinite ==
    ASSUME NEW S \in SUBSET Nat, IsFiniteSet(S), S # {}
    PROVE  \E n \in S : \A m \in S : m <= n
<1> DEFINE Greater(n) == {m \in S : n < m}
           T == {Cardinality(Greater(n)) : n \in S}
<1>1. \A n \in S : IsFiniteSet(Greater(n)) /\ Cardinality(Greater(n)) \in Nat
  <2> TAKE n \in S
  <2>1. Greater(n) \in SUBSET S
    OBVIOUS
  <2> HIDE DEF Greater
  <2> QED
    BY <2>1, FS_Subset, FS_CardinalityType
<1>2. PICK t \in T : \A u \in T : t <= u
  <2>1. T \in SUBSET Nat /\ T # {}
    BY <1>1
  <2> HIDE DEF T
  <2> QED
    BY <2>1, SmallestNat
<1>3. PICK n \in S : t = Cardinality(Greater(n))
  OBVIOUS
<1>4. ASSUME NEW m \in S, n < m PROVE FALSE
  <2>1. Greater(m) \in SUBSET Greater(n) /\ m \in Greater(n) /\ m \notin Greater(m)
    <3>1. \A k \in Greater(m) : k \in Greater(n)
      BY <1>4
    <3>2. m \in Greater(n)
      BY <1>4
    <3>3. m \notin Greater(m)
      OBVIOUS
    <3> QED
      BY <3>1, <3>2, <3>3
  <2>2. Cardinality(Greater(n)) <= Cardinality(Greater(m))
    BY <1>2, <1>3
  <2> HIDE DEF Greater
  <2>3. Cardinality(Greater(m)) <= Cardinality(Greater(n)) /\ Cardinality(Greater(m)) # Cardinality(Greater(n))
    BY <1>1, <2>1, FS_Subset
  <2> QED
    BY <1>1, <2>2, <2>3
<1> QED
  BY <1>4

\* Where something is uploaded, some unit has as many versions as any other.
LEMMA LatestExists ==
    ASSUME TypeOK, Submitted # {}
    PROVE  LatestUnits # {}
<1> DEFINE S == {Len(uploads[u]) : u \in Units}
<1>1. S \in SUBSET Nat /\ S # {}
  <2>1. \A u \in Units : Len(uploads[u]) \in Nat
    BY DEF TypeOK
  <2>2. PICK u \in Units : uploads[u] # <<>>
    BY DEF Submitted
  <2>3. Len(uploads[u]) \in S
    OBVIOUS
  <2> QED
    BY <2>1, <2>3
<1>2. IsFiniteSet(S)
  <2>1. [u \in Units |-> Len(uploads[u])] \in Surjection(Units, S)
    BY DEF Surjection
  <2> HIDE DEF S
  <2> QED
    BY <2>1, ReportingAssumption, FS_Surjection
<1>3. PICK n \in S : \A m \in S : m <= n
  <2> HIDE DEF S
  <2> QED
    BY <1>1, <1>2, GreatestOfFinite
<1>4. PICK u \in Units : n = Len(uploads[u])
  BY <1>3
<1>5. \A v \in Units : Len(uploads[v]) <= Len(uploads[u])
  BY <1>3, <1>4
<1>6. PICK w \in Units : uploads[w] # <<>>
  BY DEF Submitted
<1>7. Len(uploads[w]) # 0 /\ Len(uploads[w]) \in Nat /\ Len(uploads[u]) \in Nat
  BY <1>6 DEF TypeOK
<1>8. Len(uploads[u]) # 0
  BY <1>5, <1>7
<1>9. uploads[u] # <<>>
  BY <1>8
<1> QED
  BY <1>5, <1>9 DEF LatestUnits, Submitted

\* The time of the budgets is that of a version no lower than any.
LEMMA LatestBudget ==
    ASSUME TypeOK, NEW time \in _latest_budget_ts
    PROVE  /\ time \in Time
           /\ (\E v \in Units : Len(uploads[v]) # 0) =>
                \E u \in Units : \E n \in DOMAIN uploads[u] :
                  time = uploads[u][n].at /\ \A v \in Units : Len(uploads[v]) <= n
<1>1. CASE Submitted = {}
  <2>1. \A v \in Units : uploads[v] = <<>>
    BY <1>1 DEF Submitted
  <2>2. \A v \in Units : Len(uploads[v]) = 0
    BY <2>1
  <2> QED
    BY <1>1, <2>2 DEF _latest_budget_ts, Time
<1>2. CASE Submitted # {}
  <2>1. PICK u \in LatestUnits : time = uploads[u][Len(uploads[u])].at
    BY <1>2 DEF _latest_budget_ts
  <2>2. /\ u \in Units /\ uploads[u] # <<>> /\ uploads[u] \in Seq(Version(SUBSET Accounts))
        /\ \A v \in Units : Len(uploads[v]) <= Len(uploads[u])
    BY DEF LatestUnits, Submitted, TypeOK
  <2>3. Len(uploads[u]) \in DOMAIN uploads[u]
    BY <2>2
  <2>4. uploads[u][Len(uploads[u])] \in Version(SUBSET Accounts)
    BY <2>2, <2>3
  <2> QED
    BY <2>1, <2>2, <2>3, <2>4 DEF Time, Version
<1> QED
  BY <1>1, <1>2

\* And that of the personnel or the shared costs is that of the last version.
LEMMA LatestCost ==
    ASSUME TypeOK, NEW source \in Sources
    PROVE  /\ _latest_cost_ts(source) \in Time
           /\ Len(costs[source]) # 0 =>
                /\ Len(costs[source]) \in DOMAIN costs[source]
                /\ _latest_cost_ts(source) = costs[source][Len(costs[source])].at
<1>1. costs[source] \in Seq(Version(SUBSET Keys))
  BY DEF TypeOK
<1>2. CASE costs[source] = <<>>
  BY <1>2 DEF _latest_cost_ts, Time
<1>3. CASE costs[source] # <<>>
  <2>1. Len(costs[source]) \in DOMAIN costs[source]
    BY <1>1, <1>3
  <2>2. costs[source][Len(costs[source])] \in Version(SUBSET Keys)
    BY <1>1, <2>1
  <2> QED
    BY <1>3, <2>1, <2>2 DEF _latest_cost_ts, Time, Version
<1> QED
  BY <1>2, <1>3

\* No scope has a unit that is none.
LEMMA ScopesTyped ==
    ASSUME NEW roles \in SUBSET ScopedRoles, NEW scope \in ScopesOf(roles)
    PROVE  scope \in SUBSET Units
<1>1. PICK role \in ScopedRoles, unit \in Units \cup {NULL} : scope = scoped_org_units({role}, unit, Parent, Top)
  BY DEF ScopesOf
<1>2. DOMAIN Parent = Units /\ Top \subseteq Units
  BY ReportingAssumption
<1>3. unit \in Units => _descendants(Parent, unit) \in SUBSET Units
  BY ReportingAssumption, SubtreeFound DEF Subtree
<1> QED
  BY <1>1, <1>2, <1>3, ReportingAssumption DEF scoped_org_units, ScopedRoles

LEMMA VersionsTyped == TypeOK => Versions \in [Units -> Nat] /\ \A u \in Units : Versions[u] = Len(uploads[u])
  BY DEF TypeOK, Versions

\* What a report takes from versions that exist.
LEMMA MapsTyped ==
    ASSUME TypeOK, NEW q \in Request, VersionsExist(q)
    PROVE  /\ BudgetMap(q) \subseteq Keys
           /\ CostMap(q, "personnel") \subseteq Keys /\ CostMap(q, "shared") \subseteq Keys
           /\ ActualMap(q) \subseteq Keys
           /\ \A k \in BudgetMap(q) : q.budget[k[1]] # 0
<1>1. \A u \in Units : q.budget[u] \in Nat
  BY DEF Request
<1>2. ASSUME NEW source \in Sources, NEW n \in Nat, n <= Len(costs[source]) PROVE Lines(costs[source], n) \subseteq Keys
  <2>1. costs[source] \in Seq(Version(SUBSET Keys))
    BY DEF TypeOK
  <2>2. CASE n # 0
    <3>1. n \in 1..Len(costs[source])
      BY <1>2, <2>1, <2>2
    <3>2. costs[source][n] \in Version(SUBSET Keys)
      BY <2>1, <3>1
    <3> QED
      BY <2>2, <3>2 DEF Lines, Version
  <2>3. CASE n = 0
    BY <2>3 DEF Lines
  <2> QED
    BY <2>2, <2>3
<1>3. Lines(costs["personnel"], q.personnel) \subseteq Keys /\ Lines(costs["shared"], q.shared) \subseteq Keys
  BY <1>2 DEF VersionsExist, Request, Sources
<1>4. ActualMap(q) \subseteq Keys
  BY DEF ActualMap, Request, Actual
<1>5. BudgetMap(q) \subseteq Keys /\ \A k \in BudgetMap(q) : q.budget[k[1]] # 0
  BY DEF BudgetMap, Lines
<1> QED
  BY <1>3, <1>4, <1>5 DEF CostMap
-----------------------------------------------------------------------------
\* What a table holds stands while no committed request changes.
LEMMA WholeStays ==
    ASSUME TypeOK, NEW table \in SUBSET Actual, Whole(table),
           \A s \in Requests :
             req[s].committed
             => req'[s].committed /\ req'[s].sheet = req[s].sheet /\ req'[s].before = req[s].before
    PROVE  Whole(table)'
<1>1. \A a \in table : a.by \in Requests
  BY DEF Actual
<1> QED
  BY <1>1 DEF Whole

\* A step of one request that changes no table but that of the account
\* codes, if the request is sound after it.
LEMMA RequestStep ==
    ASSUME IInv, NEW r \in Requests, NEW p \in Request,
           req' = [req EXCEPT ![r] = p], UNCHANGED <<outside, actuals>>,
           accounts \subseteq accounts', accounts' \subseteq Accounts,
           p.committed = req[r].committed,
           p.committed => p.sheet = req[r].sheet /\ p.before = req[r].before,
           Sound(p)
    PROVE  IInv'
<1>1. TypeOK'
  BY DEF IInv, TypeOK, outside
<1>2. req'[r] = p /\ \A s \in Requests \ {r} : req'[s] = req[s]
  BY DEF IInv, TypeOK
<1>3. uploads' = uploads /\ costs' = costs /\ actuals' = actuals
  BY DEF outside
<1>4. Committed' = Committed
  BY <1>2 DEF Committed
<1>5. ASSUME NEW table \in SUBSET Actual, Whole(table) PROVE Whole(table)'
  BY <1>2, <1>5, WholeStays DEF IInv
<1>6. ASSUME NEW q \in Request, Sound(q) PROVE Sound(q)'
  <2>1. Whole(q.actuals)'
    BY <1>5, <1>6 DEF Sound, Request
  <2>2. Placed(q)' /\ VersionsExist(q)' /\ CodesKnown(q)' /\ Stamped(q)' /\ Removes(q)' /\ Shows(q)'
    BY <1>3, <1>6 DEF Sound, Placed, VersionsExist, CodesKnown, BudgetMap, Stamped, BudgetStamped, CostStamped,
                      Removes, Shows, Submitted
  <2> QED
    BY <1>4, <1>6, <2>1, <2>2 DEF Sound
<1>7. ASSUME NEW s \in Requests PROVE Sound(req[s])'
  <2>1. PICK q \in Request : q = req'[s] /\ Sound(q)
    BY <1>1, <1>2 DEF IInv, TypeOK
  <2>2. Sound(q)'
    BY <1>6, <2>1
  <2> QED
    BY <2>1, <2>2
<1>8. LinesKnown' /\ Ordered'
  BY <1>3 DEF IInv, LinesKnown, Ordered
<1>9. Whole(actuals)'
  <2>1. PICK table \in SUBSET Actual : table = actuals
    BY DEF IInv, TypeOK
  <2>2. Whole(table)'
    BY <1>5, <2>1 DEF IInv
  <2> QED
    BY <1>3, <2>1, <2>2
<1> QED
  BY <1>1, <1>7, <1>8, <1>9 DEF IInv
-----------------------------------------------------------------------------
LEMMA RequestSound ==
    ASSUME IInv, NEW r \in Requests
    PROVE  req[r] \in Request /\ Sound(req[r]) /\ Placed(req[r])
BY DEF IInv, TypeOK, Sound

(* Before its first statement a request has read nothing. *)
Unread(q) ==
    /\ q.step = 1 /\ q.budget = NoVersions /\ q.personnel = 0 /\ q.shared = 0
    /\ q.actuals = {} /\ q.before = {} /\ q.unsubmitted = {} /\ ~q.committed

LEMMA IdleUnread ==
    ASSUME IInv, NEW r \in Requests, req[r].pc = "idle"
    PROVE  req[r] \in Request /\ Unread(req[r]) /\ req[r].had = {}
<1>1. req[r] \in Request /\ req[r] = Idle(req[r].kind)
  BY RequestSound DEF Placed
<1>2. \A kind : Unread(Idle(kind)) /\ Idle(kind).had = {}
  BY DEF Unread, Idle
<1> QED
  BY <1>1, <1>2

LEMMA FreshSound ==
    ASSUME IInv, NEW p \in Request, Placed(p), Unread(p), p.had \subseteq Submitted, p.pc # "done"
    PROVE  Sound(p)
<1>1. VersionsExist(p)
  <2>1. \A u \in Units : p.budget[u] = 0 /\ Len(uploads[u]) \in Nat
    BY DEF Unread, NoVersions, IInv, TypeOK
  <2>2. Len(costs["personnel"]) \in Nat /\ Len(costs["shared"]) \in Nat
    BY DEF IInv, TypeOK, Sources
  <2> QED
    BY <2>1, <2>2 DEF VersionsExist, Unread
<1> QED
  BY <1>1 DEF Sound, Unread, CodesKnown, Stamped, Whole, Removes, Shows

\* The first step of a request.
LEMMA StartStep ==
    ASSUME IInv, NEW r \in Requests, req[r].pc = "idle", NEW p \in Request,
           req' = [req EXCEPT ![r] = p], UNCHANGED <<outside, accounts, actuals>>,
           Unread(p), p.had \subseteq Submitted, p.kind = req[r].kind,
           \/ p.kind = "report" /\ p.pc = "run"
           \/ p.kind = "dashboard" /\ p.pc \in {"failed", "count", "run"}
           \/ p.kind \in {"actuals", "account"} /\ p.pc \in {"run", "failed"}
    PROVE  IInv'
<1>1. Placed(p) /\ p.pc # "done"
  BY DEF Placed, Unread
<1>2. Sound(p)
  BY <1>1, FreshSound
<1>3. p.committed = req[r].committed
  BY IdleUnread DEF Unread, Request
<1>4. ~p.committed
  BY DEF Unread
<1> QED
  BY <1>2, <1>3, <1>4, RequestStep DEF IInv, TypeOK

\* Of an import, or of the change of an account code, nothing else matters
\* than what it has read of the actuals.
LEMMA WriterSound ==
    ASSUME NEW q \in Request, Sound(q), NEW p \in Request, Placed(p),
           p.kind \in {"actuals", "account"}, p.budget = q.budget, p.personnel = q.personnel,
           p.shared = q.shared, p.actuals = q.actuals, p.before = q.before,
           ~ (p.pc = "run" /\ p.step = 3)
    PROVE  Sound(p)
BY DEF Sound, VersionsExist, CodesKnown, Stamped, Whole, Removes, Shows

LEMMA StartReportStep ==
    ASSUME IInv, NEW r \in Requests, StartReport(r)
    PROVE  IInv'
<1>1. PICK scope \in ScopesOf(ScopedRoles) : Put(r, [req[r] EXCEPT !.pc = "run", !.scope = scope])
  BY DEF StartReport
<1>2. scope \in SUBSET Units /\ req[r].kind = "report" /\ req[r].pc = "idle"
  BY ScopesTyped DEF StartReport
<1>3. req[r] \in Request /\ Unread(req[r]) /\ req[r].had = {}
  BY <1>2, IdleUnread
<1> DEFINE p == [req[r] EXCEPT !.pc = "run", !.scope = scope]
<1>4. p \in Request /\ p.kind = "report" /\ p.pc = "run" /\ p.had = {}
  BY <1>2, <1>3 DEF Request
<1>5. Unread(p)
  BY <1>3 DEF Unread, Request
<1>6. req' = [req EXCEPT ![r] = p] /\ UNCHANGED <<outside, accounts, actuals>>
  BY <1>1 DEF Put, StartReport
<1> HIDE DEF p
<1> QED
  BY <1>2, <1>4, <1>5, <1>6, StartStep

LEMMA StartDashboardStep ==
    ASSUME IInv, NEW r \in Requests, StartDashboard(r)
    PROVE  IInv'
<1>1. req[r].kind = "dashboard" /\ req[r].pc = "idle" /\ UNCHANGED <<outside, accounts, actuals>>
  <2>1. req[r] \in Request
    BY RequestSound
  <2>2. /\ [req[r] EXCEPT !.had = Submitted].kind = req[r].kind
        /\ [req[r] EXCEPT !.had = Submitted].pc = req[r].pc
    BY <2>1 DEF Request
  <2> QED
    BY <2>2 DEF StartDashboard
<1>2. req[r] \in Request /\ Unread(req[r])
  BY <1>1, IdleUnread
<1> DEFINE q == [req[r] EXCEPT !.had = Submitted]
<1>3. q \in Request /\ Unread(q) /\ q.kind = "dashboard" /\ q.had = Submitted
  BY <1>1, <1>2 DEF Request, Unread, Submitted
<1>4. PICK pc \in {"failed", "count", "run"} :
        \/ Put(r, [q EXCEPT !.pc = pc])
        \/ \E scope \in ScopesOf(ScopedRoles \ {"CompanyReviewer"}) :
             Put(r, [q EXCEPT !.scope = scope, !.pc = pc])
  BY DEF StartDashboard
<1> HIDE DEF q
<1>5. CASE Put(r, [q EXCEPT !.pc = pc])
  <2> DEFINE p == [q EXCEPT !.pc = pc]
  <2>1. p \in Request /\ Unread(p) /\ p.kind = "dashboard" /\ p.pc = pc /\ p.had = Submitted
    BY <1>3 DEF Request, Unread
  <2>2. req' = [req EXCEPT ![r] = p]
    BY <1>5 DEF Put
  <2> HIDE DEF p
  <2> QED
    BY <1>1, <2>1, <2>2, StartStep
<1>6. CASE \E scope \in ScopesOf(ScopedRoles \ {"CompanyReviewer"}) :
             Put(r, [q EXCEPT !.scope = scope, !.pc = pc])
  <2>1. PICK scope \in ScopesOf(ScopedRoles \ {"CompanyReviewer"}) :
               Put(r, [q EXCEPT !.scope = scope, !.pc = pc])
    BY <1>6
  <2>2. scope \in SUBSET Units
    BY ScopesTyped
  <2> DEFINE p == [q EXCEPT !.scope = scope, !.pc = pc]
  <2>3. p \in Request /\ Unread(p) /\ p.kind = "dashboard" /\ p.pc = pc /\ p.had = Submitted
    BY <1>3, <2>2 DEF Request, Unread
  <2>4. req' = [req EXCEPT ![r] = p]
    BY <2>1 DEF Put
  <2> HIDE DEF p
  <2> QED
    BY <1>1, <2>3, <2>4, StartStep
<1> QED
  BY <1>4, <1>5, <1>6

LEMMA StartAccountStep ==
    ASSUME IInv, NEW r \in Requests, ReadAccount(r)
    PROVE  IInv'
<1>1. PICK sheet \in SUBSET Keys :
        Put(r, [req[r] EXCEPT !.pc = "run", !.sheet = sheet, !.accounts = accounts])
  <2>1. \A a \in Accounts : {<<u, a>> : u \in Units} \in SUBSET Keys
    BY DEF Keys
  <2> QED
    BY <2>1 DEF ReadAccount
<1>2. req[r].kind = "account" /\ req[r].pc = "idle" /\ accounts \in SUBSET Accounts
  BY DEF ReadAccount, IInv, TypeOK
<1>3. req[r] \in Request /\ Unread(req[r]) /\ req[r].had = {}
  BY <1>2, IdleUnread
<1> DEFINE p == [req[r] EXCEPT !.pc = "run", !.sheet = sheet, !.accounts = accounts]
<1>4. p \in Request /\ p.kind = "account" /\ p.pc = "run" /\ p.had = {}
  BY <1>2, <1>3 DEF Request
<1>5. Unread(p)
  BY <1>3 DEF Unread, Request
<1>6. req' = [req EXCEPT ![r] = p] /\ UNCHANGED <<outside, accounts, actuals>>
  BY <1>1 DEF Put, ReadAccount
<1> HIDE DEF p
<1> QED
  BY <1>2, <1>4, <1>5, <1>6, StartStep

LEMMA StartImportStep ==
    ASSUME IInv, NEW r \in Requests, StartImport(r)
    PROVE  IInv'
<1>1. PICK sheet \in SUBSET Keys, pc \in {"run", "failed"} :
        Put(r, [req[r] EXCEPT !.sheet = sheet, !.pc = pc])
  BY DEF StartImport
<1>2. req[r].kind = "actuals" /\ req[r].pc = "idle"
  BY DEF StartImport
<1>3. req[r] \in Request /\ Unread(req[r]) /\ req[r].had = {}
  BY <1>2, IdleUnread
<1> DEFINE p == [req[r] EXCEPT !.sheet = sheet, !.pc = pc]
<1>4. p \in Request /\ p.kind = "actuals" /\ p.pc = pc /\ p.had = {}
  BY <1>2, <1>3 DEF Request
<1>5. Unread(p)
  BY <1>3 DEF Unread, Request
<1>6. req' = [req EXCEPT ![r] = p] /\ UNCHANGED <<outside, accounts, actuals>>
  BY <1>1 DEF Put, StartImport
<1> HIDE DEF p
<1> QED
  BY <1>2, <1>4, <1>5, <1>6, StartStep

-----------------------------------------------------------------------------
\* One statement of a report: the copy of a table as it is now, and the
\* place in the order; what it has read before stays.
LEMMA BuildStep ==
    ASSUME IInv, NEW r \in Requests, Build(r)
    PROVE  IInv'
<1> DEFINE q == req[r]
           pc == IF q.step = 6 THEN "done" ELSE "run"
           next == q.step + 1
<1>1. q \in Request /\ Sound(q) /\ q.kind = "report" /\ q.pc = "run" /\ q.step \in 1..6 /\ ~q.committed
  BY RequestSound DEF Build, Placed
<1>2. /\ UNCHANGED <<outside, accounts, actuals>> /\ accounts \in SUBSET Accounts /\ actuals \in SUBSET Actual
      /\ Whole(actuals)
  BY DEF Build, IInv, TypeOK
<1>3. \E read \in Fetched(q, BuildOrder[q.step]) : Put(r, [read EXCEPT !.step = next, !.pc = pc])
  BY DEF Build, BuildOrder
<1>4. Versions \in [Units -> Nat] /\ \A u \in Units : Versions[u] = Len(uploads[u])
  BY VersionsTyped DEF IInv
<1>5. Len(costs["personnel"]) \in Nat /\ Len(costs["shared"]) \in Nat
  BY DEF IInv, TypeOK, Sources
<1>6. VersionsExist(q) /\ Whole(q.actuals) /\ q.before \subseteq Committed
  BY <1>1 DEF Sound
<1>7. ASSUME NEW p \in Request, req' = [req EXCEPT ![r] = p], p.kind = "report", p.committed = q.committed,
             p.step = next, p.pc = pc, p.before = q.before, VersionsExist(p), Whole(p.actuals),
             CodesKnown(p), Stamped(p)
      PROVE  IInv'
  <2>1. Placed(p)
    BY <1>1, <1>7 DEF Placed
  <2>2. Sound(p)
    BY <1>6, <1>7, <2>1 DEF Sound, Removes, Shows
  <2> QED
    BY <1>1, <1>2, <1>7, <2>2, RequestStep
<1> pc \in {"run", "done"} /\ next \in Nat /\ \A n \in Nat : q.step = n => next = n + 1
  BY <1>1
<1> HIDE DEF q, pc, next
<1>8. CASE q.step = 1
  <2>10. BuildOrder[q.step] = "budget"
    BY <1>8 DEF BuildOrder
  <2>11. PICK read \in Fetched(q, "budget") : Put(r, [read EXCEPT !.step = next, !.pc = pc])
    BY <1>3, <2>10
  <2>12. read = [q EXCEPT !.budget = Versions]
    BY DEF Fetched
  <2> DEFINE p == [read EXCEPT !.step = next, !.pc = pc]
  <2>1. req' = [req EXCEPT ![r] = p]
    BY <2>11 DEF Put
  <2>2. /\ p \in Request /\ p.kind = "report" /\ p.committed = q.committed /\ p.step = next /\ p.pc = pc
        /\ p.before = q.before /\ p.budget = Versions /\ p.personnel = q.personnel /\ p.shared = q.shared
        /\ p.actuals = q.actuals
    BY <1>1, <1>4, <1>8, <2>12 DEF Request
  <2> HIDE DEF p
  <2>3. VersionsExist(p) /\ CodesKnown(p) /\ Stamped(p)
    BY <1>8, <1>4, <1>6, <2>2 DEF VersionsExist, CodesKnown, Stamped, IInv, TypeOK
  <2> QED
    BY <1>6, <1>7, <1>8, <2>1, <2>2, <2>3
<1>9. CASE q.step = 2
  <2>10. BuildOrder[q.step] = "personnel"
    BY <1>9 DEF BuildOrder
  <2>11. PICK read \in Fetched(q, "personnel") : Put(r, [read EXCEPT !.step = next, !.pc = pc])
    BY <1>3, <2>10
  <2>12. read = [q EXCEPT !.personnel = Len(costs["personnel"])]
    BY DEF Fetched
  <2> DEFINE p == [read EXCEPT !.step = next, !.pc = pc]
  <2>1. req' = [req EXCEPT ![r] = p]
    BY <2>11 DEF Put
  <2>2. /\ p \in Request /\ p.kind = "report" /\ p.committed = q.committed /\ p.step = next /\ p.pc = pc
        /\ p.before = q.before /\ p.budget = q.budget /\ p.personnel = Len(costs["personnel"])
        /\ p.shared = q.shared /\ p.actuals = q.actuals
    BY <1>1, <1>5, <1>9, <2>12 DEF Request
  <2> HIDE DEF p
  <2>3. VersionsExist(p) /\ CodesKnown(p) /\ Stamped(p)
    BY <1>9, <1>5, <1>6, <2>2 DEF VersionsExist, CodesKnown, Stamped
  <2> QED
    BY <1>6, <1>7, <1>9, <2>1, <2>2, <2>3
<1>10. CASE q.step = 3
  <2>10. BuildOrder[q.step] = "shared"
    BY <1>10 DEF BuildOrder
  <2>11. PICK read \in Fetched(q, "shared") : Put(r, [read EXCEPT !.step = next, !.pc = pc])
    BY <1>3, <2>10
  <2>12. read = [q EXCEPT !.shared = Len(costs["shared"])]
    BY DEF Fetched
  <2> DEFINE p == [read EXCEPT !.step = next, !.pc = pc]
  <2>1. req' = [req EXCEPT ![r] = p]
    BY <2>11 DEF Put
  <2>2. /\ p \in Request /\ p.kind = "report" /\ p.committed = q.committed /\ p.step = next /\ p.pc = pc
        /\ p.before = q.before /\ p.budget = q.budget /\ p.personnel = q.personnel
        /\ p.shared = Len(costs["shared"]) /\ p.actuals = q.actuals
    BY <1>1, <1>5, <1>10, <2>12 DEF Request
  <2> HIDE DEF p
  <2>3. VersionsExist(p) /\ CodesKnown(p) /\ Stamped(p)
    BY <1>10, <1>5, <1>6, <2>2 DEF VersionsExist, CodesKnown, Stamped
  <2> QED
    BY <1>6, <1>7, <1>10, <2>1, <2>2, <2>3
<1>11. CASE q.step = 4
  <2>10. BuildOrder[q.step] = "actuals"
    BY <1>11 DEF BuildOrder
  <2>11. PICK read \in Fetched(q, "actuals") : Put(r, [read EXCEPT !.step = next, !.pc = pc])
    BY <1>3, <2>10
  <2>12. read = [q EXCEPT !.actuals = actuals]
    BY DEF Fetched
  <2> DEFINE p == [read EXCEPT !.step = next, !.pc = pc]
  <2>1. req' = [req EXCEPT ![r] = p]
    BY <2>11 DEF Put
  <2>2. /\ p \in Request /\ p.kind = "report" /\ p.committed = q.committed /\ p.step = next /\ p.pc = pc
        /\ p.before = q.before /\ p.budget = q.budget /\ p.personnel = q.personnel
        /\ p.shared = q.shared /\ p.actuals = actuals
    BY <1>1, <1>2, <1>11, <2>12 DEF Request
  <2> HIDE DEF p
  <2>3. VersionsExist(p) /\ CodesKnown(p) /\ Stamped(p)
    BY <1>11, <1>6, <2>2 DEF VersionsExist, CodesKnown, Stamped
  <2> QED
    BY <1>2, <1>7, <1>11, <2>1, <2>2, <2>3
<1>12. CASE q.step = 5
  <2>10. BuildOrder[q.step] = "accounts"
    BY <1>12 DEF BuildOrder
  <2>11. PICK read \in Fetched(q, "accounts") : Put(r, [read EXCEPT !.step = next, !.pc = pc])
    BY <1>3, <2>10
  <2>12. read = [q EXCEPT !.accounts = accounts]
    BY DEF Fetched
  <2> DEFINE p == [read EXCEPT !.step = next, !.pc = pc]
  <2>1. req' = [req EXCEPT ![r] = p]
    BY <2>11 DEF Put
  <2>2. /\ p \in Request /\ p.kind = "report" /\ p.committed = q.committed /\ p.step = next /\ p.pc = pc
        /\ p.before = q.before /\ p.budget = q.budget /\ p.personnel = q.personnel
        /\ p.shared = q.shared /\ p.actuals = q.actuals /\ p.accounts = accounts
    BY <1>1, <1>2, <1>12, <2>12 DEF Request
  <2> HIDE DEF p
  <2>3. VersionsExist(p) /\ Stamped(p)
    BY <1>12, <1>6, <2>2 DEF VersionsExist, Stamped
  <2>4. ASSUME NEW k \in BudgetMap(p) PROVE k[2] \in accounts
    <3>1. k[1] \in Units /\ k[2] \in Lines(uploads[k[1]], p.budget[k[1]])
      BY DEF BudgetMap, Keys
    <3>2. p.budget[k[1]] \in 1..Len(uploads[k[1]]) /\ k[2] \in uploads[k[1]][p.budget[k[1]]].lines
      BY <2>2, <2>3, <3>1 DEF Lines, VersionsExist, Request, IInv, TypeOK
    <3> QED
      BY <3>1, <3>2 DEF IInv, LinesKnown
  <2>5. CodesKnown(p)
    BY <2>2, <2>4 DEF CodesKnown
  <2> QED
    BY <1>6, <1>7, <1>12, <2>1, <2>2, <2>3, <2>5
<1>13. CASE q.step = 6
  <2>14. BuildOrder[q.step] = "stamps"
    BY <1>13 DEF BuildOrder
  <2>15. PICK read \in Fetched(q, "stamps") : Put(r, [read EXCEPT !.step = next, !.pc = pc])
    BY <1>3, <2>14
  <2>1. PICK time \in _latest_budget_ts :
          read = [q EXCEPT !.stamps = [budget    |-> time,
                                       personnel |-> _latest_cost_ts("personnel"),
                                       shared    |-> _latest_cost_ts("shared")]]
    BY DEF Fetched
  <2> DEFINE stamps == [budget    |-> time,
                        personnel |-> _latest_cost_ts("personnel"),
                        shared    |-> _latest_cost_ts("shared")]
             p == [read EXCEPT !.step = next, !.pc = pc]
  <2>2. /\ time \in Time
        /\ _latest_cost_ts("personnel") \in Time /\ _latest_cost_ts("shared") \in Time
    BY LatestBudget, LatestCost DEF IInv, Sources
  <2>3. stamps \in Stamps
    BY <2>2 DEF Stamps
  <2>4. stamps.budget = time /\ stamps.personnel = _latest_cost_ts("personnel")
        /\ stamps.shared = _latest_cost_ts("shared")
    OBVIOUS
  <2>16. read = [q EXCEPT !.stamps = stamps]
    BY <2>1
  <2> HIDE DEF stamps
  <2>5. /\ p \in Request /\ p.kind = "report" /\ p.committed = q.committed /\ p.step = next /\ p.pc = pc
        /\ p.before = q.before /\ p.budget = q.budget /\ p.personnel = q.personnel
        /\ p.shared = q.shared /\ p.actuals = q.actuals /\ p.accounts = q.accounts /\ p.stamps = stamps
    BY <1>1, <1>13, <2>3, <2>16 DEF Request
  <2>10. req' = [req EXCEPT ![r] = p]
    BY <2>15 DEF Put
  <2> HIDE DEF p
  <2>6. VersionsExist(p)
    BY <1>6, <2>5 DEF VersionsExist
  <2>7. CodesKnown(p)
    BY <1>1, <1>13, <2>5 DEF Sound, CodesKnown, BudgetMap
  <2>8. BudgetStamped(p.budget, time)
    <3> SUFFICES ASSUME NEW w \in Units, q.budget[w] # 0
                 PROVE  \E u \in Units : \E n \in DOMAIN uploads[u] :
                          time = uploads[u][n].at /\ \A v \in Units : q.budget[v] <= n
      BY <2>5 DEF BudgetStamped
    <3>1. \A u \in Units : q.budget[u] \in Nat /\ Len(uploads[u]) \in Nat /\ q.budget[u] <= Len(uploads[u])
      BY <1>1, <1>6 DEF Request, VersionsExist, IInv, TypeOK
    <3>2. Len(uploads[w]) # 0
      BY <3>1
    <3>6. PICK u \in Units : \E n \in DOMAIN uploads[u] :
            time = uploads[u][n].at /\ \A v \in Units : Len(uploads[v]) <= n
      BY <3>2, LatestBudget DEF IInv
    <3>3. PICK n \in DOMAIN uploads[u] :
            time = uploads[u][n].at /\ \A v \in Units : Len(uploads[v]) <= n
      BY <3>6
    <3>4. DOMAIN uploads[u] = 1..Len(uploads[u])
      BY DEF IInv, TypeOK
    <3>5. \A v \in Units : q.budget[v] <= n
      BY <3>1, <3>3, <3>4
    <3> QED
      BY <3>3, <3>5
  <2>9. ASSUME NEW source \in Sources, NEW version \in Nat, version <= Len(costs[source])
        PROVE  CostStamped(source, version, _latest_cost_ts(source))
    <3>1. Len(costs[source]) \in Nat
      BY DEF IInv, TypeOK
    <3>2. version # 0 => Len(costs[source]) # 0
      BY <2>9, <3>1
    <3> QED
      BY <2>9, <3>2, LatestCost DEF IInv, CostStamped
  <2>11. /\ CostStamped("personnel", q.personnel, _latest_cost_ts("personnel"))
         /\ CostStamped("shared", q.shared, _latest_cost_ts("shared"))
    BY <1>1, <1>6, <2>9 DEF VersionsExist, Request, Sources
  <2>12. Stamped(p)
    BY <2>4, <2>5, <2>8, <2>11 DEF Stamped
  <2> QED
    BY <1>6, <1>7, <1>13, <2>5, <2>6, <2>7, <2>10, <2>12
<1> QED
  BY <1>1, <1>8, <1>9, <1>10, <1>11, <1>12, <1>13

-----------------------------------------------------------------------------
LEMMA CountStep ==
    ASSUME IInv, NEW r \in Requests, _build_summary_response(r)
    PROVE  IInv'
<1> DEFINE q == req[r]
           p == [q EXCEPT !.pc = "done", !.budget = Versions]
<1>1. q \in Request /\ Sound(q) /\ q.kind = "dashboard" /\ q.pc = "count" /\ q.step = 1 /\ ~q.committed
  BY RequestSound DEF _build_summary_response, Placed
<1>2. req' = [req EXCEPT ![r] = p] /\ UNCHANGED <<outside, accounts, actuals>>
  BY DEF _build_summary_response, Put
<1>3. Versions \in [Units -> Nat] /\ \A u \in Units : Versions[u] = Len(uploads[u])
  BY VersionsTyped DEF IInv
<1>4. /\ p \in Request /\ p.kind = "dashboard" /\ p.pc = "done" /\ p.step = 1 /\ p.budget = Versions
      /\ p.personnel = q.personnel /\ p.shared = q.shared /\ p.actuals = q.actuals /\ p.had = q.had
      /\ p.unsubmitted = q.unsubmitted /\ p.before = q.before /\ p.committed = q.committed
  BY <1>1, <1>3 DEF Request
<1> HIDE DEF p
<1>5. \A u \in Submitted : Versions[u] # 0
  BY <1>3 DEF Submitted, IInv, TypeOK
<1>6. Shows(p)
  BY <1>1, <1>4, <1>5 DEF Sound, Shows
<1>7. VersionsExist(p)
  BY <1>1, <1>3, <1>4 DEF Sound, VersionsExist, IInv, TypeOK
<1>8. Sound(p)
  BY <1>1, <1>4, <1>6, <1>7 DEF Sound, Placed, CodesKnown, Stamped, Removes
<1> QED
  BY <1>1, <1>2, <1>4, <1>8, RequestStep DEF IInv, TypeOK

\* One statement of a dashboard.  The unsubmitted units are read first and
\* the versions after them: who had submitted is not among the first, and
\* has a version.
LEMMA CollectStep ==
    ASSUME IInv, NEW r \in Requests, Collect(r)
    PROVE  IInv'
<1> DEFINE q == req[r]
<1>1. q \in Request /\ Sound(q) /\ q.kind = "dashboard" /\ q.pc = "run" /\ q.step \in 1..4 /\ ~q.committed
  BY RequestSound DEF Collect, Placed
<1>2. UNCHANGED <<outside, accounts, actuals>> /\ accounts \in SUBSET Accounts /\ actuals \in SUBSET Actual
  BY DEF Collect, IInv, TypeOK
<1>3. VersionsExist(q) /\ Whole(q.actuals) /\ q.before \subseteq Committed /\ Shows(q)
  BY <1>1 DEF Sound
<1>4. ASSUME NEW p \in Request, req' = [req EXCEPT ![r] = p], p.kind = "dashboard",
             p.committed = q.committed, p.before = q.before, p.actuals = q.actuals,
             \/ p.pc = "run" /\ p.step \in 1..4
             \/ p.pc = "done",
             VersionsExist(p), Shows(p)
      PROVE  IInv'
  <2>1. Placed(p)
    BY <1>1, <1>4 DEF Placed
  <2>2. Sound(p)
    BY <1>3, <1>4, <2>1 DEF Sound, CodesKnown, Stamped, Removes
  <2> QED
    BY <1>1, <1>2, <1>4, <2>2, RequestStep
<1>5. Put(r, CASE q.step = 1 -> [q EXCEPT !.step = 2, !.unsubmitted = unsubmitted_for_cycle]
               [] q.step = 2 -> [q EXCEPT !.step = 3, !.budget = Versions]
               [] q.step = 3 -> [q EXCEPT !.step = 4, !.read = {u \in Units : templates[u] = "downloaded"}]
               [] q.step = 4 -> [q EXCEPT !.pc = "done", !.resubmits = resubmits])
  BY DEF Collect
<1> HIDE DEF q
<1>6. CASE q.step = 1
  <2> DEFINE p == [q EXCEPT !.step = 2, !.unsubmitted = unsubmitted_for_cycle]
  <2>1. req' = [req EXCEPT ![r] = p]
    BY <1>5, <1>6 DEF Put
  <2>2. unsubmitted_for_cycle \in SUBSET Units /\ unsubmitted_for_cycle \cap Submitted = {}
    BY ReportingAssumption DEF unsubmitted_for_cycle, Submitted
  <2>3. /\ p \in Request /\ p.kind = "dashboard" /\ p.committed = q.committed /\ p.step = 2 /\ p.pc = "run"
        /\ p.before = q.before /\ p.budget = q.budget /\ p.personnel = q.personnel /\ p.shared = q.shared
        /\ p.actuals = q.actuals /\ p.had = q.had /\ p.unsubmitted = unsubmitted_for_cycle
    BY <1>1, <2>2 DEF Request
  <2> HIDE DEF p
  <2>4. VersionsExist(p) /\ Shows(p)
    BY <1>1, <1>3, <2>2, <2>3 DEF VersionsExist, Shows
  <2>5. p.step \in 1..4
    BY <2>3
  <2> QED
    BY <1>4, <2>1, <2>3, <2>4, <2>5
<1>7. CASE q.step = 2
  <2> DEFINE p == [q EXCEPT !.step = 3, !.budget = Versions]
  <2>1. req' = [req EXCEPT ![r] = p]
    BY <1>5, <1>7 DEF Put
  <2>2. Versions \in [Units -> Nat] /\ \A u \in Units : Versions[u] = Len(uploads[u])
    BY VersionsTyped DEF IInv
  <2>3. /\ p \in Request /\ p.kind = "dashboard" /\ p.committed = q.committed /\ p.step = 3 /\ p.pc = "run"
        /\ p.before = q.before /\ p.budget = Versions /\ p.personnel = q.personnel /\ p.shared = q.shared
        /\ p.actuals = q.actuals /\ p.had = q.had /\ p.unsubmitted = q.unsubmitted
    BY <1>1, <2>2 DEF Request
  <2> HIDE DEF p
  <2>4. \A u \in Submitted : Versions[u] # 0
    BY <2>2 DEF Submitted, IInv, TypeOK
  <2>5. VersionsExist(p) /\ Shows(p)
    BY <1>1, <1>3, <2>2, <2>3, <2>4 DEF VersionsExist, Shows, IInv, TypeOK
  <2>6. p.step \in 1..4
    BY <2>3
  <2> QED
    BY <1>4, <2>1, <2>3, <2>5, <2>6
<1>8. CASE q.step = 3
  <2> DEFINE p == [q EXCEPT !.step = 4, !.read = {u \in Units : templates[u] = "downloaded"}]
  <2>1. req' = [req EXCEPT ![r] = p]
    BY <1>5, <1>8 DEF Put
  <2>2. /\ p \in Request /\ p.kind = "dashboard" /\ p.committed = q.committed /\ p.step = 4 /\ p.pc = "run"
        /\ p.before = q.before /\ p.budget = q.budget /\ p.personnel = q.personnel /\ p.shared = q.shared
        /\ p.actuals = q.actuals /\ p.had = q.had /\ p.unsubmitted = q.unsubmitted
    BY <1>1 DEF Request
  <2> HIDE DEF p
  <2>3. VersionsExist(p) /\ Shows(p)
    BY <1>1, <1>3, <1>8, <2>2 DEF VersionsExist, Shows
  <2>4. p.step \in 1..4
    BY <2>2
  <2> QED
    BY <1>4, <2>1, <2>2, <2>3, <2>4
<1>9. CASE q.step = 4
  <2> DEFINE p == [q EXCEPT !.pc = "done", !.resubmits = resubmits]
  <2>1. req' = [req EXCEPT ![r] = p]
    BY <1>5, <1>9 DEF Put
  <2>2. resubmits \in SUBSET Units
    BY DEF IInv, TypeOK
  <2>3. /\ p \in Request /\ p.kind = "dashboard" /\ p.committed = q.committed /\ p.step = 4 /\ p.pc = "done"
        /\ p.before = q.before /\ p.budget = q.budget /\ p.personnel = q.personnel /\ p.shared = q.shared
        /\ p.actuals = q.actuals /\ p.had = q.had /\ p.unsubmitted = q.unsubmitted
    BY <1>1, <1>9, <2>2 DEF Request
  <2> HIDE DEF p
  <2>4. VersionsExist(p) /\ Shows(p)
    BY <1>1, <1>3, <1>9, <2>3 DEF VersionsExist, Shows
  <2> QED
    BY <1>4, <2>1, <2>3, <2>4
<1> QED
  BY <1>1, <1>6, <1>7, <1>8, <1>9
-----------------------------------------------------------------------------
\* A step of a request that writes, on its way.
LEMMA WriterStep ==
    ASSUME IInv, NEW r \in Requests, req[r].kind \in {"actuals", "account"}, NEW p \in Request,
           req' = [req EXCEPT ![r] = p], UNCHANGED <<outside, actuals>>,
           accounts \subseteq accounts', accounts' \subseteq Accounts,
           p.kind = req[r].kind, p.committed = req[r].committed, p.sheet = req[r].sheet,
           p.before = req[r].before, p.actuals = req[r].actuals, p.budget = req[r].budget,
           p.personnel = req[r].personnel, p.shared = req[r].shared,
           Placed(p), ~ (p.pc = "run" /\ p.step = 3)
    PROVE  IInv'
BY RequestSound, WriterSound, RequestStep

LEMMA UpsertStep ==
    ASSUME IInv, NEW r \in Requests, upsert(r)
    PROVE  IInv'
<1> DEFINE p == [req[r] EXCEPT !.pc = "audit"]
<1>1. req[r] \in Request /\ Placed(req[r]) /\ req[r].kind = "account" /\ req[r].pc = "run"
  BY RequestSound DEF upsert
<1>2. req' = [req EXCEPT ![r] = p] /\ UNCHANGED <<outside, actuals>>
  BY DEF upsert, Put
<1>3. accounts \subseteq accounts' /\ accounts' \subseteq Accounts
  <2>1. {k[2] : k \in req[r].sheet} \subseteq Accounts
    BY <1>1 DEF Request, Keys
  <2> QED
    BY <2>1 DEF upsert, IInv, TypeOK
<1>4. /\ p \in Request /\ p.kind = req[r].kind /\ p.committed = req[r].committed /\ p.sheet = req[r].sheet
      /\ p.before = req[r].before /\ p.actuals = req[r].actuals /\ p.budget = req[r].budget
      /\ p.personnel = req[r].personnel /\ p.shared = req[r].shared /\ p.pc = "audit"
  BY <1>1 DEF Request
<1> HIDE DEF p
<1>5. Placed(p)
  BY <1>1, <1>4 DEF Placed
<1> QED
  BY <1>1, <1>2, <1>3, <1>4, <1>5, WriterStep

LEMMA ValidateStep ==
    ASSUME IInv, NEW r \in Requests, Validate(r)
    PROVE  IInv'
<1>1. req[r] \in Request /\ Placed(req[r]) /\ req[r].kind = "actuals" /\ req[r].pc = "run" /\ req[r].step = 1
  BY RequestSound DEF Validate
<1>2. PICK pc \in {"run", "failed"} : Put(r, [req[r] EXCEPT !.step = 2, !.pc = pc])
  BY DEF Validate
<1> DEFINE p == [req[r] EXCEPT !.step = 2, !.pc = pc]
<1>3. req' = [req EXCEPT ![r] = p] /\ UNCHANGED <<outside, accounts, actuals>>
  BY <1>2 DEF Validate, Put
<1>4. /\ p \in Request /\ p.kind = req[r].kind /\ p.committed = req[r].committed /\ p.sheet = req[r].sheet
      /\ p.before = req[r].before /\ p.actuals = req[r].actuals /\ p.budget = req[r].budget
      /\ p.personnel = req[r].personnel /\ p.shared = req[r].shared /\ p.pc = pc /\ p.step = 2
  BY <1>1 DEF Request
<1> HIDE DEF p
<1>5. Placed(p)
  BY <1>1, <1>4 DEF Placed
<1>6. p.step # 3
  BY <1>4
<1> QED
  BY <1>1, <1>3, <1>4, <1>5, <1>6, WriterStep DEF IInv, TypeOK

LEMMA AuditStep ==
    ASSUME IInv, NEW r \in Requests, Audit(r)
    PROVE  IInv'
<1> DEFINE p == [req[r] EXCEPT !.pc = "done"]
<1>1. /\ req[r] \in Request /\ Placed(req[r]) /\ req[r].kind \in {"actuals", "account"}
      /\ req[r].pc = "audit"
  BY RequestSound DEF Audit, Placed
<1>2. req' = [req EXCEPT ![r] = p] /\ UNCHANGED <<outside, accounts, actuals>>
  BY DEF Audit, Put
<1>3. /\ p \in Request /\ p.kind = req[r].kind /\ p.committed = req[r].committed /\ p.sheet = req[r].sheet
      /\ p.before = req[r].before /\ p.actuals = req[r].actuals /\ p.budget = req[r].budget
      /\ p.personnel = req[r].personnel /\ p.shared = req[r].shared /\ p.pc = "done"
  BY <1>1 DEF Request
<1> HIDE DEF p
<1>4. Placed(p)
  BY <1>1, <1>3 DEF Placed
<1> QED
  BY <1>1, <1>2, <1>3, <1>4, WriterStep DEF IInv, TypeOK

LEMMA FailStep ==
    ASSUME IInv, NEW r \in Requests, Fail(r)
    PROVE  IInv'
<1> DEFINE q == req[r]
<1>1. /\ q \in Request /\ Placed(q) /\ q.kind \in {"actuals", "account"}
      /\ UNCHANGED <<outside, accounts, actuals>>
      /\ Put(r, [(IF q.committed THEN q ELSE Idle(q.kind)) EXCEPT !.pc = "failed"])
  BY RequestSound DEF Fail
<1>2. CASE q.committed
  <2> DEFINE p == [q EXCEPT !.pc = "failed"]
  <2>1. req' = [req EXCEPT ![r] = p]
    BY <1>1, <1>2 DEF Put
  <2>2. /\ p \in Request /\ p.kind = q.kind /\ p.committed = q.committed /\ p.sheet = q.sheet
        /\ p.before = q.before /\ p.actuals = q.actuals /\ p.budget = q.budget
        /\ p.personnel = q.personnel /\ p.shared = q.shared /\ p.pc = "failed"
    BY <1>1 DEF Request
  <2> HIDE DEF p
  <2>3. Placed(p)
    BY <1>1, <2>2 DEF Placed
  <2> QED
    BY <1>1, <2>1, <2>2, <2>3, WriterStep DEF IInv, TypeOK
<1>3. CASE ~q.committed
  <2> DEFINE p == [Idle(q.kind) EXCEPT !.pc = "failed"]
  <2>1. req' = [req EXCEPT ![r] = p]
    BY <1>1, <1>3 DEF Put
  <2>2. q.kind \in Kinds /\ NoVersions \in [Units -> Nat]
    BY <1>1 DEF Request, NoVersions
  <2>3. p \in Request
    BY <2>2 DEF Idle, Request, Stamps, Time
  <2>4. p.kind = q.kind /\ p.pc = "failed" /\ p.had = {} /\ p.committed = FALSE
    BY DEF Idle
  <2>5. Unread(p)
    BY DEF Unread, Idle
  <2> HIDE DEF p
  <2>6. Sound(p)
    BY <1>1, <2>3, <2>4, <2>5, FreshSound DEF Placed
  <2>7. p.committed = q.committed
    BY <1>1, <1>3, <2>4 DEF Request
  <2> QED
    BY <1>1, <2>1, <2>3, <2>4, <2>6, <2>7, RequestStep DEF IInv, TypeOK
<1> QED
  BY <1>2, <1>3

LEMMA DeleteStep ==
    ASSUME IInv, NEW r \in Requests, DeleteOld(r)
    PROVE  IInv'
<1> DEFINE q == req[r]
           p == [q EXCEPT !.step = 3, !.actuals = actuals, !.before = Committed]
<1>1. q \in Request /\ Sound(q) /\ q.kind = "actuals" /\ q.pc = "run" /\ ~q.committed
  BY RequestSound DEF DeleteOld, Placed
<1>2. req' = [req EXCEPT ![r] = p] /\ UNCHANGED <<outside, accounts, actuals>>
  BY DEF DeleteOld, Put
<1>3. actuals \in SUBSET Actual /\ Committed \in SUBSET Requests /\ Whole(actuals)
  BY DEF IInv, TypeOK, Committed
<1>4. /\ p \in Request /\ p.kind = "actuals" /\ p.committed = q.committed /\ p.pc = "run" /\ p.step = 3
      /\ p.before = Committed /\ p.actuals = actuals /\ p.budget = q.budget
      /\ p.personnel = q.personnel /\ p.shared = q.shared
  BY <1>1, <1>3 DEF Request
<1> HIDE DEF p
<1>5. Placed(p)
  <2>1. p.step \in 1..3
    BY <1>4
  <2> QED
    BY <1>1, <1>4, <2>1 DEF Placed
<1>6. Sound(p)
  BY <1>1, <1>3, <1>4, <1>5 DEF Sound, VersionsExist, CodesKnown, Stamped, Removes, Shows
<1> QED
  BY <1>1, <1>2, <1>4, <1>6, RequestStep DEF IInv, TypeOK

\* What an import leaves of the table it leaves as whole files: either its
\* DELETE had seen all rows of another import, or none.
LEMMA KeptWhole ==
    ASSUME IInv, NEW q \in Request, Whole(q.actuals),
           NEW a \in Kept(q), NEW c \in actuals, c.by = a.by
    PROVE  c \in Kept(q)
<1> SUFFICES ASSUME c \in q.actuals PROVE FALSE
  BY DEF Kept
<1>1. /\ a \in actuals /\ a \notin q.actuals /\ actuals \subseteq Actual /\ q.actuals \subseteq Actual
      /\ Whole(actuals)
  BY DEF Kept, IInv, TypeOK, Request
<1>2. a.key \in req[a.by].sheet
  BY <1>1 DEF Whole
<1>3. {d.key : d \in {d \in q.actuals : d.by = c.by}} = req[c.by].sheet
  BY DEF Whole
<1>4. PICK d \in q.actuals : d.by = a.by /\ d.key = a.key
  BY <1>2, <1>3
<1>5. d = a
  BY <1>1, <1>4 DEF Actual
<1> QED
  BY <1>1, <1>4, <1>5

LEMMA CommitStep ==
    ASSUME IInv, NEW r \in Requests, CommitImport(r)
    PROVE  IInv'
<1> DEFINE q == req[r]
           p == [q EXCEPT !.pc = "audit", !.committed = TRUE]
           New == {[key |-> k, by |-> r] : k \in q.sheet}
<1>1. /\ q \in Request /\ Sound(q) /\ q.kind = "actuals" /\ q.pc = "run" /\ q.step = 3
      /\ ~q.committed
  BY RequestSound DEF CommitImport, Placed
<1>2. req' = [req EXCEPT ![r] = p] /\ UNCHANGED <<outside, accounts>> /\ actuals' = Kept(q) \cup New
  BY DEF CommitImport, Put
<1>3. actuals \in SUBSET Actual /\ Whole(actuals) /\ Committed \in SUBSET Requests /\ r \notin Committed
  BY <1>1 DEF IInv, TypeOK, Committed
<1>4. /\ p \in Request /\ p.kind = "actuals" /\ p.committed /\ p.pc = "audit" /\ p.step = 3
      /\ p.before = q.before /\ p.actuals = q.actuals /\ p.budget = q.budget
      /\ p.personnel = q.personnel /\ p.shared = q.shared /\ p.sheet = q.sheet
  BY <1>1 DEF Request
<1>5. /\ New \in SUBSET Actual /\ (\A a \in New : a.by = r /\ a.key \in q.sheet)
      /\ \A k \in q.sheet : \E a \in New : a.key = k
  <2>1. q.sheet \in SUBSET Keys
    BY <1>1 DEF Request
  <2>2. \A k \in q.sheet : [key |-> k, by |-> r] \in Actual
    BY <2>1 DEF Actual
  <2> HIDE DEF q
  <2>3. New \in SUBSET Actual
    BY <2>2
  <2>4. \A a \in New : a.by = r /\ a.key \in q.sheet
    OBVIOUS
  <2>5. ASSUME NEW k \in q.sheet PROVE \E a \in New : a.key = k
    <3>1. [key |-> k, by |-> r] \in New /\ [key |-> k, by |-> r].key = k
      OBVIOUS
    <3> HIDE DEF New
    <3> QED
      BY <3>1
  <2> QED
    BY <2>3, <2>4, <2>5
<1> HIDE DEF p, New
<1>6. req'[r] = p /\ \A s \in Requests \ {r} : req'[s] = req[s]
  BY <1>2 DEF IInv, TypeOK
<1>7. Kept(q) \in SUBSET Actual /\ \A a \in Kept(q) : a \in actuals /\ a \notin q.actuals
  BY <1>3 DEF Kept
<1>8. TypeOK'
  BY <1>2, <1>4, <1>5, <1>7 DEF IInv, TypeOK, outside
<1>9. ASSUME NEW table \in SUBSET Actual, Whole(table) PROVE Whole(table)'
  <2>1. \A s \in Requests :
          req[s].committed
          => req'[s].committed /\ req'[s].sheet = req[s].sheet /\ req'[s].before = req[s].before
    BY <1>1, <1>6
  <2> QED
    BY <1>9, <2>1, WholeStays DEF IInv
<1>10. ASSUME NEW a \in Kept(q)
       PROVE  a.by \in Requests \ {r} /\ req[a.by].committed /\ req'[a.by] = req[a.by]
  BY <1>1, <1>3, <1>6, <1>7 DEF Whole, Actual
<1>11. Whole(actuals)'
  <2> SUFFICES ASSUME NEW a \in Kept(q) \cup New
               PROVE  /\ req'[a.by].committed
                      /\ {c.key : c \in {c \in Kept(q) \cup New : c.by = a.by}} = req'[a.by].sheet
                      /\ \A b \in Kept(q) \cup New : a.by \notin req'[b.by].before
    BY <1>2 DEF Whole
  <2>1. req'[a.by].committed
    BY <1>4, <1>5, <1>6, <1>10
  <2>2. {c.key : c \in {c \in Kept(q) \cup New : c.by = a.by}} = req'[a.by].sheet
    <3>1. CASE a \in Kept(q)
      <4>1. {c \in Kept(q) \cup New : c.by = a.by} = {c \in actuals : c.by = a.by}
        BY <1>1, <1>5, <1>7, <1>10, <3>1, KeptWhole DEF Sound
      <4>2. {c.key : c \in {c \in actuals : c.by = a.by}} = req[a.by].sheet
        BY <1>3, <1>7, <3>1 DEF Whole
      <4> QED
        BY <1>10, <3>1, <4>1, <4>2
    <3>2. CASE a \in New
      <4>1. {c \in Kept(q) \cup New : c.by = a.by} = New
        BY <1>5, <1>10, <3>2
      <4>2. {c.key : c \in New} = q.sheet
        BY <1>5
      <4> QED
        BY <1>4, <1>5, <1>6, <3>2, <4>1, <4>2
    <3> QED
      BY <3>1, <3>2
  <2>3. ASSUME NEW b \in Kept(q) \cup New PROVE a.by \notin req'[b.by].before
    <3>1. CASE b \in Kept(q)
      <4>1. req[b.by].before \subseteq Committed /\ req'[b.by] = req[b.by]
        BY <1>10, <3>1 DEF IInv, Sound
      <4> QED
        BY <1>3, <1>5, <1>7, <3>1, <4>1 DEF Whole
    <3>2. CASE b \in New
      <4>1. req'[b.by].before = q.before /\ q.before \subseteq Committed
        BY <1>1, <1>4, <1>5, <1>6, <3>2 DEF Sound
      <4>2. a \in Kept(q) => a.by \notin q.before
        BY <1>1, <1>7 DEF Sound, Removes
      <4> QED
        BY <1>3, <1>5, <4>1, <4>2
    <3> QED
      BY <3>1, <3>2
  <2> QED
    BY <2>1, <2>2, <2>3
<1>12. Committed \subseteq Committed' /\ uploads' = uploads /\ costs' = costs
  BY <1>1, <1>2, <1>6 DEF Committed, outside
<1>13. ASSUME NEW t \in Request, Sound(t), t.actuals \in SUBSET Actual
       PROVE  /\ VersionsExist(t)' /\ CodesKnown(t)' /\ Stamped(t)' /\ Whole(t.actuals)'
              /\ t.before \subseteq Committed' /\ Shows(t)' /\ Removes(t)'
  <2>1. Whole(t.actuals)'
    BY <1>9, <1>13 DEF Sound
  <2>2. VersionsExist(t)' /\ CodesKnown(t)' /\ Stamped(t)' /\ Shows(t)' /\ t.before \subseteq Committed'
    BY <1>12, <1>13 DEF Sound, VersionsExist, CodesKnown, BudgetMap, Stamped, BudgetStamped, CostStamped, Shows,
                        Submitted
  <2>3. Removes(t)'
    BY <1>2, <1>3, <1>5, <1>7, <1>13 DEF Sound, Removes
  <2> QED
    BY <2>1, <2>2, <2>3
<1>14. ASSUME NEW s \in Requests PROVE Sound(req[s])'
  <2>1. CASE s = r
    <3>1. Placed(p)
      BY <1>1, <1>4 DEF Placed
    <3>2. Sound(p)
      BY <1>1, <1>4, <3>1, WriterSound
    <3>3. PICK t \in Request : t = p /\ Sound(t) /\ Placed(t)
      BY <1>4, <3>1, <3>2
    <3>4. t.actuals \in SUBSET Actual
      BY <3>3 DEF Request
    <3>5. Sound(t)'
      BY <1>13, <3>3, <3>4 DEF Sound, Placed
    <3> QED
      BY <1>6, <2>1, <3>3, <3>5
  <2>2. CASE s # r
    <3>1. PICK t \in Request : t = req[s] /\ Sound(t)
      BY RequestSound
    <3>2. t.actuals \in SUBSET Actual /\ Placed(t)
      BY <3>1 DEF Request, Sound
    <3>3. Sound(t)'
      BY <1>13, <3>1, <3>2 DEF Sound, Placed
    <3> QED
      BY <1>6, <2>2, <3>1, <3>3
  <2> QED
    BY <2>1, <2>2
<1>15. LinesKnown' /\ Ordered'
  BY <1>2, <1>12 DEF IInv, LinesKnown, Ordered
<1> QED
  BY <1>8, <1>11, <1>14, <1>15 DEF IInv
-----------------------------------------------------------------------------
\* What other components commit only adds to what a request can have read.
LEMMA OutsideStep ==
    ASSUME IInv, UNCHANGED <<accounts, actuals, req>>, TypeOK', LinesKnown', Ordered',
           \A u \in Units :
             /\ Len(uploads[u]) <= Len(uploads'[u])
             /\ \A n \in 1..Len(uploads[u]) : uploads'[u][n] = uploads[u][n],
           \A s \in Sources :
             /\ Len(costs[s]) <= Len(costs'[s])
             /\ \A n \in 1..Len(costs[s]) : costs'[s][n] = costs[s][n]
    PROVE  IInv'
<1>1. Committed' = Committed
  BY DEF Committed
<1>2. \A u \in Units : Len(uploads[u]) \in Nat /\ Len(uploads'[u]) \in Nat
  BY DEF IInv, TypeOK
<1>3. \A s \in Sources : Len(costs[s]) \in Nat /\ Len(costs'[s]) \in Nat
  BY DEF IInv, TypeOK
<1>7. /\ \A u \in Units : DOMAIN uploads[u] = 1..Len(uploads[u]) /\ DOMAIN uploads'[u] = 1..Len(uploads'[u])
      /\ \A s \in Sources : DOMAIN costs[s] = 1..Len(costs[s]) /\ DOMAIN costs'[s] = 1..Len(costs'[s])
  BY DEF IInv, TypeOK
<1>8. ASSUME NEW source \in Sources, NEW version, NEW stamp, CostStamped(source, version, stamp)
      PROVE  CostStamped(source, version, stamp)'
  <2> SUFFICES ASSUME version # 0
               PROVE  \E n \in DOMAIN costs'[source] : version <= n /\ stamp = costs'[source][n].at
    BY DEF CostStamped
  <2>1. PICK n \in DOMAIN costs[source] : version <= n /\ stamp = costs[source][n].at
    BY <1>8 DEF CostStamped
  <2>2. n \in DOMAIN costs'[source] /\ costs'[source][n] = costs[source][n]
    BY <1>3, <1>7
  <2> QED
    BY <2>1, <2>2
<1>9. ASSUME NEW budget, NEW stamp, BudgetStamped(budget, stamp)
      PROVE  BudgetStamped(budget, stamp)'
  <2> SUFFICES ASSUME NEW w \in Units, budget[w] # 0
               PROVE  \E u \in Units : \E n \in DOMAIN uploads'[u] :
                        stamp = uploads'[u][n].at /\ \A v \in Units : budget[v] <= n
    BY DEF BudgetStamped
  <2>3. PICK u \in Units : \E n \in DOMAIN uploads[u] :
          stamp = uploads[u][n].at /\ \A v \in Units : budget[v] <= n
    BY <1>9 DEF BudgetStamped
  <2>1. PICK n \in DOMAIN uploads[u] :
          stamp = uploads[u][n].at /\ \A v \in Units : budget[v] <= n
    BY <2>3
  <2>2. n \in DOMAIN uploads'[u] /\ uploads'[u][n] = uploads[u][n]
    BY <1>2, <1>7
  <2> QED
    BY <2>1, <2>2
<1>4. ASSUME NEW q \in Request, Sound(q) PROVE Sound(q)'
  <2>7. Stamped(q)'
    BY <1>4, <1>8, <1>9 DEF Sound, Stamped, Sources
  <2>1. VersionsExist(q)'
    BY <1>2, <1>3, <1>4 DEF Sound, VersionsExist, Request, Sources
  <2>2. ASSUME NEW u \in Units PROVE Lines(uploads'[u], q.budget[u]) = Lines(uploads[u], q.budget[u])
    <3>1. q.budget[u] \in Nat /\ q.budget[u] <= Len(uploads[u])
      BY <1>4 DEF Request, Sound, VersionsExist
    <3>2. q.budget[u] = 0 \/ q.budget[u] \in 1..Len(uploads[u])
      BY <1>2, <3>1
    <3> QED
      BY <3>2 DEF Lines
  <2>3. BudgetMap(q)' = BudgetMap(q)
    BY <2>2 DEF BudgetMap, Keys
  <2>4. CodesKnown(q)' /\ Whole(q.actuals)' /\ Removes(q)' /\ Placed(q)'
    BY <1>4, <2>3 DEF Sound, CodesKnown, Whole, Removes, Placed
  <2>5. Submitted \subseteq Submitted'
    <3>1. ASSUME NEW u \in Units, uploads[u] # <<>> PROVE uploads'[u] # <<>>
      <4>1. Len(uploads[u]) # 0
        BY <3>1 DEF IInv, TypeOK
      <4>2. Len(uploads'[u]) # 0
        BY <1>2, <4>1
      <4> QED
        BY <4>2
    <3> QED
      BY <3>1 DEF Submitted
  <2>6. Shows(q)'
    BY <1>4, <2>5 DEF Sound, Shows
  <2> QED
    BY <1>1, <1>4, <2>1, <2>4, <2>6, <2>7 DEF Sound
<1>5. ASSUME NEW s \in Requests PROVE Sound(req[s])'
  <2>1. PICK q \in Request : q = req[s] /\ Sound(q)
    BY RequestSound
  <2>2. Sound(q)'
    BY <1>4, <2>1
  <2> QED
    BY <2>1, <2>2
<1>6. Whole(actuals)'
  BY DEF IInv, Whole
<1> QED
  BY <1>5, <1>6 DEF IInv

LEMMA ElsewhereTyped == IInv /\ Elsewhere => writes' \in 0..MaxWrites /\ UNCHANGED <<accounts, actuals, req>>
  BY ReportingAssumption DEF IInv, TypeOK, Elsewhere

\* One version more of a series.
LEMMA VersionStep ==
    ASSUME NEW L, NEW versions \in Seq(Version(L)), InOrder(versions), NEW lines \in L,
           writes \in Nat, NEW more \in NextVersions(versions, lines)
    PROVE  /\ more \in Seq(Version(L)) /\ InOrder(more)
           /\ Len(more) = Len(versions) + 1 /\ Len(versions) \in Nat
           /\ \A n \in 1..Len(versions) : more[n] = versions[n]
           /\ more[Len(versions) + 1].lines = lines
<1> DEFINE from == IF versions = <<>> THEN 1 ELSE versions[Len(versions)].done + 1
<1>1. PICK time \in from..(writes + 1) :
        more = Append(versions, [lines |-> lines, at |-> time, done |-> writes + 1])
  BY DEF NextVersions
<1> DEFINE new == [lines |-> lines, at |-> time, done |-> writes + 1]
<1>2. Len(versions) \in Nat /\ \A n \in 1..Len(versions) : versions[n] \in Version(L)
  OBVIOUS
<1>3. versions # <<>> => Len(versions) \in 1..Len(versions)
  OBVIOUS
<1>4. from \in Nat
  BY <1>2, <1>3 DEF Version
<1> HIDE DEF from
<1>5. time \in Nat /\ from <= time /\ time <= writes + 1
  BY <1>4
<1>6. new \in Version(L) /\ new.lines = lines /\ new.at = time /\ new.done = writes + 1
  BY <1>5 DEF Version
<1> HIDE DEF new
<1>7. more = Append(versions, new)
  BY <1>1 DEF new
<1>8. /\ more \in Seq(Version(L)) /\ Len(more) = Len(versions) + 1
      /\ \A n \in 1..Len(versions) : more[n] = versions[n]
      /\ more[Len(versions) + 1] = new
  BY <1>6, <1>7
<1>9. \A m \in 1..Len(versions) : versions[m].done < time
  <2> TAKE m \in 1..Len(versions)
  <2>1. versions # <<>> /\ from = versions[Len(versions)].done + 1
    BY <1>2 DEF from
  <2>2. versions[m] \in Version(L) /\ versions[Len(versions)] \in Version(L)
    BY <1>2, <1>3, <2>1
  <2>3. versions[m].done <= versions[Len(versions)].done
    <3>1. CASE m = Len(versions)
      BY <2>2, <3>1 DEF Version
    <3>2. CASE m < Len(versions)
      <4>1. /\ versions[m].done < versions[Len(versions)].at
            /\ versions[Len(versions)].at <= versions[Len(versions)].done
        BY <1>3, <2>1, <3>2 DEF InOrder
      <4> QED
        BY <2>2, <4>1 DEF Version
    <3> QED
      BY <1>2, <3>1, <3>2
  <2> QED
    BY <1>5, <2>1, <2>2, <2>3 DEF Version
<1>10. InOrder(more)
  <2> SUFFICES ASSUME NEW n \in 1..Len(more)
               PROVE  /\ more[n].at <= more[n].done
                      /\ \A m \in 1..Len(more) : m < n => more[m].done < more[n].at
    BY DEF InOrder
  <2>1. CASE n \in 1..Len(versions)
    <3>1. \A m \in 1..Len(more) : m < n => m \in 1..Len(versions)
      BY <1>2, <1>8, <2>1
    <3> QED
      BY <1>8, <2>1, <3>1 DEF InOrder
  <2>2. CASE n = Len(versions) + 1
    <3>1. \A m \in 1..Len(more) : m < n => m \in 1..Len(versions)
      BY <1>2, <1>8, <2>2
    <3> QED
      BY <1>5, <1>6, <1>8, <1>9, <2>2, <3>1
  <2>3. n \in 1..Len(versions) \/ n = Len(versions) + 1
    BY <1>2, <1>8
  <2> QED
    BY <2>1, <2>2, <2>3
<1> QED
  BY <1>2, <1>6, <1>8, <1>10

\* An upload is one version more of its unit.
LEMMA SubmitStep == IInv /\ Submit => IInv'
<1> SUFFICES ASSUME IInv, Submit PROVE IInv'
  OBVIOUS
<1>0. PICK u \in Filing, lines \in SUBSET accounts :
         \E more \in NextVersions(uploads[u], lines) : uploads' = [uploads EXCEPT ![u] = more]
  BY DEF Submit
<1>1. PICK more \in NextVersions(uploads[u], lines) : uploads' = [uploads EXCEPT ![u] = more]
  BY <1>0
<1>2. /\ UNCHANGED <<cycle, costs, templates, resubmits, accounts, actuals, req>>
      /\ writes' \in 0..MaxWrites
  BY ElsewhereTyped DEF Submit
<1>3. u \in Units /\ lines \in SUBSET Accounts /\ uploads \in [Units -> Seq(Version(SUBSET Accounts))]
      /\ costs \in [Sources -> Seq(Version(SUBSET Keys))] /\ writes \in Nat /\ InOrder(uploads[u])
  <2>1. u \in Units
    BY ReportingAssumption
  <2>2. writes \in Nat
    BY ReportingAssumption DEF IInv, TypeOK
  <2> QED
    BY <2>1, <2>2 DEF IInv, TypeOK, Ordered
<1>4. /\ more \in Seq(Version(SUBSET Accounts)) /\ InOrder(more)
      /\ Len(more) = Len(uploads[u]) + 1 /\ Len(uploads[u]) \in Nat
      /\ \A n \in 1..Len(uploads[u]) : more[n] = uploads[u][n]
      /\ more[Len(uploads[u]) + 1].lines = lines
  <2> DEFINE L == SUBSET Accounts
             old == uploads[u]
  <2>1. /\ old \in Seq(Version(L)) /\ lines \in L /\ InOrder(old) /\ writes \in Nat
        /\ more \in NextVersions(old, lines)
    BY <1>3
  <2> HIDE DEF L, old
  <2>2. /\ more \in Seq(Version(L)) /\ InOrder(more) /\ Len(more) = Len(old) + 1
        /\ Len(old) \in Nat
        /\ \A n \in 1..Len(old) : more[n] = old[n]
        /\ more[Len(old) + 1].lines = lines
    BY <2>1, VersionStep
  <2> QED
    BY <2>2 DEF L, old
<1>5. uploads'[u] = more /\ \A v \in Units \ {u} : uploads'[v] = uploads[v]
  BY <1>1, <1>3
<1>6. TypeOK'
  BY <1>1, <1>2, <1>3, <1>4 DEF IInv, TypeOK
<1>10. Ordered'
  <2>1. \A v \in Units : InOrder(uploads'[v])
    BY <1>4, <1>5 DEF IInv, Ordered
  <2>2. \A source \in Sources : InOrder(costs'[source])
    BY <1>2 DEF IInv, Ordered
  <2> QED
    BY <2>1, <2>2 DEF Ordered, InOrder
<1>7. LinesKnown'
  <2> SUFFICES ASSUME NEW v \in Units
               PROVE  /\ uploads'[v] # <<>> => v \in Filing
                      /\ \A n \in 1..Len(uploads'[v]) : uploads'[v][n].lines \subseteq accounts
    BY <1>2 DEF LinesKnown
  <2>1. CASE v = u
    <3>1. ASSUME NEW n \in 1..Len(uploads'[u]) PROVE uploads'[u][n].lines \subseteq accounts
      <4>1. n \in 1..Len(uploads[u]) \/ n = Len(uploads[u]) + 1
        BY <1>4, <1>5
      <4>2. \A m \in 1..Len(uploads[u]) : uploads[u][m].lines \subseteq accounts
        BY <1>3 DEF IInv, LinesKnown
      <4> QED
        BY <1>1, <1>4, <1>5, <4>1, <4>2
    <3> QED
      BY <2>1, <3>1
  <2>2. CASE v # u
    BY <1>5, <2>2 DEF IInv, LinesKnown
  <2> QED
    BY <2>1, <2>2
<1>8. ASSUME NEW v \in Units
      PROVE  /\ Len(uploads[v]) <= Len(uploads'[v])
             /\ \A n \in 1..Len(uploads[v]) : uploads'[v][n] = uploads[v][n]
  <2>1. Len(uploads[v]) \in Nat
    BY <1>3
  <2>2. CASE v = u
    BY <1>4, <1>5, <2>2
  <2>3. CASE v # u
    BY <1>5, <2>1, <2>3
  <2> QED
    BY <2>2, <2>3
<1>9. \A s \in Sources : Len(costs[s]) \in Nat /\ costs'[s] = costs[s]
  BY <1>2, <1>3
<1>11. \A s \in Sources : /\ Len(costs[s]) <= Len(costs'[s])
                          /\ \A n \in 1..Len(costs[s]) : costs'[s][n] = costs[s][n]
  BY <1>9
<1> QED
  BY <1>2, <1>6, <1>7, <1>8, <1>10, <1>11, OutsideStep

LEMMA ImportCostsStep == IInv /\ ImportCosts => IInv'
<1> SUFFICES ASSUME IInv, ImportCosts PROVE IInv'
  OBVIOUS
<1>11. PICK source \in Sources, lines \in SUBSET Keys :
         \E more \in NextVersions(costs[source], lines) : costs' = [costs EXCEPT ![source] = more]
  BY DEF ImportCosts
<1>1. PICK more \in NextVersions(costs[source], lines) : costs' = [costs EXCEPT ![source] = more]
  BY <1>11
<1>2. /\ UNCHANGED <<cycle, uploads, templates, resubmits, accounts, actuals, req>>
      /\ writes' \in 0..MaxWrites
  BY ElsewhereTyped DEF ImportCosts
<1>3. costs \in [Sources -> Seq(Version(SUBSET Keys))] /\ writes \in Nat /\ InOrder(costs[source])
  <2>1. writes \in Nat
    BY ReportingAssumption DEF IInv, TypeOK
  <2> QED
    BY <2>1 DEF IInv, TypeOK, Ordered
<1>4. /\ more \in Seq(Version(SUBSET Keys)) /\ InOrder(more) /\ Len(more) = Len(costs[source]) + 1
      /\ \A n \in 1..Len(costs[source]) : more[n] = costs[source][n]
      /\ \A s \in Sources : Len(costs[s]) \in Nat
  <2> DEFINE L == SUBSET Keys
             old == costs[source]
  <2>1. /\ old \in Seq(Version(L)) /\ lines \in L /\ InOrder(old) /\ writes \in Nat
        /\ more \in NextVersions(old, lines)
    BY <1>3
  <2>2. ASSUME NEW s \in Sources PROVE Len(costs[s]) \in Nat
    <3>1. costs[s] \in Seq(Version(SUBSET Keys))
      BY <1>3
    <3> QED
      BY <3>1
  <2> HIDE DEF L, old
  <2>3. /\ more \in Seq(Version(L)) /\ InOrder(more) /\ Len(more) = Len(old) + 1
        /\ \A n \in 1..Len(old) : more[n] = old[n]
    BY <2>1, VersionStep
  <2> QED
    BY <2>2, <2>3 DEF L, old
<1>5. TypeOK'
  BY <1>1, <1>2, <1>3, <1>4 DEF IInv, TypeOK
<1>6. LinesKnown'
  BY <1>2 DEF IInv, LinesKnown
<1>10. costs'[source] = more /\ \A s \in Sources \ {source} : costs'[s] = costs[s]
  BY <1>1, <1>3
<1>7. \A s \in Sources : /\ Len(costs[s]) <= Len(costs'[s])
                         /\ \A n \in 1..Len(costs[s]) : costs'[s][n] = costs[s][n]
  <2> TAKE s \in Sources
  <2>1. CASE s = source
    BY <1>4, <1>10, <2>1
  <2>2. CASE s # source
    BY <1>4, <1>10, <2>2
  <2> QED
    BY <2>1, <2>2
<1>8. Ordered'
  <2>1. \A s \in Sources : InOrder(costs'[s])
    BY <1>4, <1>10 DEF IInv, Ordered
  <2>2. \A u \in Units : InOrder(uploads'[u])
    BY <1>2 DEF IInv, Ordered
  <2> QED
    BY <2>1, <2>2 DEF Ordered, InOrder
<1>9. \A u \in Units : /\ Len(uploads[u]) <= Len(uploads'[u])
                       /\ \A n \in 1..Len(uploads[u]) : uploads'[u][n] = uploads[u][n]
  BY <1>2 DEF IInv, TypeOK
<1> QED
  BY <1>2, <1>5, <1>6, <1>7, <1>8, <1>9, OutsideStep

\* Downloads, resubmit requests and the status of the cycle.
LEMMA OtherStep == IInv /\ (Template \/ AskAgain \/ MoveCycle) => IInv'
<1> SUFFICES ASSUME IInv, Template \/ AskAgain \/ MoveCycle PROVE IInv'
  OBVIOUS
<1>1. UNCHANGED <<uploads, costs, accounts, actuals, req>> /\ writes' \in 0..MaxWrites
  BY ElsewhereTyped DEF Template, AskAgain, MoveCycle
<1>2. cycle' \in {"draft", "open", "closed"}
  BY DEF Template, AskAgain, MoveCycle, IInv, TypeOK
<1>3. templates' \in [Units -> {"none", "generated", "downloaded"}]
  BY ReportingAssumption DEF Template, AskAgain, MoveCycle, IInv, TypeOK
<1>4. resubmits' \subseteq Units
  BY ReportingAssumption DEF Template, AskAgain, MoveCycle, IInv, TypeOK
<1>5. TypeOK'
  BY <1>1, <1>2, <1>3, <1>4 DEF IInv, TypeOK
<1>6. LinesKnown' /\ Ordered'
  BY <1>1 DEF IInv, LinesKnown, Ordered
<1>7. /\ \A u \in Units : Len(uploads[u]) \in Nat
      /\ \A s \in Sources : Len(costs[s]) \in Nat
  BY DEF IInv, TypeOK
<1> QED
  BY <1>1, <1>5, <1>6, <1>7, OutsideStep
-----------------------------------------------------------------------------
LEMMA InitIInv == Init => IInv
<1> SUFFICES ASSUME Init PROVE IInv
  OBVIOUS
<1>1. \A kind \in Kinds : /\ Idle(kind) \in Request /\ Unread(Idle(kind)) /\ Idle(kind).had = {}
                          /\ Idle(kind).kind = kind /\ Idle(kind).pc = "idle" /\ Placed(Idle(kind))
  <2>1. NoVersions \in [Units -> Nat]
    BY DEF NoVersions
  <2> TAKE kind \in Kinds
  <2>2. Idle(kind) \in Request
    BY <2>1 DEF Idle, Request, Stamps, Time
  <2>3. Idle(kind).kind = kind /\ Idle(kind).pc = "idle" /\ Idle(kind).had = {} /\ ~Idle(kind).committed
    BY DEF Idle
  <2> QED
    BY <2>2, <2>3 DEF Placed, Unread, Idle
<1> DEFINE first == [lines |-> accounts, at |-> 0, done |-> 0]
<1>2. accounts \in SUBSET Accounts /\ \A u \in Units : uploads[u] \in {<<>>, <<first>>}
  BY DEF Init
<1>3. uploads \in [Units -> Seq(Version(SUBSET Accounts))]
  <2>1. first \in Version(SUBSET Accounts)
    BY <1>2 DEF Version
  <2>2. <<first>> \in Seq(Version(SUBSET Accounts)) /\ <<>> \in Seq(Version(SUBSET Accounts))
    BY <2>1
  <2> QED
    BY <1>2, <2>2 DEF Init
<1>4. costs \in [Sources -> Seq(Version(SUBSET Keys))] /\ \A source \in Sources : costs[source] = <<>>
  BY DEF Init
<1>9. Ordered
  <2>1. InOrder(<<>>) /\ InOrder(<<first>>)
    BY DEF InOrder
  <2> QED
    BY <1>2, <1>4, <2>1 DEF Ordered
<1>5. TypeOK
  <2>1. req \in [Requests -> Request]
    BY <1>1 DEF Init
  <2>2. templates \in [Units -> {"none", "generated", "downloaded"}] /\ writes \in 0..MaxWrites
    BY ReportingAssumption DEF Init
  <2>3. cycle \in {"draft", "open", "closed"} /\ actuals \subseteq Actual /\ resubmits \subseteq Units
    BY DEF Init
  <2> QED
    BY <1>2, <1>3, <1>4, <2>1, <2>2, <2>3 DEF TypeOK
<1>6. LinesKnown
  <2> SUFFICES ASSUME NEW u \in Units
               PROVE  /\ uploads[u] # <<>> => u \in Filing
                      /\ \A n \in 1..Len(uploads[u]) : uploads[u][n].lines \subseteq accounts
    BY DEF LinesKnown
  <2>1. uploads[u] # <<>> => u \in Filing
    BY DEF Init
  <2>2. CASE uploads[u] = <<>>
    BY <2>1, <2>2
  <2>3. CASE uploads[u] = <<first>>
    <3>1. Len(<<first>>) = 1 /\ <<first>>[1].lines = accounts
      OBVIOUS
    <3> QED
      BY <2>1, <2>3, <3>1
  <2> QED
    BY <1>2, <2>2, <2>3
<1>7. Whole(actuals) /\ Committed = {}
  BY <1>1 DEF Init, Whole, Committed, Unread
<1>8. ASSUME NEW r \in Requests PROVE Sound(req[r])
  <2>1. PICK q \in Request : q = req[r] /\ Unread(q) /\ q.had = {} /\ Placed(q) /\ q.pc = "idle"
    BY <1>1 DEF Init
  <2>2. VersionsExist(q)
    BY <1>3, <1>4, <2>1 DEF VersionsExist, Unread, NoVersions, Sources
  <2>3. Sound(q)
    BY <2>1, <2>2 DEF Sound, Unread, CodesKnown, Stamped, Whole, Removes, Shows
  <2> QED
    BY <2>1, <2>3
<1> QED
  BY <1>5, <1>6, <1>7, <1>8, <1>9 DEF IInv

LEMMA NextIInv == IInv /\ [Next]_vars => IInv'
<1> SUFFICES ASSUME IInv, [Next]_vars PROVE IInv'
  OBVIOUS
<1>1. ASSUME NEW r \in Requests,
             \/ StartReport(r) \/ Build(r)
             \/ StartDashboard(r) \/ _build_summary_response(r) \/ Collect(r)
      PROVE  IInv'
  BY <1>1, StartReportStep, BuildStep, StartDashboardStep, CountStep, CollectStep
<1>2. ASSUME NEW r \in Requests,
             \/ ReadAccount(r) \/ upsert(r)
             \/ StartImport(r) \/ Validate(r) \/ DeleteOld(r) \/ CommitImport(r)
             \/ Audit(r) \/ Fail(r)
      PROVE  IInv'
  BY <1>2, StartAccountStep, UpsertStep, StartImportStep, ValidateStep, DeleteStep, CommitStep, AuditStep,
     FailStep
<1>3. CASE Submit \/ ImportCosts \/ Template \/ AskAgain \/ MoveCycle
  BY <1>3, SubmitStep, ImportCostsStep, OtherStep
<1>4. CASE UNCHANGED vars
  <2>1. UNCHANGED <<uploads, costs, accounts, actuals, req>> /\ TypeOK' /\ LinesKnown' /\ Ordered'
    BY <1>4 DEF vars, IInv, TypeOK, LinesKnown, Ordered
  <2>2. /\ \A u \in Units : Len(uploads[u]) \in Nat
        /\ \A s \in Sources : Len(costs[s]) \in Nat
    BY DEF IInv, TypeOK
  <2> QED
    BY <2>1, <2>2, OutsideStep
<1> QED
  BY <1>1, <1>2, <1>3, <1>4 DEF Next

LEMMA Invariance == Spec => []IInv
BY InitIInv, NextIInv, PTL DEF Spec
-----------------------------------------------------------------------------
(* TypeOK for any number of requests and of writes by other components:    *)
(* every version, scope, sheet and table a request copies is one there is. *)
THEOREM TypeCorrect == Spec => []TypeOK
<1>1. IInv => TypeOK
  BY DEF IInv
<1> QED
  BY <1>1, Invariance, PTL

LEMMA FinishedReport ==
    ASSUME IInv, NEW q \in Finished("report")
    PROVE  q \in Request /\ Sound(q) /\ q.kind = "report" /\ q.step = 7
BY RequestSound DEF Finished, Placed

(* ReportCoversScope, because the account codes are read after the uploads *)
(* whose lines carry them, and are never taken away.                       *)
THEOREM ReportsCoverTheirScope == Spec => []ReportCoversScope
<1>1. IInv => ReportCoversScope
  <2> SUFFICES ASSUME IInv, NEW q \in Finished("report")
               PROVE  /\ {row.unit : row \in Rows(q)} = q.scope
                      /\ \A u \in q.scope :
                           NotUploaded(u) \in Rows(q) <=> \A row \in Rows(q) : row.unit = u => row.budget = 0
    BY DEF ReportCoversScope
  <2>1. q \in Request /\ Sound(q) /\ q.kind = "report" /\ q.step = 7
    BY FinishedReport
  <2>2. /\ BudgetMap(q) \subseteq Keys /\ CostMap(q, "personnel") \subseteq Keys
        /\ CostMap(q, "shared") \subseteq Keys /\ ActualMap(q) \subseteq Keys
        /\ \A k \in BudgetMap(q) : q.budget[k[1]] # 0 /\ k[2] \in q.accounts
    BY <2>1, MapsTyped DEF IInv, Sound, CodesKnown
  <2> DEFINE keys == BudgetMap(q) \cup CostMap(q, "personnel") \cup CostMap(q, "shared") \cup ActualMap(q)
             shown == {k \in keys : k[1] \in q.scope /\ k[2] \in q.accounts}
             missing == {u \in q.scope : ~\E a \in Accounts : <<u, a>> \in BudgetMap(q)}
  <2>3. Rows(q) = {_build_row(q, k) : k \in shown} \cup {NotUploaded(u) : u \in missing}
    BY DEF Rows
  <2>4. /\ shown \subseteq Keys /\ missing \subseteq q.scope /\ q.scope \subseteq Units
        /\ \A k \in shown : k[1] \in q.scope /\ k[2] \in Accounts /\ k = <<k[1], k[2]>>
    BY <2>1, <2>2 DEF Keys, Request
  <2>5. \A k \in shown : /\ _build_row(q, k).unit = k[1] /\ _build_row(q, k).account = k[2]
                         /\ _build_row(q, k).budget = IF k \in BudgetMap(q) THEN q.budget[k[1]] ELSE 0
    BY DEF _build_row
  <2>6. \A u : NotUploaded(u).unit = u /\ NotUploaded(u).account = NULL /\ NotUploaded(u).budget = 0
    BY DEF NotUploaded
  <2>7. ASSUME NEW u \in q.scope, u \notin missing
        PROVE  \E k \in shown : k \in BudgetMap(q) /\ k[1] = u
    <3>1. PICK a \in Accounts : <<u, a>> \in BudgetMap(q)
      BY <2>7
    <3> QED
      BY <2>2, <3>1
  <2>8. \A u \in missing, k \in shown : k[1] = u => k \notin BudgetMap(q)
    <3>1. \A k \in BudgetMap(q) : k[2] \in Accounts /\ k = <<k[1], k[2]>>
      BY <2>2 DEF Keys
    <3> QED
      BY <3>1
  <2> HIDE DEF shown, missing, keys
  <2>9. {row.unit : row \in Rows(q)} = q.scope
    <3>1. \A row \in Rows(q) : row.unit \in q.scope
      BY <2>3, <2>4, <2>5, <2>6
    <3>2. ASSUME NEW u \in q.scope PROVE \E row \in Rows(q) : row.unit = u
      <4>1. CASE u \in missing
        BY <2>3, <2>6, <4>1
      <4>2. CASE u \notin missing
        BY <2>3, <2>5, <2>7, <4>2
      <4> QED
        BY <4>1, <4>2
    <3> QED
      BY <3>1, <3>2
  <2>11. ASSUME NEW u \in q.scope
         PROVE  NotUploaded(u) \in Rows(q) <=> \A row \in Rows(q) : row.unit = u => row.budget = 0
    <3>1. CASE u \in missing
      <4>1. NotUploaded(u) \in Rows(q)
        BY <2>3, <3>1
      <4>2. \A row \in Rows(q) : row.unit = u => row.budget = 0
        BY <2>3, <2>5, <2>6, <2>8, <3>1
      <4> QED
        BY <4>1, <4>2
    <3>2. CASE u \notin missing
      <4>1. NotUploaded(u) \notin Rows(q)
        <5>1. ASSUME NEW k \in shown PROVE _build_row(q, k) # NotUploaded(u)
          BY <2>4, <2>5, <2>6, ReportingAssumption
        <5>2. ASSUME NEW v \in missing PROVE NotUploaded(v) # NotUploaded(u)
          BY <2>6, <3>2
        <5> QED
          BY <2>3, <5>1, <5>2
      <4>2. \E row \in Rows(q) : row.unit = u /\ row.budget # 0
        <5>1. PICK k \in shown : k \in BudgetMap(q) /\ k[1] = u
          BY <2>7, <3>2
        <5> QED
          BY <2>2, <2>3, <2>5, <5>1
      <4> QED
        BY <4>1, <4>2
    <3> QED
      BY <3>1, <3>2
  <2> QED
    BY <2>9, <2>11
<1> QED
  BY <1>1, Invariance, PTL

\* Of two versions of a series the later one is not uploaded before.
LEMMA TimesGrow ==
    ASSUME NEW L, NEW versions \in Seq(Version(L)), InOrder(versions),
           NEW m \in 1..Len(versions), NEW n \in 1..Len(versions), m <= n
    PROVE  versions[m].at <= versions[n].at
<1>1. versions[m] \in Version(L) /\ versions[n] \in Version(L)
  OBVIOUS
<1>2. CASE m = n
  BY <1>1, <1>2 DEF Version
<1>3. CASE m < n
  <2>1. versions[m].at <= versions[m].done /\ versions[m].done < versions[n].at
    BY <1>3 DEF InOrder
  <2>2. versions[m].at \in Nat /\ versions[m].done \in Nat /\ versions[n].at \in Nat
    BY <1>1 DEF Version
  <2> QED
    BY <2>1, <2>2
<1>4. Len(versions) \in Nat
  OBVIOUS
<1> QED
  BY <1>2, <1>3, <1>4

(* StampCoversFigures, because the timestamps are read last, because they  *)
(* are those of the highest versions, and because the versions of a series *)
(* are uploaded one after another.                                         *)
THEOREM StampsCoverFigures == Spec => []StampCoversFigures
<1>1. IInv => StampCoversFigures
  <2> SUFFICES ASSUME IInv, NEW q \in Finished("report")
               PROVE  /\ \A source \in Sources, row \in Rows(q) :
                           row[source] # 0 => /\ q.stamps[source] # NULL
                                              /\ costs[source][row[source]].at <= q.stamps[source]
                      /\ (\E row \in Rows(q) : row.budget # 0) =>
                           \E u \in Units : \E n \in DOMAIN uploads[u] :
                             /\ q.stamps.budget = uploads[u][n].at
                             /\ \A row \in Rows(q) :
                                  /\ row.budget <= n
                                  /\ row.unit = u /\ row.budget # 0
                                     => uploads[u][row.budget].at <= q.stamps.budget
    BY DEF StampCoversFigures
  <2>1. q \in Request /\ Sound(q) /\ q.kind = "report" /\ q.step = 7
    BY FinishedReport
  <2>2. /\ BudgetStamped(q.budget, q.stamps.budget)
        /\ CostStamped("personnel", q.personnel, q.stamps.personnel)
        /\ CostStamped("shared", q.shared, q.stamps.shared)
        /\ VersionsExist(q)
    BY <2>1 DEF Sound, Stamped
  <2>3. ASSUME NEW row \in Rows(q)
        PROVE  /\ row.budget = 0 \/ (row.unit \in Units /\ row.budget = q.budget[row.unit])
               /\ row.personnel \in {0, q.personnel} /\ row.shared \in {0, q.shared}
    <3>1. CASE \E u : row = NotUploaded(u)
      BY <3>1 DEF NotUploaded
    <3>2. CASE \E k \in BudgetMap(q) \cup CostMap(q, "personnel") \cup CostMap(q, "shared") \cup ActualMap(q) :
                 row = _build_row(q, k)
      <4>1. PICK k \in Keys : row = _build_row(q, k)
        BY <2>1, <3>2, MapsTyped DEF IInv, Sound
      <4>2. k[1] \in Units
        BY DEF Keys
      <4>3. /\ row.budget = IF k \in BudgetMap(q) THEN q.budget[k[1]] ELSE 0
            /\ row.personnel \in {0, q.personnel} /\ row.shared \in {0, q.shared}
            /\ row.unit = k[1]
        BY <4>1 DEF _build_row
      <4> QED
        BY <4>2, <4>3
    <3> QED
      BY <2>3, <3>1, <3>2 DEF Rows
  <2>4. ASSUME NEW source \in Sources, NEW version \in Nat, NEW stamp, version # 0,
               version <= Len(costs[source]), CostStamped(source, version, stamp)
        PROVE  stamp # NULL /\ costs[source][version].at <= stamp
    <3>1. PICK n \in DOMAIN costs[source] : version <= n /\ stamp = costs[source][n].at
      BY <2>4 DEF CostStamped
    <3>2. costs[source] \in Seq(Version(SUBSET Keys)) /\ InOrder(costs[source])
      BY DEF IInv, TypeOK, Ordered
    <3>3. n \in 1..Len(costs[source]) /\ version \in 1..Len(costs[source])
      BY <2>4, <3>2
    <3>4. costs[source][n] \in Version(SUBSET Keys)
      BY <3>2, <3>3
    <3>5. costs[source][version].at <= costs[source][n].at
      BY <3>1, <3>2, <3>3, TimesGrow
    <3> QED
      BY <3>1, <3>4, <3>5, ReportingAssumption DEF Version
  <2>5. ASSUME NEW source \in Sources, NEW row \in Rows(q), row[source] # 0
        PROVE  q.stamps[source] # NULL /\ costs[source][row[source]].at <= q.stamps[source]
    <3>1. q.personnel \in Nat /\ q.shared \in Nat
      BY <2>1 DEF Request
    <3>2. CASE source = "personnel"
      <4>1. row.personnel = q.personnel /\ q.personnel # 0
        BY <2>3, <2>5, <3>2
      <4>2. q.personnel <= Len(costs["personnel"])
        BY <2>2 DEF VersionsExist
      <4>3. q.stamps.personnel # NULL /\ costs["personnel"][q.personnel].at <= q.stamps.personnel
        BY <2>2, <2>4, <3>1, <3>2, <4>1, <4>2
      <4> QED
        BY <3>2, <4>1, <4>3
    <3>3. CASE source = "shared"
      <4>1. row.shared = q.shared /\ q.shared # 0
        BY <2>3, <2>5, <3>3
      <4>2. q.shared <= Len(costs["shared"])
        BY <2>2 DEF VersionsExist
      <4>3. q.stamps.shared # NULL /\ costs["shared"][q.shared].at <= q.stamps.shared
        BY <2>2, <2>4, <3>1, <3>3, <4>1, <4>2
      <4> QED
        BY <3>3, <4>1, <4>3
    <3> QED
      BY <3>2, <3>3 DEF Sources
  <2>6. ASSUME NEW some \in Rows(q), some.budget # 0
        PROVE  \E u \in Units : \E n \in DOMAIN uploads[u] :
                 /\ q.stamps.budget = uploads[u][n].at
                 /\ \A row \in Rows(q) :
                      /\ row.budget <= n
                      /\ row.unit = u /\ row.budget # 0
                         => uploads[u][row.budget].at <= q.stamps.budget
    <3>1. \A v \in Units : q.budget[v] \in Nat /\ q.budget[v] <= Len(uploads[v])
      BY <2>1, <2>2 DEF Request, VersionsExist
    <3>6. PICK u \in Units : \E n \in DOMAIN uploads[u] :
            q.stamps.budget = uploads[u][n].at /\ \A v \in Units : q.budget[v] <= n
      BY <2>2, <2>3, <2>6 DEF BudgetStamped
    <3>2. PICK n \in DOMAIN uploads[u] :
            q.stamps.budget = uploads[u][n].at /\ \A v \in Units : q.budget[v] <= n
      BY <3>6
    <3>3. uploads[u] \in Seq(Version(SUBSET Accounts)) /\ InOrder(uploads[u])
      BY DEF IInv, TypeOK, Ordered
    <3>4. n \in 1..Len(uploads[u]) /\ n \in Nat
      BY <3>3
    <3>5. ASSUME NEW row \in Rows(q)
          PROVE  /\ row.budget <= n
                 /\ row.unit = u /\ row.budget # 0
                    => uploads[u][row.budget].at <= q.stamps.budget
      <4>1. row.budget <= n
        BY <2>3, <3>2, <3>4
      <4>2. ASSUME row.unit = u, row.budget # 0
            PROVE  uploads[u][row.budget].at <= q.stamps.budget
        <5>1. row.budget \in 1..Len(uploads[u])
          BY <2>3, <3>1, <3>3, <4>2
        <5> QED
          BY <3>2, <3>3, <3>4, <4>1, <5>1, TimesGrow
      <4> QED
        BY <4>1, <4>2
    <3> QED
      BY <3>2, <3>5
  <2> QED
    BY <2>5, <2>6
<1> QED
  BY <1>1, Invariance, PTL

(* ActualsOfOneImport: rows of one import stand alone, unless the others   *)
(* were committed too late for its DELETE to see them; and every file in   *)
(* the table, or in a report of it, is whole.                              *)
THEOREM ActualsAreOfOneImport == Spec => []ActualsOfOneImport
<1>1. IInv => ActualsOfOneImport
  <2> SUFFICES ASSUME IInv, NEW table \in {actuals} \cup {q.actuals : q \in Finished("report")}
               PROVE  \A a, b \in table :
                        /\ a.by \notin req[b.by].before
                        /\ {c.key : c \in {c \in table : c.by = a.by}} = req[a.by].sheet
    BY DEF ActualsOfOneImport
  <2>1. Whole(table)
    BY FinishedReport DEF IInv, Sound
  <2> QED
    BY <2>1 DEF Whole
<1> QED
  BY <1>1, Invariance, PTL

(* SubmittedIsShown: what had been submitted before a dashboard was asked  *)
(* for is on it, whichever of its statements come before later uploads.    *)
THEOREM SubmittedUnitsAreShown == Spec => []SubmittedIsShown
<1>1. IInv => SubmittedIsShown
  <2> SUFFICES ASSUME IInv, NEW q \in Finished("dashboard")
               PROVE  /\ q.had \subseteq {u \in Filing : q.budget[u] # 0}
                      /\ \A item \in Items(q) :
                           item.unit \in q.had
                           => item.version # 0 /\ item.status \in {"uploaded", "resubmit_requested"}
    BY DEF SubmittedIsShown
  <2>1. q \in Request /\ Shows(q) /\ q.kind = "dashboard" /\ q.pc = "done"
    BY RequestSound DEF Finished, Sound
  <2>2. q.unsubmitted \cap q.had = {} /\ \A u \in q.had : u \in Filing /\ q.budget[u] # 0
    BY <2>1 DEF Shows, Submitted, IInv, LinesKnown
  <2>3. ASSUME NEW u \in q.scope \cap Filing, u \in q.had PROVE Status(q, u) \in {"uploaded", "resubmit_requested"}
    BY <2>2, <2>3 DEF Status
  <2> QED
    BY <2>2, <2>3 DEF Items
<1> QED
  BY <1>1, Invariance, PTL
=============================================================================
