-------------------------- MODULE AuditChainProofs --------------------------
(* Theorems about AuditChain, for every set of writers and every bound.    *)
EXTENDS AuditChain, TLAPS, WellFoundedInduction

\* chain_hash of a hash value and a sequence number is a hash value.
LEMMA ChainHashType ==
    ASSUME NEW p \in Hash, NEW n \in Seqs
    PROVE  chain_hash(p, n) \in Hash
  BY DEF chain_hash, Hash

\* The row record() builds is a row of audit_logs.
LEMMA NewRowType ==
    ASSUME TypeOK, NEW w \in Writers, nextSeq \in Seqs, NEW at \in Times
    PROVE  NewRow(w, at) \in AuditLog
  <1>1. prev[w] \in Hash /\ seen[w] \in SUBSET Seqs
    BY DEF TypeOK
  <1>2. chain_hash(prev[w], nextSeq) \in Hash
    BY <1>1, ChainHashType
  <1>3. QED
    BY <1>1, <1>2 DEF NewRow, AuditLog

\* Every session and every committed row keeps its type, whatever the
\* interleaving of record(), commits and rollbacks.
THEOREM TypeCorrect == Spec => []TypeOK
  <1>1. Init => TypeOK
    <2> SUFFICES ASSUME Init PROVE TypeOK
      OBVIOUS
    <2>1. Genesis \in Hash
      BY DEF Genesis, Hash
    <2>2. nextSeq \in 1..MaxSeq + 1 /\ clock \in Times
      BY BoundsAssumption DEF Init, Times
    <2>3. QED
      BY <2>1, <2>2, BoundsAssumption DEF Init, TypeOK, Times
  <1>2. TypeOK /\ [Next]_vars => TypeOK'
    <2> SUFFICES ASSUME TypeOK, [Next]_vars PROVE TypeOK'
      OBVIOUS
    <2>1. CASE Tick
      BY <2>1, BoundsAssumption DEF Tick, TypeOK, Times
    <2>2. ASSUME NEW w \in Writers, ReadLatest(w) PROVE TypeOK'
      <3>1. Visible(w) \subseteq AuditLog
        BY DEF TypeOK, Visible
      <3>2. {r.seq : r \in Visible(w)} \in SUBSET Seqs
        BY <3>1 DEF AuditLog
      <3>3. prev' \in [Writers -> Hash]
        <4>1. Genesis \in Hash
          BY DEF Genesis, Hash
        <4>2. \A r \in Visible(w) : r.hash \in Hash
          BY <3>1 DEF AuditLog
        <4>3. QED
          BY <2>2, <4>1, <4>2 DEF ReadLatest, TypeOK
      <3>4. seen' \in [Writers -> SUBSET Seqs]
        BY <2>2, <3>2 DEF ReadLatest, TypeOK
      <3>5. since' \in [Writers -> Times] /\ pc' \in [Writers -> {"idle", "building"}]
        BY <2>2 DEF ReadLatest, TypeOK
      <3>6. QED
        BY <2>2, <3>3, <3>4, <3>5 DEF ReadLatest, TypeOK
    <2>3. ASSUME NEW w \in Writers, InsertRow(w) PROVE TypeOK'
      <3>1. PICK at \in since[w]..clock :
              pending' = [pending EXCEPT ![w] = @ \cup {NewRow(w, at)}]
        BY <2>3 DEF InsertRow
      <3>2. at \in Times
        BY BoundsAssumption DEF TypeOK, Times
      <3>3. NewRow(w, at) \in AuditLog
        BY <2>3, <3>2, NewRowType DEF InsertRow
      <3>4. pending' \in [Writers -> SUBSET AuditLog]
        BY <3>1, <3>3 DEF TypeOK
      <3>5. nextSeq' \in 1..MaxSeq + 1
        BY <2>3, BoundsAssumption DEF InsertRow, Seqs
      <3>6. QED
        BY <2>3, <3>4, <3>5 DEF InsertRow, TypeOK
    <2>4. ASSUME NEW w \in Writers, Commit(w) PROVE TypeOK'
      BY <2>4 DEF Commit, TypeOK
    <2>5. ASSUME NEW w \in Writers, Rollback(w) PROVE TypeOK'
      BY <2>5 DEF Rollback, TypeOK
    <2>6. CASE UNCHANGED vars
      BY <2>6 DEF vars, TypeOK
    <2>7. QED
      BY <2>1, <2>2, <2>3, <2>4, <2>5, <2>6 DEF Next
  <1>3. QED
    BY <1>1, <1>2, PTL DEF Spec

-----------------------------------------------------------------------------
(* Facts about LinkedTo *)

\* A link stays good when rows are added.
LEMMA LinkedToGrows ==
    ASSUME NEW p, NEW n, NEW S, NEW T, S \subseteq T, LinkedTo(p, n, S)
    PROVE  LinkedTo(p, n, T)
  BY DEF LinkedTo

\* Adding rows only adds to the rows below a given one.
LEMMA BelowGrows ==
    ASSUME NEW S, NEW T, NEW r, S \subseteq T
    PROVE  Below(r, S) \subseteq Below(r, T)
  BY DEF Below

\* What ReadLatest stores is a link to the rows the session sees.
LEMMA ReadLatestLinks ==
    ASSUME TypeOK, NEW w \in Writers, ReadLatest(w)
    PROVE  LinkedTo(prev'[w], seen'[w], Visible(w))
  <1>1. prev \in [Writers -> Hash] /\ seen' = [seen EXCEPT ![w] = {r.seq : r \in Visible(w)}]
    BY DEF TypeOK, ReadLatest
  <1>2. seen'[w] = {r.seq : r \in Visible(w)}
    BY <1>1 DEF TypeOK
  <1>3. CASE Visible(w) = {} /\ prev' = [prev EXCEPT ![w] = Genesis]
    BY <1>1, <1>2, <1>3 DEF LinkedTo
  <1>4. ASSUME NEW r \in Visible(w), IsLatest(r, Visible(w)),
               prev' = [prev EXCEPT ![w] = r.hash]
        PROVE  LinkedTo(prev'[w], seen'[w], Visible(w))
    <2>1. prev'[w] = r.hash
      BY <1>1, <1>4
    <2>2. \A m \in seen'[w] : m <= r.seq
      BY <1>2, <1>4 DEF IsLatest
    <2>3. r.seq \in seen'[w]
      BY <1>2
    <2>4. QED
      BY <2>1, <2>2, <2>3 DEF LinkedTo
  <1>5. QED
    BY <1>3, <1>4 DEF ReadLatest

-----------------------------------------------------------------------------
(* The inductive step, one lemma per action *)

\* Reading the latest row disturbs only the session's own link.
LEMMA ReadLatestStep ==
    ASSUME IInv, TypeOK', NEW w \in Writers, ReadLatest(w)
    PROVE  IInv'
  <1>1. rows' = rows /\ pending' = pending /\ nextSeq' = nextSeq
    BY DEF ReadLatest
  <1>2. Inserted' = Inserted /\ \A v \in Writers : Visible(v)' = Visible(v)
    BY <1>1 DEF Inserted, Visible
  <1>3. NumbersUnique' /\ HashesComputed'
    BY <1>1, <1>2 DEF IInv, NumbersUnique, HashesComputed
  <1>4. RowsLinked' /\ PendingLinked'
    BY <1>1, <1>2 DEF IInv, RowsLinked, PendingLinked
  <1>5. SessionsLinked'
    <2> SUFFICES ASSUME NEW v \in Writers, pc'[v] = "building"
                 PROVE  LinkedTo(prev'[v], seen'[v], Visible(v)')
      BY DEF SessionsLinked
    <2>1. CASE v = w
      BY <2>1, <1>2, ReadLatestLinks DEF IInv
    <2>2. CASE v # w
      <3>1. prev'[v] = prev[v] /\ seen'[v] = seen[v] /\ pc'[v] = pc[v]
        BY <2>2 DEF ReadLatest, IInv, TypeOK
      <3>2. QED
        BY <3>1, <1>2 DEF IInv, SessionsLinked
    <2>3. QED
      BY <2>1, <2>2
  <1>6. QED
    BY <1>3, <1>4, <1>5 DEF IInv

\* The new row has a number nobody has, and inherits the session's link.
LEMMA InsertRowStep ==
    ASSUME IInv, TypeOK', NEW w \in Writers, InsertRow(w)
    PROVE  IInv'
  <1>1. PICK at \in since[w]..clock :
          pending' = [pending EXCEPT ![w] = @ \cup {NewRow(w, at)}]
    BY DEF InsertRow
  <1> DEFINE new == NewRow(w, at)
  <1>2. /\ rows' = rows /\ nextSeq' = nextSeq + 1 /\ nextSeq \in Seqs
        /\ pc[w] = "building" /\ pc' = [pc EXCEPT ![w] = "idle"]
        /\ prev' = prev /\ seen' = seen
    BY DEF InsertRow
  <1>3. /\ pending'[w] = pending[w] \cup {new}
        /\ \A v \in Writers : v # w => pending'[v] = pending[v]
    BY <1>1 DEF IInv, TypeOK
  <1>4. /\ new.seq = nextSeq /\ new.prev = prev[w] /\ new.seen = seen[w]
        /\ new.hash = chain_hash(new.prev, new.seq)
    BY DEF NewRow
  <1>5. /\ Visible(w)' = Visible(w) \cup {new}
        /\ \A v \in Writers : v # w => Visible(v)' = Visible(v)
    BY <1>2, <1>3 DEF Visible
  <1>6. Inserted' = Inserted \cup {new}
    BY <1>2, <1>3 DEF Inserted
  <1>7. \A r \in Inserted : r.seq \in Nat /\ r.seq < nextSeq
    BY DEF IInv, NumbersUnique, Inserted, TypeOK, AuditLog, Seqs
  <1>8. NumbersUnique'
    BY <1>2, <1>4, <1>6, <1>7 DEF IInv, NumbersUnique, Seqs
  <1>9. HashesComputed'
    BY <1>4, <1>6 DEF IInv, HashesComputed
  <1>10. RowsLinked'
    BY <1>2 DEF IInv, RowsLinked
  <1>11. Below(new, Visible(w)') = Visible(w)
    BY <1>2, <1>4, <1>5, <1>7 DEF Below, Visible, Inserted, Seqs
  <1>12. PendingLinked'
    <2> SUFFICES ASSUME NEW v \in Writers, NEW r \in pending'[v]
                 PROVE  LinkedTo(r.prev, r.seen, Below(r, Visible(v)'))
      BY DEF PendingLinked
    <2>1. CASE r \in pending[v]
      <3>1. Below(r, Visible(v)) \subseteq Below(r, Visible(v)')
        BY <1>5, BelowGrows
      <3>2. QED
        BY <2>1, <3>1, LinkedToGrows DEF IInv, PendingLinked
    <2>2. CASE v = w /\ r = new
      <3>1. LinkedTo(prev[w], seen[w], Visible(w))
        BY <1>2 DEF IInv, SessionsLinked
      <3>2. QED
        BY <2>2, <3>1, <1>4, <1>11
    <2>3. QED
      BY <2>1, <2>2, <1>3
  <1>13. SessionsLinked'
    BY <1>2, <1>5 DEF IInv, SessionsLinked, TypeOK
  <1>14. QED
    BY <1>8, <1>9, <1>10, <1>12, <1>13 DEF IInv

\* A commit takes along every row its rows may be linked to.
LEMMA CommitStep ==
    ASSUME IInv, TypeOK', NEW w \in Writers, Commit(w)
    PROVE  IInv'
  <1>1. /\ rows' = Visible(w)
        /\ nextSeq' = nextSeq /\ pc' = pc /\ prev' = prev /\ seen' = seen
    BY DEF Commit, Visible
  <1>2. /\ pending'[w] = {}
        /\ \A v \in Writers : v # w => pending'[v] = pending[v]
    BY DEF Commit, IInv, TypeOK
  <1>3. Inserted' = Inserted
    BY <1>1, <1>2 DEF Inserted, Visible
  <1>4. NumbersUnique' /\ HashesComputed'
    BY <1>1, <1>3 DEF IInv, NumbersUnique, HashesComputed
  <1>5. \A v \in Writers : Visible(v) \subseteq Visible(v)'
    BY <1>1, <1>2 DEF Visible
  <1>6. RowsLinked'
    <2> SUFFICES ASSUME NEW r \in rows'
                 PROVE  LinkedTo(r.prev, r.seen, Below(r, rows'))
      BY DEF RowsLinked
    <2>1. CASE r \in rows
      <3>1. Below(r, rows) \subseteq Below(r, rows')
        BY <1>1, BelowGrows DEF Visible
      <3>2. QED
        BY <2>1, <3>1, LinkedToGrows DEF IInv, RowsLinked
    <2>2. CASE r \in pending[w]
      BY <2>2, <1>1 DEF IInv, PendingLinked
    <2>3. QED
      BY <2>1, <2>2, <1>1 DEF Visible
  <1>7. PendingLinked'
    <2> SUFFICES ASSUME NEW v \in Writers, NEW r \in pending'[v]
                 PROVE  LinkedTo(r.prev, r.seen, Below(r, Visible(v)'))
      BY DEF PendingLinked
    <2>1. r \in pending[v]
      BY <1>2
    <2>2. Below(r, Visible(v)) \subseteq Below(r, Visible(v)')
      BY <1>5, BelowGrows
    <2>3. QED
      BY <2>1, <2>2, LinkedToGrows DEF IInv, PendingLinked
  <1>8. SessionsLinked'
    <2> SUFFICES ASSUME NEW v \in Writers, pc[v] = "building"
                 PROVE  LinkedTo(prev[v], seen[v], Visible(v)')
      BY <1>1 DEF SessionsLinked
    <2>1. LinkedTo(prev[v], seen[v], Visible(v))
      BY DEF IInv, SessionsLinked
    <2>2. QED
      BY <2>1, <1>5, LinkedToGrows
  <1>9. QED
    BY <1>4, <1>6, <1>7, <1>8 DEF IInv

\* A rollback removes rows no other session and no committed row can link to.
LEMMA RollbackStep ==
    ASSUME IInv, TypeOK', NEW w \in Writers, Rollback(w)
    PROVE  IInv'
  <1>1. /\ rows' = rows /\ nextSeq' = nextSeq /\ prev' = prev /\ seen' = seen
        /\ pc' = [pc EXCEPT ![w] = "idle"]
    BY DEF Rollback
  <1>2. /\ pending'[w] = {}
        /\ \A v \in Writers : v # w => pending'[v] = pending[v]
    BY DEF Rollback, IInv, TypeOK
  <1>3. Inserted' \subseteq Inserted
    BY <1>1, <1>2 DEF Inserted
  <1>4. NumbersUnique' /\ HashesComputed'
    BY <1>1, <1>3 DEF IInv, NumbersUnique, HashesComputed
  <1>5. \A v \in Writers : v # w => Visible(v)' = Visible(v)
    BY <1>1, <1>2 DEF Visible
  <1>6. RowsLinked'
    BY <1>1 DEF IInv, RowsLinked
  <1>7. PendingLinked'
    BY <1>2, <1>5 DEF IInv, PendingLinked
  <1>8. SessionsLinked'
    BY <1>1, <1>5 DEF IInv, SessionsLinked, TypeOK
  <1>9. QED
    BY <1>4, <1>6, <1>7, <1>8 DEF IInv

\* Steps that touch neither rows nor sessions.
LEMMA IdleStep ==
    ASSUME IInv, TypeOK', Tick \/ UNCHANGED vars
    PROVE  IInv'
  <1>1. UNCHANGED <<rows, nextSeq, pc, prev, seen, pending>>
    BY DEF Tick, vars
  <1>2. Inserted' = Inserted /\ \A v \in Writers : Visible(v)' = Visible(v)
    BY <1>1 DEF Inserted, Visible
  <1>3. QED
    BY <1>1, <1>2 DEF IInv, NumbersUnique, HashesComputed, RowsLinked,
                      PendingLinked, SessionsLinked

\* The inductive invariant holds in every reachable state.
THEOREM InductiveInvariant == Spec => []IInv
  <1>1. Init /\ TypeOK => IInv
    BY DEF Init, IInv, NumbersUnique, HashesComputed, RowsLinked, PendingLinked,
           SessionsLinked, Inserted
  <1>2. IInv /\ TypeOK' /\ [Next]_vars => IInv'
    BY ReadLatestStep, InsertRowStep, CommitStep, RollbackStep, IdleStep DEF Next
  <1>3. QED
    BY <1>1, <1>2, TypeCorrect, PTL DEF Spec

-----------------------------------------------------------------------------
(* What follows from it *)

\* Committed rows form a tree rooted at genesis: no link dangles, even when
\* transactions that wrote audit rows are rolled back.
THEOREM LinksNeverDangle == Spec => []LinksResolve
  <1>1. IInv => LinksResolve
    BY DEF IInv, RowsLinked, LinksResolve, LinkedTo, Below
  <1>2. QED
    BY <1>1, InductiveInvariant, PTL

\* The chain breaks only where two writers overlapped.
THEOREM BreaksNeedOverlap == Spec => []BreaksOnlyBetweenOverlappingWriters
  <1>1. IInv => BreaksOnlyBetweenOverlappingWriters
    <2> SUFFICES ASSUME IInv, NEW p \in rows, NEW r \in rows,
                        Neighbours(p, r, rows), p.seq \in r.seen
                 PROVE  r.prev = p.hash
      BY DEF BreaksOnlyBetweenOverlappingWriters
    <2>1. PICK l \in Below(r, rows) :
            l.hash = r.prev /\ \A m \in r.seen : m <= l.seq
      BY DEF IInv, RowsLinked, LinkedTo
    <2>2. l \in rows /\ p.seq <= l.seq /\ l.seq < r.seq
      BY <2>1 DEF Below
    <2>3. l.seq \in Nat /\ p.seq \in Nat
      BY <2>2 DEF IInv, TypeOK, AuditLog, Seqs
    <2>4. l.seq = p.seq
      BY <2>2, <2>3 DEF Neighbours
    <2>5. l = p
      BY <2>2, <2>4 DEF IInv, NumbersUnique, Inserted
    <2>6. QED
      BY <2>1, <2>5
  <1>2. QED
    BY <1>1, InductiveInvariant, PTL

-----------------------------------------------------------------------------
(* Writers that take turns *)

\* A session asks for the latest row only when no other is in the middle of a
\* record() or holds rows it has not committed: what a lock that is taken by
\* record() and released at the end of the transaction would come to.
TakesTurns ==
    \A w \in Writers :
        ReadLatest(w) => \A v \in Writers \ {w} : pc[v] = "idle" /\ pending[v] = {}

\* Then at most one session is in its turn ...
OneTurn ==
    \A v, w \in Writers :
        v # w /\ (pc[w] = "building" \/ pending[w] # {}) => pc[v] = "idle" /\ pending[v] = {}

\* ... and every writer has seen every row below its own.
SawEverything ==
    \A w \in Writers :
        /\ \A q, r \in Visible(w) : q.seq < r.seq => q.seq \in r.seen
        /\ pc[w] = "building" => \A q \in Visible(w) : q.seq \in seen[w]

\* Turns are kept by every step, as only ReadLatest begins one.
LEMMA OneTurnStep ==
    ASSUME TypeOK, OneTurn, [Next /\ TakesTurns]_vars
    PROVE  OneTurn'
  <1>1. CASE Tick \/ UNCHANGED vars
    <2>1. UNCHANGED <<pc, pending>>
      BY <1>1 DEF Tick, vars
    <2>2. QED
      BY <2>1 DEF OneTurn
  <1>2. ASSUME NEW w \in Writers, ReadLatest(w), TakesTurns PROVE OneTurn'
    <2>1. \A v \in Writers \ {w} : pc[v] = "idle" /\ pending[v] = {}
      BY <1>2 DEF TakesTurns
    <2>2. \A v \in Writers \ {w} : pc'[v] = "idle" /\ pending'[v] = {}
      BY <1>2, <2>1 DEF ReadLatest, TypeOK
    <2>3. QED
      BY <2>2 DEF OneTurn
  <1>3. ASSUME NEW w \in Writers, InsertRow(w) \/ Commit(w) \/ Rollback(w) PROVE OneTurn'
    <2>1. pc[w] = "building" \/ pending[w] # {}
      BY <1>3 DEF InsertRow, Commit, Rollback
    <2>2. \A v \in Writers \ {w} : pc[v] = "idle" /\ pending[v] = {}
      BY <2>1 DEF OneTurn
    <2>3. \A v \in Writers \ {w} : pc'[v] = pc[v] /\ pending'[v] = pending[v]
      BY <1>3 DEF InsertRow, Commit, Rollback, TypeOK
    <2>4. QED
      BY <2>2, <2>3 DEF OneTurn
  <1>4. QED
    BY <1>1, <1>2, <1>3 DEF Next

\* And so is what everybody has seen.
LEMMA SawEverythingStep ==
    ASSUME IInv, OneTurn, SawEverything, [Next]_vars
    PROVE  SawEverything'
  <1>1. CASE Tick \/ UNCHANGED vars
    <2>1. UNCHANGED <<rows, pc, seen, pending>>
      BY <1>1 DEF Tick, vars
    <2>2. QED
      BY <2>1 DEF SawEverything, Visible
  <1>2. ASSUME NEW w \in Writers, ReadLatest(w) PROVE SawEverything'
    <2>1. \A v \in Writers : Visible(v)' = Visible(v)
      BY <1>2 DEF ReadLatest, Visible
    <2>2. seen'[w] = {r.seq : r \in Visible(w)}
      BY <1>2 DEF ReadLatest, IInv, TypeOK
    <2>3. \A v \in Writers \ {w} : pc'[v] = pc[v] /\ seen'[v] = seen[v]
      BY <1>2 DEF ReadLatest, IInv, TypeOK
    <2>4. QED
      BY <2>1, <2>2, <2>3 DEF SawEverything
  <1>3. ASSUME NEW w \in Writers, InsertRow(w) PROVE SawEverything'
    <2>1. PICK at \in since[w]..clock :
            pending' = [pending EXCEPT ![w] = @ \cup {NewRow(w, at)}]
      BY <1>3 DEF InsertRow
    <2>2. Visible(w)' = Visible(w) \cup {NewRow(w, at)}
      BY <1>3, <2>1 DEF InsertRow, Visible, IInv, TypeOK
    <2>3. NewRow(w, at).seq = nextSeq /\ NewRow(w, at).seen = seen[w]
      BY DEF NewRow
    <2>4. \A q \in Visible(w) : q.seq \in seen[w] /\ ~ (nextSeq < q.seq)
      <3>1. \A q \in Visible(w) : q.seq \in Nat /\ q.seq < nextSeq
        BY DEF Visible, IInv, NumbersUnique, Inserted, TypeOK, AuditLog, Seqs
      <3>2. QED
        BY <1>3, <3>1 DEF InsertRow, SawEverything, IInv, TypeOK
    <2>5. ~ (nextSeq < nextSeq)
      BY DEF IInv, TypeOK
    <2>6. \A q, r \in Visible(w)' : q.seq < r.seq => q.seq \in r.seen
      BY <2>2, <2>3, <2>4, <2>5 DEF SawEverything
    <2>7. pc'[w] = "idle"
      BY <1>3 DEF InsertRow, IInv, TypeOK
    <2>8. \A v \in Writers \ {w} : /\ pc'[v] = pc[v] /\ seen'[v] = seen[v]
                                   /\ Visible(v)' = Visible(v)
      BY <1>3, <2>1 DEF InsertRow, Visible, IInv, TypeOK
    <2>9. QED
      BY <2>6, <2>7, <2>8 DEF SawEverything
  <1>4. ASSUME NEW w \in Writers, Commit(w) PROVE SawEverything'
    <2>1. Visible(w)' = Visible(w)
      BY <1>4 DEF Commit, Visible, IInv, TypeOK
    <2>2. \A v \in Writers \ {w} : pc[v] = "idle" /\ pending[v] = {} /\ pending'[v] = {}
      BY <1>4 DEF Commit, OneTurn, IInv, TypeOK
    <2>3. \A v \in Writers \ {w} : Visible(v)' = Visible(w)
      BY <1>4, <2>2 DEF Commit, Visible
    <2>4. QED
      BY <1>4, <2>1, <2>2, <2>3 DEF SawEverything, Commit
  <1>5. ASSUME NEW w \in Writers, Rollback(w) PROVE SawEverything'
    <2>1. \A v \in Writers : Visible(v)' \subseteq Visible(v)
      BY <1>5 DEF Rollback, Visible, IInv, TypeOK
    <2>2. pc'[w] = "idle" /\ \A v \in Writers \ {w} : pc'[v] = pc[v] /\ seen'[v] = seen[v]
      BY <1>5 DEF Rollback, IInv, TypeOK
    <2>3. QED
      BY <2>1, <2>2 DEF SawEverything
  <1>6. QED
    BY <1>1, <1>2, <1>3, <1>4, <1>5 DEF Next

\* Every committed row is by a writer that had seen the rows numbered below it.
EveryRowSeen == \A q, r \in rows : q.seq < r.seq => q.seq \in r.seen

\* verify_chain accepts the whole table when every writer had seen all the rows
\* before its own, however many sessions wrote it and whatever was rolled back.
THEOREM SeenTableVerifies == Spec => [](EveryRowSeen => UntamperedTableVerifies)
  <1>1. IInv /\ BreaksOnlyBetweenOverlappingWriters
        => (EveryRowSeen => UntamperedTableVerifies)
    <2> SUFFICES ASSUME IInv, EveryRowSeen, BreaksOnlyBetweenOverlappingWriters
                 PROVE  verify_chain(rows)
      BY DEF UntamperedTableVerifies
    <2>1. \A r \in rows : r.hash = chain_hash(r.prev, r.seq)
      BY DEF IInv, HashesComputed, Inserted
    <2>2. \A p, r \in rows : Neighbours(p, r, rows) => p.seq \in r.seen
      BY DEF EveryRowSeen, Neighbours
    <2>3. QED
      BY <2>1, <2>2 DEF BreaksOnlyBetweenOverlappingWriters, verify_chain
  <1>2. QED
    BY <1>1, InductiveInvariant, BreaksNeedOverlap, PTL

\* And so it is when any number of sessions take turns: the documented guarantee
\* is what record() would give under a lock that is held to the commit.
THEOREM SerialTableVerifies ==
    Init /\ [][Next /\ TakesTurns]_vars => []UntamperedTableVerifies
  <1>1. CASE Writers = {}
    <2>1. Init => rows = {}
      BY DEF Init
    <2>2. rows = {} /\ [Next /\ TakesTurns]_vars => (rows = {})'
      BY <1>1 DEF Next, Tick, vars
    <2>3. rows = {} => UntamperedTableVerifies
      BY DEF UntamperedTableVerifies, verify_chain
    <2>4. QED
      BY <2>1, <2>2, <2>3, PTL
  <1>2. CASE Writers # {}
    <2>1. Init => OneTurn /\ SawEverything
      BY DEF Init, OneTurn, SawEverything, Visible
    <2>2. IInv /\ OneTurn /\ SawEverything /\ [Next /\ TakesTurns]_vars => OneTurn' /\ SawEverything'
      <3> SUFFICES ASSUME IInv, OneTurn, SawEverything, [Next /\ TakesTurns]_vars
                   PROVE  OneTurn' /\ SawEverything'
        OBVIOUS
      <3>1. TypeOK /\ [Next]_vars
        BY DEF IInv
      <3>2. QED
        BY <3>1, OneTurnStep, SawEverythingStep
    <2>3. SawEverything => EveryRowSeen
      BY <1>2 DEF SawEverything, EveryRowSeen, Visible
    <2>4. [Next /\ TakesTurns]_vars => [Next]_vars
      OBVIOUS
    <2>5. QED
      BY <2>1, <2>2, <2>3, <2>4, InductiveInvariant, SeenTableVerifies, PTL DEF Spec
  <1>3. QED
    BY <1>1, <1>2

-----------------------------------------------------------------------------
(* Windows of occurred_at *)

\* A row is not older than what its writer saw, as its time was taken later.
TimesFollowReads ==
    /\ \A r \in Inserted : r.at <= clock /\ \A m \in r.seen : m < nextSeq
    /\ \A w \in Writers : since[w] <= clock /\ \A m \in seen[w] : m < nextSeq
    /\ \A q, r \in Inserted : q.seq \in r.seen => q.at <= r.at
    /\ \A w \in Writers : pc[w] = "building" =>
         \A q \in Inserted : q.seq \in seen[w] => q.at <= since[w]

\* Every step keeps it.
LEMMA TimesStep ==
    ASSUME IInv, TypeOK', TimesFollowReads, [Next]_vars
    PROVE  TimesFollowReads'
<1>1. /\ \A q, r \in Inserted : q.seq = r.seq => q = r
      /\ \A r \in Inserted : r.seq < nextSeq
  BY DEF IInv, NumbersUnique
<1>2. /\ clock \in Nat /\ nextSeq \in Nat /\ \A w \in Writers : since[w] \in Nat
      /\ \A r \in Inserted : r.at \in Nat /\ r.seq \in Nat /\ r.seen \in SUBSET Nat
      /\ \A w \in Writers : seen[w] \in SUBSET Nat
  BY BoundsAssumption DEF IInv, TypeOK, Times, Inserted, AuditLog, Seqs
<1>3. CASE Tick
  <2>1. clock' = clock + 1 /\ Inserted' = Inserted /\ UNCHANGED <<nextSeq, pc, seen, since>>
    BY <1>3 DEF Tick, Inserted
  <2> QED
    BY <1>2, <2>1 DEF TimesFollowReads
<1>4. ASSUME NEW w \in Writers, ReadLatest(w) PROVE TimesFollowReads'
  <2>1. /\ Inserted' = Inserted /\ UNCHANGED <<nextSeq, clock>>
        /\ seen'[w] = {r.seq : r \in Visible(w)} /\ since'[w] = clock
        /\ \A v \in Writers \ {w} : seen'[v] = seen[v] /\ since'[v] = since[v] /\ pc'[v] = pc[v]
    BY <1>4 DEF ReadLatest, Inserted, IInv, TypeOK
  <2>2. \A m \in seen'[w] : m < nextSeq
    BY <1>1, <2>1 DEF Visible, Inserted
  <2> QED
    BY <1>2, <2>1, <2>2 DEF TimesFollowReads
<1>5. ASSUME NEW w \in Writers, InsertRow(w) PROVE TimesFollowReads'
  <2>1. PICK at \in since[w]..clock :
          pending' = [pending EXCEPT ![w] = @ \cup {NewRow(w, at)}]
    BY <1>5 DEF InsertRow
  <2>2. PICK new : /\ Inserted' = Inserted \cup {new} /\ new.seq = nextSeq
                   /\ new.at = at /\ new.seen = seen[w]
    <3> DEFINE row == NewRow(w, at)
    <3>1. row.seq = nextSeq /\ row.at = at /\ row.seen = seen[w]
      BY DEF NewRow
    <3>2. Inserted' = Inserted \cup {row}
      BY <1>5, <2>1 DEF InsertRow, Inserted, IInv, TypeOK
    <3> QED
      BY <3>1, <3>2
  <2>3. /\ nextSeq' = nextSeq + 1 /\ UNCHANGED <<clock, seen, since>> /\ pc[w] = "building"
        /\ \A v \in Writers : pc'[v] = "building" => pc[v] = "building"
    BY <1>5 DEF InsertRow, IInv, TypeOK
  <2>4. at \in Nat /\ since[w] <= at /\ at <= clock
    BY <1>2, <2>1
  <2>5. \A q \in Inserted' : q.seq \in seen[w] => q.at <= at
    BY <1>2, <2>2, <2>3, <2>4 DEF TimesFollowReads
  <2>6. \A q, r \in Inserted' : q.seq \in r.seen => q.at <= r.at
    BY <1>2, <2>2, <2>4, <2>5 DEF TimesFollowReads
  <2>7. \A v \in Writers : pc'[v] = "building" =>
          \A q \in Inserted' : q.seq \in seen'[v] => q.at <= since'[v]
    BY <1>2, <2>2, <2>3 DEF TimesFollowReads
  <2>8. \A r \in Inserted' : r.at <= clock' /\ \A m \in r.seen : m < nextSeq'
    BY <1>2, <2>2, <2>3, <2>4 DEF TimesFollowReads
  <2>9. \A v \in Writers : since'[v] <= clock' /\ \A m \in seen'[v] : m < nextSeq'
    BY <1>2, <2>3 DEF TimesFollowReads
  <2> QED
    BY <2>6, <2>7, <2>8, <2>9 DEF TimesFollowReads
<1>6. ASSUME NEW w \in Writers, Commit(w) \/ Rollback(w) PROVE TimesFollowReads'
  <2>1. /\ UNCHANGED <<nextSeq, clock, seen, since>>
        /\ \A v \in Writers : pc'[v] = "building" => pc[v] = "building"
    BY <1>6 DEF Commit, Rollback, IInv, TypeOK
  <2>2. Inserted' \subseteq Inserted
    BY <1>6 DEF Commit, Rollback, Inserted, IInv, TypeOK
  <2> QED
    BY <2>1, <2>2 DEF TimesFollowReads
<1>7. CASE UNCHANGED vars
  <2>1. Inserted' = Inserted /\ UNCHANGED <<nextSeq, clock, pc, seen, since>>
    BY <1>7 DEF vars, Inserted
  <2> QED
    BY <2>1 DEF TimesFollowReads
<1> QED
  BY <1>3, <1>4, <1>5, <1>6, <1>7 DEF Next

LEMMA TimesInvariant == Spec => []TimesFollowReads
<1>1. Init => TimesFollowReads
  BY DEF Init, TimesFollowReads, Inserted
<1>2. IInv /\ TypeOK' /\ TimesFollowReads /\ [Next]_vars => TimesFollowReads'
  BY TimesStep
<1> QED
  BY <1>1, <1>2, InductiveInvariant, TypeCorrect, PTL DEF Spec

\* A set of naturals that is not empty has a least member.
LEMMA LeastNat ==
    ASSUME NEW T \in SUBSET Nat, T # {}
    PROVE  \E n \in T : \A m \in T : n <= m
<1> DEFINE R == OpToRel(<, Nat)
<1>1. PICK n \in T : \A m \in T : <<m, n>> \notin R
  <2>1. IsWellFoundedOn(R, Nat)
    BY NatLessThanWellFounded
  <2> HIDE DEF R
  <2> QED
    BY <2>1, WFMin
<1>2. \A m \in T : ~ (m < n)
  BY <1>1 DEF OpToRel
<1> QED
  BY <1>2

\* And one that is bounded has a greatest.
LEMMA GreatestNat ==
    ASSUME NEW T \in SUBSET Nat, T # {}, NEW b \in Nat, \A n \in T : n <= b
    PROVE  \E n \in T : \A m \in T : m <= n
<1> DEFINE D == {b - n : n \in T}
<1>1. D \in SUBSET Nat /\ D # {}
  <2>1. \A n \in T : b - n \in Nat
    OBVIOUS
  <2>2. PICK n \in T : TRUE
    OBVIOUS
  <2> QED
    BY <2>1, <2>2
<1>2. PICK d \in D : \A e \in D : d <= e
  <2> HIDE DEF D
  <2> QED
    BY <1>1, LeastNat
<1>3. PICK n \in T : d = b - n
  OBVIOUS
<1>4. \A m \in T : b - n <= b - m
  BY <1>2, <1>3
<1> QED
  BY <1>4

\* A row below another in the table has a neighbour before it that is not
\* below the first.
LEMMA Predecessor ==
    ASSUME TypeOK, NEW p \in rows, NEW q \in rows, p.seq < q.seq
    PROVE  \E l \in rows : Neighbours(l, q, rows) /\ p.seq <= l.seq
<1> DEFINE T == {l.seq : l \in {l \in rows : l.seq < q.seq}}
<1>1. \A r \in rows : r.seq \in Nat
  BY DEF TypeOK, AuditLog, Seqs
<1>2. T \in SUBSET Nat /\ T # {} /\ (\A n \in T : n <= q.seq) /\ p.seq \in T
  BY <1>1
<1>3. PICK n \in T : \A m \in T : m <= n
  <2> HIDE DEF T
  <2> QED
    BY <1>1, <1>2, GreatestNat
<1>4. PICK l \in rows : l.seq = n /\ l.seq < q.seq
  BY <1>3
<1>5. ~ \E m \in rows : l.seq < m.seq /\ m.seq < q.seq
  BY <1>1, <1>3, <1>4
<1> QED
  BY <1>2, <1>3, <1>4, <1>5 DEF Neighbours

\* In a table that verifies, a row's writer had seen the row before it.
LEMMA NeighbourSeen ==
    ASSUME IInv, verify_chain(rows), NEW l \in rows, NEW q \in rows, Neighbours(l, q, rows)
    PROVE  l.seq \in q.seen
<1>1. q.prev = l.hash /\ l.hash = Append(l.prev, l.seq)
  BY DEF verify_chain, chain_hash
<1>2. l.prev \in Seq(Seqs) /\ l.seq \in Seqs
  BY DEF IInv, TypeOK, AuditLog, Hash
<1>3. q.prev # Genesis
  BY <1>1, <1>2 DEF Genesis
<1>4. PICK m \in rows : m.seq \in q.seen /\ m.hash = q.prev
  BY <1>3 DEF IInv, RowsLinked, LinkedTo, Below
<1>5. m.hash = Append(m.prev, m.seq) /\ m.prev \in Seq(Seqs) /\ m.seq \in Seqs
  BY DEF verify_chain, chain_hash, IInv, TypeOK, AuditLog, Hash
<1>6. m.seq = l.seq
  BY <1>1, <1>2, <1>4, <1>5
<1> QED
  BY <1>4, <1>6

\* Such a table is in the order of time: were a row older than one before it,
\* the first such row would be older than its neighbour, which it has seen.
LEMMA TableInOrder ==
    ASSUME IInv, TimesFollowReads, verify_chain(rows), NEW p \in rows, NEW q \in rows,
           p.seq < q.seq
    PROVE  p.at <= q.at
<1> DEFINE Late(x) == \E y \in rows : y.seq < x.seq /\ ~ (y.at <= x.at)
           T == {x.seq : x \in {x \in rows : Late(x)}}
<1>1. \A r \in rows : r.seq \in Nat /\ r.at \in Nat
  BY BoundsAssumption DEF IInv, TypeOK, AuditLog, Seqs, Times
<1> SUFFICES ASSUME T # {} PROVE FALSE
  OBVIOUS
<1>2. T \in SUBSET Nat
  BY <1>1
<1>3. PICK n \in T : \A m \in T : n <= m
  <2> HIDE DEF T
  <2> QED
    BY <1>2, LeastNat
<1>4. PICK x \in rows : x.seq = n /\ Late(x)
  BY <1>3
<1>5. PICK y \in rows : y.seq < x.seq /\ ~ (y.at <= x.at)
  BY <1>4
<1>6. PICK l \in rows : Neighbours(l, x, rows) /\ y.seq <= l.seq
  BY <1>5, Predecessor DEF IInv
<1>7. l.at <= x.at
  <2>1. l.seq \in x.seen
    BY <1>6, NeighbourSeen
  <2> QED
    BY <2>1 DEF TimesFollowReads, Inserted
<1>8. ~ Late(l)
  BY <1>1, <1>3, <1>4, <1>6 DEF Neighbours
<1>9. CASE y.seq = l.seq
  BY <1>5, <1>7, <1>9 DEF IInv, NumbersUnique, Inserted
<1>10. CASE y.seq # l.seq
  <2>1. y.at <= l.at
    BY <1>1, <1>6, <1>8, <1>10
  <2> QED
    BY <1>1, <1>5, <1>7, <2>1
<1> QED
  BY <1>9, <1>10

\* verify_chain(start, end): if the table verifies, so does every window of
\* occurred_at, for every set of writers.
THEOREM WindowsVerify == Spec => []WindowsVerifyWithTable
<1>1. ASSUME IInv, TimesFollowReads, verify_chain(rows), NEW start \in Times, NEW end \in Times
      PROVE  verify_chain(InRange(rows, start, end))
  <2> DEFINE S == InRange(rows, start, end)
  <2>1. S \subseteq rows /\ \A r \in S : start <= r.at /\ r.at <= end
    BY DEF InRange
  <2>2. ASSUME NEW p \in S, NEW r \in S, Neighbours(p, r, S) PROVE Neighbours(p, r, rows)
    <3>1. p \in rows /\ r \in rows /\ p.seq < r.seq
      BY <2>1, <2>2 DEF Neighbours
    <3>2. ASSUME NEW q \in rows, p.seq < q.seq, q.seq < r.seq PROVE FALSE
      <4>1. p.at <= q.at /\ q.at <= r.at
        BY <1>1, <3>1, <3>2, TableInOrder
      <4>2. p.at \in Nat /\ q.at \in Nat /\ r.at \in Nat /\ start \in Nat /\ end \in Nat
        BY <1>1, <3>1, BoundsAssumption DEF IInv, TypeOK, AuditLog, Times
      <4>3. q \in S
        BY <2>1, <4>1, <4>2 DEF InRange
      <4> QED
        BY <2>2, <3>2, <4>3 DEF Neighbours
    <3> QED
      BY <3>1, <3>2 DEF Neighbours
  <2> QED
    BY <1>1, <2>1, <2>2 DEF verify_chain
<1>2. IInv /\ TimesFollowReads => WindowsVerifyWithTable
  BY <1>1 DEF WindowsVerifyWithTable
<1> QED
  BY <1>2, InductiveInvariant, TimesInvariant, PTL
=============================================================================
