----------------------------- MODULE AuditChain -----------------------------
(***************************************************************************)
(* The hash-chained audit log: AuditService.record and verify_chain        *)
(* (src/backend/src/app/domain/audit/service.py) over AuditRepo, with the  *)
(* transactions of the request sessions that call record.                  *)
(*                                                                         *)
(* record() reads the latest row, inserts a row that points at it and is   *)
(* NOT followed by a commit: the caller commits, possibly after more calls *)
(* of record in the same transaction, or the transaction is rolled back    *)
(* (an exception, a crash, or a session that is closed without a commit).  *)
(* Nothing serialises two sessions, PostgreSQL runs at READ COMMITTED and  *)
(* sequence numbers come from a sequence that ignores rollbacks.           *)
(***************************************************************************)
EXTENDS Naturals, Sequences

CONSTANTS
    Writers,   \* request sessions that write audit rows
    MaxSeq,    \* bound: sequence numbers the database can hand out
    MaxClock   \* bound: last value of the clock

ASSUME BoundsAssumption == MaxSeq \in Nat /\ MaxClock \in Nat

VARIABLES
    rows,      \* committed rows of audit_logs
    nextSeq,   \* next value of audit_logs_sequence_no_seq
    clock,     \* what now_utc() returns
    pc,        \* per session: "idle", or "building" between read and insert
    prev,      \* per session: the prev_hash record() holds
    seen,      \* per session: sequence numbers visible when it was read
    since,     \* per session: clock when it was read
    pending    \* per session: rows inserted and not yet committed

vars == <<rows, nextSeq, clock, pc, prev, seen, since, pending>>

Seqs  == 1..MaxSeq
Times == 0..MaxClock

(* HMAC-SHA256 is taken to be collision free: a hash value is the list of  *)
(* payloads it commits to. A payload holds the row's sequence_no, which is *)
(* unique, so it stands for the payload.                                   *)
Hash               == Seq(Seqs)
Genesis            == << >>
chain_hash(p, seq) == Append(p, seq)

(* "seen" is a history field, not a column: the rows visible to the writer *)
(* when it read prev_hash.                                                 *)
AuditLog == [seq: Seqs, prev: Hash, hash: Hash, at: Times, seen: SUBSET Seqs]

-----------------------------------------------------------------------------
(* Reads *)

\* (mutant: ORDER BY occurred_at DESC)
IsLatestByTime(r, S) == r \in S /\ \A q \in S : q.at <= r.at

\* SELECT ... ORDER BY sequence_no DESC LIMIT 1
IsLatest(r, S) == r \in S /\ \A q \in S : q.seq <= r.seq

\* (mutant: READ UNCOMMITTED)
VisibleDirty(w) == rows \cup UNION {pending[v] : v \in Writers}

\* What a statement of session w sees at READ COMMITTED.
Visible(w) == rows \cup pending[w]

\* WHERE occurred_at BETWEEN start AND end
InRange(S, start, end) == {r \in S : start <= r.at /\ r.at <= end}

\* p and r are neighbours when S is ordered by sequence_no.
Neighbours(p, r, S) ==
    /\ p \in S /\ r \in S /\ p.seq < r.seq
    /\ ~ \E q \in S : p.seq < q.seq /\ q.seq < r.seq

\* verify_chain over the rows S: no row raises AUDIT_001.
verify_chain(S) ==
    /\ \A r \in S : r.hash = chain_hash(r.prev, r.seq)
    /\ \A p, r \in S : Neighbours(p, r, S) => r.prev = p.hash

-----------------------------------------------------------------------------
(* One call of record() *)

\* repo.get_latest(): prev_hash of the row to come.
ReadLatest(w) ==
    /\ pc[w] = "idle"
    /\ \/ Visible(w) = {} /\ prev' = [prev EXCEPT ![w] = Genesis]
       \/ \E r \in Visible(w) :
            IsLatest(r, Visible(w)) /\ prev' = [prev EXCEPT ![w] = r.hash]
    /\ seen'  = [seen EXCEPT ![w] = {r.seq : r \in Visible(w)}]
    /\ since' = [since EXCEPT ![w] = clock]
    /\ pc'    = [pc EXCEPT ![w] = "building"]
    /\ UNCHANGED <<rows, nextSeq, clock, pending>>

\* (mutant: numbers from zero)
NewRowFromZero(w, at) ==
    [seq |-> nextSeq - 1, prev |-> prev[w], hash |-> chain_hash(prev[w], nextSeq - 1),
     at |-> at, seen |-> seen[w]]

\* The row record() builds around prev_hash once the database numbered it.
NewRow(w, at) ==
    [seq |-> nextSeq, prev |-> prev[w], hash |-> chain_hash(prev[w], nextSeq),
     at |-> at, seen |-> seen[w]]

\* (mutant: occurred_at is taken before the latest row is read)
InsertRowEarlyTime(w) ==
    /\ pc[w] = "building"
    /\ nextSeq \in Seqs
    /\ \E at \in 0..clock :
         pending' = [pending EXCEPT ![w] = @ \cup {NewRow(w, at)}]
    /\ nextSeq' = nextSeq + 1
    /\ pc' = [pc EXCEPT ![w] = "idle"]
    /\ UNCHANGED <<rows, clock, prev, seen, since>>

\* INSERT, then the UPDATE that writes hash_chain_value: both flushed inside
\* the transaction, so no other session can see one without the other.
\* occurred_at was taken some time between the read and the insert.
InsertRow(w) ==
    /\ pc[w] = "building"
    /\ nextSeq \in Seqs
    /\ \E at \in since[w]..clock :
         pending' = [pending EXCEPT ![w] = @ \cup {NewRow(w, at)}]
    /\ nextSeq' = nextSeq + 1
    /\ pc' = [pc EXCEPT ![w] = "idle"]
    /\ UNCHANGED <<rows, clock, prev, seen, since>>

-----------------------------------------------------------------------------
(* The caller's transaction *)

Commit(w) ==
    /\ pc[w] = "idle" /\ pending[w] # {}
    /\ rows' = rows \cup pending[w]
    /\ pending' = [pending EXCEPT ![w] = {}]
    /\ UNCHANGED <<nextSeq, clock, pc, prev, seen, since>>

\* Exception, crash, or a session closed without a commit. The sequence is
\* not transactional: the numbers are spent.
Rollback(w) ==
    /\ pc[w] = "building" \/ pending[w] # {}
    /\ pending' = [pending EXCEPT ![w] = {}]
    /\ pc' = [pc EXCEPT ![w] = "idle"]
    /\ UNCHANGED <<rows, nextSeq, clock, prev, seen, since>>

Tick ==
    /\ clock < MaxClock
    /\ clock' = clock + 1
    /\ UNCHANGED <<rows, nextSeq, pc, prev, seen, since, pending>>

-----------------------------------------------------------------------------
Init ==
    /\ rows = {} /\ nextSeq = 1 /\ clock = 0
    /\ pc      = [w \in Writers |-> "idle"]
    /\ prev    = [w \in Writers |-> Genesis]
    /\ seen    = [w \in Writers |-> {}]
    /\ since   = [w \in Writers |-> 0]
    /\ pending = [w \in Writers |-> {}]

Next ==
    \/ Tick
    \/ \E w \in Writers : ReadLatest(w) \/ InsertRow(w) \/ Commit(w) \/ Rollback(w)

Spec == Init /\ [][Next]_vars

-----------------------------------------------------------------------------
(* Properties *)

\* Every variable has its type.
TypeOK ==
    /\ rows \subseteq AuditLog
    /\ nextSeq \in 1..MaxSeq + 1
    /\ clock \in Times
    /\ pc \in [Writers -> {"idle", "building"}]
    /\ prev \in [Writers -> Hash]
    /\ seen \in [Writers -> SUBSET Seqs]
    /\ since \in [Writers -> Times]
    /\ pending \in [Writers -> SUBSET AuditLog]

\* A committed row never points at a row that was rolled back: its prev_hash
\* is the genesis sentinel or the hash of an earlier committed row, so the
\* committed rows always form a tree rooted at genesis.
LinksResolve ==
    \A r \in rows :
        r.prev = Genesis \/ \E l \in rows : l.seq < r.seq /\ l.hash = r.prev

\* verify_chain can only fail between two neighbours whose writers overlapped:
\* a writer that had seen the row before its own is linked to it, whatever was
\* rolled back, numbered or committed in between.
BreaksOnlyBetweenOverlappingWriters ==
    \A p, r \in rows :
        Neighbours(p, r, rows) /\ p.seq \in r.seen => r.prev = p.hash

\* If the whole table verifies, then so does every window of occurred_at that
\* verify_chain(start, end) can be asked for, whatever the interleaving.
WindowsVerifyWithTable ==
    verify_chain(rows) =>
        \A start, end \in Times : verify_chain(InRange(rows, start, end))

\* What the documentation says of the table: prev_hash is "hash of the
\* previous row", so the untampered table verifies.
UntamperedTableVerifies == verify_chain(rows)

-----------------------------------------------------------------------------
(* The inductive invariant behind LinksResolve and                         *)
(* BreaksOnlyBetweenOverlappingWriters                                     *)

Inserted == rows \cup UNION {pending[w] : w \in Writers}

Below(r, S) == {l \in S : l.seq < r.seq}

\* p is what record() holds after it saw the rows numbered n: genesis, or the
\* hash of the row of S with the highest number it saw.
LinkedTo(p, n, S) ==
    \/ n = {} /\ p = Genesis
    \/ \E l \in S : l.seq \in n /\ l.hash = p /\ \A m \in n : m <= l.seq

\* Sequence numbers are handed out once, and never again after a rollback.
NumbersUnique ==
    /\ \A r \in Inserted : r.seq < nextSeq
    /\ \A q, r \in Inserted : q.seq = r.seq => q = r

HashesComputed == \A r \in Inserted : r.hash = chain_hash(r.prev, r.seq)

RowsLinked == \A r \in rows : LinkedTo(r.prev, r.seen, Below(r, rows))

PendingLinked ==
    \A w \in Writers : \A r \in pending[w] :
        LinkedTo(r.prev, r.seen, Below(r, Visible(w)))

SessionsLinked ==
    \A w \in Writers :
        pc[w] = "building" => LinkedTo(prev[w], seen[w], Visible(w))

IInv == TypeOK /\ NumbersUnique /\ HashesComputed
        /\ RowsLinked /\ PendingLinked /\ SessionsLinked
=============================================================================
