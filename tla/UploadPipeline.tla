--------------------------- MODULE UploadPipeline ---------------------------
(***************************************************************************)
(* The versioned importers: BudgetUploadService.upload,                    *)
(* PersonnelImportService.import_ and SharedCostImportService.import_.     *)
(*                                                                         *)
(* The three share one pipeline.  The cycle's status is checked in the     *)
(* first statement and never again; the file is written to disk outside    *)
(* the transaction; the version is MAX(version) + 1 over committed rows;   *)
(* header and lines are committed together, under a UNIQUE constraint on   *)
(* the version; the audit row follows in a transaction of its own.         *)
(* Meanwhile the cycle moves as CycleStatus says.                          *)
(***************************************************************************)
EXTENDS Naturals

CONSTANTS
    Sessions,         \* concurrent request sessions
    Cycles, YearOf,   \* cycle ids and their fiscal years
    Series,           \* version series
    CycleOf,          \* CycleOf[k]: the cycle of series k
    KindOf,           \* KindOf[k]: the importer that writes series k
    Docs,             \* bound: documents, each sent once
    MaxVersion        \* bound: versions of a series

ASSUME UploadAssumption ==
    /\ CycleOf \in [Series -> Cycles]
    /\ KindOf \in [Series -> {"budget", "personnel", "shared"}]
    /\ MaxVersion \in Nat

VARIABLES
    status,      \* committed status per cycle
    uploads,     \* committed upload headers with their lines
    files,       \* documents on disk
    audited,     \* documents whose audit row is committed
    req,         \* the request each session is running
    admitted     \* history: per cycle, the documents that were accepted or
                 \* under way when the cycle was last closed

vars == <<status, uploads, files, audited, req, admitted>>

C == INSTANCE CycleStatus

Versions == 1..MaxVersion

\* doc stands for the request's content, and for the key it is stored under.
\* base is the version a shared cost import was compared with.
Upload  == [series: Series, version: Versions, doc: Docs, base: Versions \cup {0}]
Phases  == {"checked", "compared", "saved", "numbered", "auditing"}
Running == [pc: Phases, series: Series, doc: Docs, base: Versions \cup {0},
            version: Versions \cup {0}]
Idle    == [pc |-> "idle"]

Of(k) == {u \in uploads : u.series = k}

\* n is MAX(version) of series k, 0 when it has no row.
IsMax(n, k) ==
    /\ \A u \in Of(k) : u.version <= n
    /\ n = 0 \/ \E u \in Of(k) : u.version = n

UnderWay == {s \in Sessions : req[s].pc # "idle"}
Sent     == files \cup {req[s].doc : s \in UnderWay}

-----------------------------------------------------------------------------
(* The order of the steps in each handler, after assert_open *)

\* upload: validate, save, number, persist, audit.
BudgetSteps == {<<"checked", "saved">>, <<"saved", "numbered">>, <<"numbered", "auditing">>}

\* import_ of personnel: parse, validate, summarise, save, number, persist, audit.
PersonnelSteps == {<<"checked", "saved">>, <<"saved", "numbered">>, <<"numbered", "auditing">>}

\* import_ of shared costs: parse, validate, compare with the latest version,
\* save, number, persist, audit.
SharedCostSteps == {<<"checked", "compared">>, <<"compared", "saved">>,
                    <<"saved", "numbered">>, <<"numbered", "auditing">>}

StepsOf(k) == CASE KindOf[k] = "budget" -> BudgetSteps
                [] KindOf[k] = "personnel" -> PersonnelSteps
                [] KindOf[k] = "shared" -> SharedCostSteps

\* The handler of session s goes on to phase p.
Reaches(s, p) ==
    /\ req[s].pc \in Phases
    /\ <<req[s].pc, p>> \in StepsOf(req[s].series)

-----------------------------------------------------------------------------
(* One request *)

\* (mutant: the cycle only has to exist)
AssertExists(s, k) ==
    /\ req[s].pc = "idle"
    /\ status[CycleOf[k]] # "absent"
    /\ \E d \in Docs \ Sent :
         req' = [req EXCEPT ![s] = [pc |-> "checked", series |-> k, doc |-> d,
                                    base |-> 0, version |-> 0]]
    /\ UNCHANGED <<status, uploads, files, audited, admitted>>

\* cycles.assert_open(cycle_id), the first statement.
AssertOpen(s, k) ==
    /\ req[s].pc = "idle"
    /\ status[CycleOf[k]] = "open"
    /\ \E d \in Docs \ Sent :
         req' = [req EXCEPT ![s] = [pc |-> "checked", series |-> k, doc |-> d,
                                    base |-> 0, version |-> 0]]
    /\ UNCHANGED <<status, uploads, files, audited, admitted>>

\* (mutant: without the cycle_id filter)
ReadLatestOfAll(s) ==
    /\ Reaches(s, "compared")
    /\ \E n \in Versions \cup {0} :
         /\ \A u \in uploads : u.version <= n
         /\ n = 0 \/ \E u \in uploads : u.version = n
         /\ req' = [req EXCEPT ![s].pc = "compared", ![s].base = n]
    /\ UNCHANGED <<status, uploads, files, audited, admitted>>

\* Shared costs: the latest version, from which the affected units and the
\* stored summary are computed.
ReadLatest(s) ==
    /\ Reaches(s, "compared")
    /\ \E n \in Versions \cup {0} :
         /\ IsMax(n, req[s].series)
         /\ req' = [req EXCEPT ![s].pc = "compared", ![s].base = n]
    /\ UNCHANGED <<status, uploads, files, audited, admitted>>

\* (mutant: a failed write is swallowed)
SaveFileBestEffort(s) ==
    /\ Reaches(s, "saved")
    /\ files' \in {files, files \cup {req[s].doc}}
    /\ req' = [req EXCEPT ![s].pc = "saved"]
    /\ UNCHANGED <<status, uploads, audited, admitted>>

\* storage.save, once the content is valid.
SaveFile(s) ==
    /\ Reaches(s, "saved")
    /\ files' = files \cup {req[s].doc}
    /\ req' = [req EXCEPT ![s].pc = "saved"]
    /\ UNCHANGED <<status, uploads, audited, admitted>>

\* (mutant: MAX(version) without the + 1)
CurrentVersion(s) ==
    /\ Reaches(s, "numbered")
    /\ \E n \in Versions \cup {0} :
         /\ IsMax(n, req[s].series)
         /\ req' = [req EXCEPT ![s].pc = "numbered", ![s].version = n]
    /\ UNCHANGED <<status, uploads, files, audited, admitted>>

\* next_version: MAX(version) + 1 over the committed rows.
next_version(s) ==
    /\ Reaches(s, "numbered")
    /\ \E n \in Versions \cup {0} :
         /\ IsMax(n, req[s].series)
         /\ n + 1 \in Versions
         /\ req' = [req EXCEPT ![s].pc = "numbered", ![s].version = n + 1]
    /\ UNCHANGED <<status, uploads, files, audited, admitted>>

\* (mutant: no UNIQUE constraint)
VersionNotUnique(k, n) == TRUE

\* uq_..._version: one row per series and version.
VersionFree(k, n) == \A u \in Of(k) : u.version # n

\* INSERT of the header and the lines, COMMIT. A concurrent INSERT of the same
\* version waits for this commit and then fails.
Persist(s) ==
    LET r == req[s] IN
    /\ Reaches(s, "auditing")
    /\ VersionFree(r.series, r.version)
    /\ uploads' = uploads \cup {[series |-> r.series, version |-> r.version,
                                 doc |-> r.doc, base |-> r.base]}
    /\ req' = [req EXCEPT ![s].pc = "auditing"]
    /\ UNCHANGED <<status, files, audited, admitted>>

\* (mutant: audits what is not persisted yet)
FinishEarly(s) ==
    /\ req[s].pc \in {"numbered", "auditing"}
    /\ audited' = IF KindOf[req[s].series] = "shared" THEN audited
                  ELSE audited \cup {req[s].doc}
    /\ req' = [req EXCEPT ![s] = Idle]
    /\ UNCHANGED <<status, uploads, files, admitted>>

\* audit.record, COMMIT, return. The shared cost import does not commit: its
\* audit row is rolled back when the session closes.
Finish(s) ==
    /\ req[s].pc = "auditing"
    /\ audited' = IF KindOf[req[s].series] = "shared" THEN audited
                  ELSE audited \cup {req[s].doc}
    /\ req' = [req EXCEPT ![s] = Idle]
    /\ UNCHANGED <<status, uploads, files, admitted>>

\* Validation errors, a version conflict (which no caller retries), any other
\* exception, a crash: what is not committed is rolled back. A file on disk
\* stays there.
Fail(s) ==
    /\ req[s].pc # "idle"
    /\ req' = [req EXCEPT ![s] = Idle]
    /\ UNCHANGED <<status, uploads, files, audited, admitted>>

-----------------------------------------------------------------------------
(* The cycles component *)

DocsOf(c) == {u.doc : u \in {v \in uploads : CycleOf[v.series] = c}}
             \cup {req[s].doc : s \in {t \in UnderWay : CycleOf[req[t].series] = c}}

MoveCycle(c, to) ==
    /\ C!Move(c, to)
    /\ admitted' = [admitted EXCEPT ![c] = IF to = "closed" THEN DocsOf(c) ELSE @]
    /\ UNCHANGED <<uploads, files, audited, req>>

-----------------------------------------------------------------------------
Init ==
    /\ C!Init
    /\ uploads = {} /\ files = {} /\ audited = {}
    /\ req = [s \in Sessions |-> Idle]
    /\ admitted = [c \in Cycles |-> {}]

Next ==
    \/ \E c \in Cycles, to \in C!CycleState : MoveCycle(c, to)
    \/ \E s \in Sessions :
         \/ \E k \in Series : AssertOpen(s, k)
         \/ ReadLatest(s) \/ SaveFile(s) \/ next_version(s)
         \/ Persist(s) \/ Finish(s) \/ Fail(s)

Spec == Init /\ [][Next]_vars

-----------------------------------------------------------------------------
(* Properties *)

\* Every variable has its type.
TypeOK ==
    /\ status \in [Cycles -> C!CycleState]
    /\ uploads \subseteq Upload
    /\ files \subseteq Docs
    /\ audited \subseteq Docs
    /\ req \in [Sessions -> Running \cup {Idle}]
    /\ admitted \in [Cycles -> SUBSET Docs]

\* Concurrent importers that number their uploads from what they read still
\* produce, per series, an append-only log without gaps: no accepted document
\* is overwritten, renumbered or accepted twice, and the highest version that
\* get_latest returns is the last one committed.
Length(k)   == CHOOSE n \in Versions \cup {0} : IsMax(n, k)
DocAt(k, v) == (CHOOSE u \in Of(k) : u.version = v).doc
Log         == [k \in Series |-> [v \in 1..Length(k) |-> DocAt(k, v)]]

V == INSTANCE VersionLog WITH log <- Log

ImplementsVersionLog == V!Spec

\* Once a cycle is closed, the documents that can still appear in it are those
\* whose requests were under way at that moment: a closed cycle admits no new
\* work, whatever is still running.
ClosedCycleAdmitsNoNewWork ==
    \A c \in Cycles : status[c] = "closed" => DocsOf(c) \subseteq admitted[c]

\* An accepted budget upload can be downloaded: its file was saved, and no
\* other upload points at the same file.
UploadsHaveTheirFiles ==
    /\ \A u \in uploads : u.doc \in files
    /\ \A u, v \in uploads : u.doc = v.doc => u = v

\* CR-006: no audit row tells of an upload that is not committed.
AuditTellsOnlyCommitted == audited \subseteq {u.doc : u \in uploads}

\* A shared cost import is compared with an earlier committed version, never
\* with itself or with one that came after it.
ComparedWithEarlier ==
    \A u \in uploads :
        u.base # 0 => u.base < u.version /\ \E v \in Of(u.series) : v.version = u.base

-----------------------------------------------------------------------------
(* The inductive invariant behind these properties *)

\* A document belongs to one request, and to one upload once it is persisted.
DocsDistinct ==
    /\ \A s, t \in UnderWay : s # t => req[s].doc # req[t].doc
    /\ \A u, v \in uploads : u.doc = v.doc => u = v

DocsFollowRequests ==
    /\ \A u \in uploads : u.doc \in files
    /\ \A s \in UnderWay :
         /\ req[s].pc \in {"checked", "compared"} <=> req[s].doc \notin files
         /\ req[s].pc = "auditing" <=> \E u \in uploads : u.doc = req[s].doc

VersionsUnique ==
    \A u, v \in uploads : u.series = v.series /\ u.version = v.version => u = v

\* All the versions below an upload's, or below the one a request holds, exist.
Filled(k, n) == \A m \in 1..n - 1 : \E u \in Of(k) : u.version = m

VersionsDense ==
    /\ \A u \in uploads : Filled(u.series, u.version)
    /\ \A s \in UnderWay : req[s].pc = "numbered" =>
          /\ req[s].version \in Versions /\ req[s].base < req[s].version
          /\ Filled(req[s].series, req[s].version)

BasesExist ==
    \A s \in UnderWay :
        req[s].base # 0 => \E u \in Of(req[s].series) : u.version = req[s].base

\* Every series has a MAX(version): what the refinement reads its length from.
TopsExist == \A k \in Series : \E n \in Versions \cup {0} : IsMax(n, k)

IInv == /\ TypeOK /\ TopsExist /\ DocsDistinct /\ DocsFollowRequests
        /\ VersionsUnique /\ VersionsDense /\ BasesExist
        /\ ClosedCycleAdmitsNoNewWork /\ AuditTellsOnlyCommitted /\ ComparedWithEarlier

-----------------------------------------------------------------------------
(* What the documentation says, and the code does not do *)

\* FR-023 / CR-006: an import that returns has been audited.
SuccessIsAudited == [][\A s \in Sessions : Finish(s) => req[s].doc \in audited']_vars
=============================================================================
