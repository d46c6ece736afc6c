------------------------------ MODULE Reporting -----------------------------
(***************************************************************************)
(* Actuals and account codes (domain/accounts), the consolidated report    *)
(* and the dashboard (domain/consolidation), for one cycle.  A report or a *)
(* dashboard reads table after table, each statement with a snapshot of    *)
(* its own, while uploads, imports, downloads and resubmit requests        *)
(* commit.  Uploads are rows that never change (VersionLog), so a reader   *)
(* keeps the version it saw; a figure is named by its upload.  The clock   *)
(* is the number of commits of other components: what happens while it is  *)
(* n - 1 happens at n, and a commit ends its n.                            *)
(***************************************************************************)
EXTENDS Scope, Sequences

CONSTANTS
    Units,          \* org_units
    Requests,       \* HTTP requests of this component
    Accounts,       \* account codes somebody may enter
    Parent,         \* org_units.parent_id
    Top,            \* the units of level 0000
    Aggregate,      \* the units of levels 1000, 0800, 0500 and 0000
    Filing,         \* is_filing_unit
    Excluded,       \* units excluded for the cycle
    MaxWrites       \* bound: uploads, downloads and resubmit requests

ASSUME ReportingAssumption ==
    /\ IsFiniteSet(Units) /\ NULL \notin Units \cup Accounts \cup Nat
    /\ Parent \in [Units -> Units \cup {NULL}]
    /\ Top \subseteq Aggregate /\ Aggregate \subseteq Units /\ Filing \subseteq Units
    /\ MaxWrites \in Nat

VARIABLES
    cycle,          \* budget_cycles.status
    accounts,       \* account codes in the table
    uploads,        \* budget_uploads: the versions of each unit
    costs,          \* personnel and shared cost uploads: the versions of each
    actuals,        \* actual_expenses, with the import that wrote each row
    templates,      \* excel_templates.download_count: none, 0, or more
    resubmits,      \* units with a row in resubmit_requests
    writes,         \* the clock: how many writes of other components there were
    req             \* the requests

outside == <<cycle, uploads, costs, templates, resubmits, writes>>
vars == <<cycle, accounts, uploads, costs, actuals, templates, resubmits, writes, req>>
-----------------------------------------------------------------------------
Keys == Units \X Accounts
Sources == {"personnel", "shared"}
Kinds == {"report", "dashboard", "actuals", "account"}
Statuses == {"resubmit_requested", "uploaded", "downloaded", "not_downloaded"}
Actual == [key: Keys, by: Requests]
Time == Nat \cup {NULL}
Stamps == [budget: Time, personnel: Time, shared: Time]

(* A version: its lines, uploaded_at, and (history) when it was committed. *)
Version(Lines) == [lines: Lines, at: Nat, done: Nat]

Request ==
    [kind: Kinds, pc: {"idle", "run", "count", "audit", "done", "failed"}, step: Nat,
     scope: SUBSET Units,
     had: SUBSET Units,              \* history: units that had submitted when it began
     budget: [Units -> Nat],         \* versions read, 0 where there is none
     personnel: Nat, shared: Nat,
     actuals: SUBSET Actual,         \* rows read (report) or to delete (import)
     accounts: SUBSET Accounts,      \* account codes read
     stamps: Stamps,                 \* the *_last_updated_at of the report
     unsubmitted: SUBSET Units, read: SUBSET Units, resubmits: SUBSET Units,
     sheet: SUBSET Keys,             \* the rows of an actuals file
     before: SUBSET Requests,        \* history: imports committed before its DELETE
     committed: BOOLEAN]             \* history

NoVersions == [u \in Units |-> 0]
Idle(kind) ==
    [kind |-> kind, pc |-> "idle", step |-> 1, scope |-> {}, had |-> {}, budget |-> NoVersions,
     personnel |-> 0, shared |-> 0, actuals |-> {}, accounts |-> {},
     stamps |-> [budget |-> NULL, personnel |-> NULL, shared |-> NULL],
     unsubmitted |-> {}, read |-> {}, resubmits |-> {}, sheet |-> {},
     before |-> {}, committed |-> FALSE]

Put(r, q) == req' = [req EXCEPT ![r] = q]
Committed == {r \in Requests : req[r].committed}
Versions == [u \in Units |-> Len(uploads[u])]
Submitted == {u \in Units : uploads[u] # <<>>}

(* What scoped_org_units can come to, for every user of some roles. *)
ScopesOf(roles) ==
    {scoped_org_units({role}, unit, Parent, Top) : role \in roles, unit \in Units \cup {NULL}}
-----------------------------------------------------------------------------
(* (mutant: the timestamps are read before the figures.) *)
StampsFirst == <<"stamps", "budget", "personnel", "shared", "actuals", "accounts">>

(* ConsolidatedReportService.build: its statements in order. *)
BuildOrder == <<"budget", "personnel", "shared", "actuals", "accounts", "stamps">>

(* The uploads of the cycle by descending version, across its units: any   *)
(* unit with as many versions as any other may come first.                 *)
LatestUnits == {u \in Submitted : \A v \in Units : Len(uploads[v]) <= Len(uploads[u])}

(* (mutant: the row is returned, not its uploaded_at.)                     *)
LatestBudgetRow == IF Submitted = {} THEN {NULL} ELSE LatestUnits

(* uploaded_at of the first of them.                                       *)
_latest_budget_ts ==
    IF Submitted = {} THEN {NULL} ELSE {uploads[u][Len(uploads[u])].at : u \in LatestUnits}

_latest_cost_ts(source) == IF costs[source] = <<>> THEN NULL ELSE costs[source][Len(costs[source])].at

(* What one of the statements can come to.                                 *)
Fetched(q, what) ==
    CASE what = "budget"    -> {[q EXCEPT !.budget = Versions]}
      [] what = "personnel" -> {[q EXCEPT !.personnel = Len(costs["personnel"])]}
      [] what = "shared"    -> {[q EXCEPT !.shared = Len(costs["shared"])]}
      [] what = "actuals"   -> {[q EXCEPT !.actuals = actuals]}
      [] what = "accounts"  -> {[q EXCEPT !.accounts = accounts]}
      [] what = "stamps"    -> {[q EXCEPT !.stamps = [budget    |-> time,
                                                      personnel |-> _latest_cost_ts("personnel"),
                                                      shared    |-> _latest_cost_ts("shared")]] :
                                  time \in _latest_budget_ts}

StartReport(r) ==
    /\ req[r].kind = "report" /\ req[r].pc = "idle"
    /\ \E scope \in ScopesOf(ScopedRoles) : Put(r, [req[r] EXCEPT !.pc = "run", !.scope = scope])
    /\ UNCHANGED <<outside, accounts, actuals>>

Build(r) ==
    LET q == req[r] IN
    /\ q.kind = "report" /\ q.pc = "run"
    /\ \E read \in Fetched(q, BuildOrder[q.step]) :
         Put(r, [read EXCEPT !.step = q.step + 1,
                             !.pc = IF q.step = Len(BuildOrder) THEN "done" ELSE "run"])
    /\ UNCHANGED <<outside, accounts, actuals>>

(* The maps a report has read, by key; 0 where a key is missing. *)
Lines(versions, n) == IF n = 0 THEN {} ELSE versions[n].lines
BudgetMap(q) == {k \in Keys : k[2] \in Lines(uploads[k[1]], q.budget[k[1]])}
CostMap(q, source) == Lines(costs[source], q[source])
ActualMap(q) == {a.key : a \in q.actuals}

(* _build_row: which figures a row carries.  Personnel and shared costs    *)
(* only show at the aggregate levels; the delta needs both sides.          *)
_build_row(q, k) ==
    [unit      |-> k[1], account |-> k[2],
     budget    |-> IF k \in BudgetMap(q) THEN q.budget[k[1]] ELSE 0,
     personnel |-> IF k[1] \in Aggregate /\ k \in CostMap(q, "personnel") THEN q.personnel ELSE 0,
     shared    |-> IF k[1] \in Aggregate /\ k \in CostMap(q, "shared") THEN q.shared ELSE 0,
     actual    |-> k \in ActualMap(q),
     delta     |-> k \in BudgetMap(q) \cap ActualMap(q)]

(* The row of a unit without budget lines. *)
NotUploaded(u) ==
    [unit |-> u, account |-> NULL, budget |-> 0, personnel |-> 0, shared |-> 0,
     actual |-> FALSE, delta |-> FALSE]

(* (mutant: a unit that has uploaded gets no placeholder, though the       *)
(* upload may have no lines.)                                              *)
RowsByUpload(q) ==
    LET keys == BudgetMap(q) \cup CostMap(q, "personnel") \cup CostMap(q, "shared") \cup ActualMap(q)
    IN  {_build_row(q, k) : k \in {k \in keys : k[1] \in q.scope /\ k[2] \in q.accounts}}
        \cup {NotUploaded(u) : u \in {u \in q.scope : q.budget[u] = 0}}

(* build: a row for every key of the four maps whose unit is in scope and  *)
(* whose account is known, and a placeholder for every unit in scope       *)
(* without a budget line.                                                  *)
Rows(q) ==
    LET keys == BudgetMap(q) \cup CostMap(q, "personnel") \cup CostMap(q, "shared") \cup ActualMap(q)
    IN  {_build_row(q, k) : k \in {k \in keys : k[1] \in q.scope /\ k[2] \in q.accounts}}
        \cup {NotUploaded(u) : u \in {u \in q.scope : ~\E a \in Accounts : <<u, a>> \in BudgetMap(q)}}
-----------------------------------------------------------------------------
(* status_for_user: a draft, or a scope without filing units, is answered  *)
(* with no items; a CompanyReviewer gets counts; otherwise _collect_rows   *)
(* reads unsubmitted units, latest uploads, templates and resubmit         *)
(* requests.  (InfraError makes an empty page, marked as stale.)           *)
StartDashboard(r) ==
    LET q == [req[r] EXCEPT !.had = Submitted] IN
    /\ q.kind = "dashboard" /\ q.pc = "idle"
    /\ \/ cycle = "draft" /\ Put(r, [q EXCEPT !.pc = "failed"])
       \/ cycle # "draft" /\ Put(r, [q EXCEPT !.pc = "count"])
       \/ /\ cycle # "draft"
          /\ \E scope \in ScopesOf(ScopedRoles \ {"CompanyReviewer"}) :
               Put(r, [q EXCEPT !.scope = scope,
                                !.pc = IF scope \cap Filing = {} THEN "failed" ELSE "run"])
    /\ UNCHANGED <<outside, accounts, actuals>>

(* _build_summary_response: all filing units, and their uploads. *)
_build_summary_response(r) ==
    /\ req[r].pc = "count"
    /\ Put(r, [req[r] EXCEPT !.pc = "done", !.budget = Versions])
    /\ UNCHANGED <<outside, accounts, actuals>>

(* (mutant: a unit counts as unsubmitted until its latest upload has       *)
(* lines.)                                                                 *)
WithoutLines ==
    {u \in Filing \ (Top \cup Excluded) : Lines(uploads[u], Len(uploads[u])) = {}}

(* unsubmitted_for_cycle: the query reminders use too. *)
unsubmitted_for_cycle ==
    {u \in Filing \ (Top \cup Excluded) : uploads[u] = <<>>}

Collect(r) ==
    LET q == req[r] IN
    /\ q.kind = "dashboard" /\ q.pc = "run"
    /\ Put(r, CASE q.step = 1 -> [q EXCEPT !.step = 2, !.unsubmitted = unsubmitted_for_cycle]
                [] q.step = 2 -> [q EXCEPT !.step = 3, !.budget = Versions]
                [] q.step = 3 -> [q EXCEPT !.step = 4,
                                           !.read = {u \in Units : templates[u] = "downloaded"}]
                [] q.step = 4 -> [q EXCEPT !.pc = "done", !.resubmits = resubmits])
    /\ UNCHANGED <<outside, accounts, actuals>>

(* _collect_rows: the status of a unit. *)
Status(q, u) ==
    IF u \in q.resubmits THEN "resubmit_requested"
    ELSE IF q.budget[u] # 0 /\ u \notin q.unsubmitted THEN "uploaded"
    ELSE IF u \in q.read THEN "downloaded" ELSE "not_downloaded"

Items(q) == {[unit |-> u, status |-> Status(q, u), version |-> q.budget[u]] : u \in q.scope \cap Filing}
-----------------------------------------------------------------------------
(* AccountService.upsert: an unknown code is inserted, a known one gets    *)
(* its name, category and level, which nothing here tells apart.  Two      *)
(* first inserts of a code: the unique index refuses the second.           *)
ReadAccount(r) ==
    /\ req[r].kind = "account" /\ req[r].pc = "idle"
    /\ \E a \in Accounts : Put(r, [req[r] EXCEPT !.pc = "run", !.sheet = {<<u, a>> : u \in Units},
                                                 !.accounts = accounts])
    /\ UNCHANGED <<outside, accounts, actuals>>

upsert(r) ==
    LET q == req[r]  code == {k[2] : k \in q.sheet} IN
    /\ q.kind = "account" /\ q.pc = "run"
    /\ code \subseteq q.accounts \/ code \cap accounts = {}
    /\ accounts' = accounts \cup code
    /\ Put(r, [q EXCEPT !.pc = "audit"])
    /\ UNCHANGED <<outside, actuals>>
-----------------------------------------------------------------------------
(* import_actuals: the cycle has to be open; the file is read and checked  *)
(* against the account codes there are now, as ImportRules says.           *)
StartImport(r) ==
    LET q == req[r] IN
    /\ q.kind = "actuals" /\ q.pc = "idle"
    /\ \E sheet \in SUBSET Keys :
         Put(r, [q EXCEPT !.sheet = sheet,
                          !.pc = IF cycle = "open" /\ sheet # {} THEN "run" ELSE "failed"])
    /\ UNCHANGED <<outside, accounts, actuals>>

Validate(r) ==
    LET q == req[r] IN
    /\ q.kind = "actuals" /\ q.pc = "run" /\ q.step = 1
    /\ Put(r, [q EXCEPT !.step = 2, !.pc = IF \A k \in q.sheet : k[2] \in accounts
                                              THEN "run" ELSE "failed"])
    /\ UNCHANGED <<outside, accounts, actuals>>

(* DELETE of the cycle's rows: those its snapshot shows.  It waits for     *)
(* another import that holds them, and finds them gone.                    *)
DeleteOld(r) ==
    LET q == req[r] IN
    /\ q.kind = "actuals" /\ q.pc = "run" /\ q.step = 2
    /\ Put(r, [q EXCEPT !.step = 3, !.actuals = actuals, !.before = Committed])
    /\ UNCHANGED <<outside, accounts, actuals>>

(* (mutant: the rows of the units in the file are replaced, no others.) *)
KeptOtherUnits(q) ==
    {a \in actuals : a \notin q.actuals \/ a.key[1] \notin {k[1] : k \in q.sheet}}

(* What stays of the table: rows another import committed since the DELETE. *)
Kept(q) == actuals \ q.actuals

(* The INSERTs and the commit; the unique key of cycle, unit and account   *)
(* refuses a row another import has committed in between.                  *)
CommitImport(r) ==
    LET q == req[r] IN
    /\ q.kind = "actuals" /\ q.pc = "run" /\ q.step = 3
    /\ \A a \in Kept(q) : a.key \notin q.sheet
    /\ actuals' = Kept(q) \cup {[key |-> k, by |-> r] : k \in q.sheet}
    /\ Put(r, [q EXCEPT !.pc = "audit", !.committed = TRUE])
    /\ UNCHANGED <<outside, accounts>>

(* The audit row and its commit. *)
Audit(r) ==
    /\ req[r].pc = "audit"
    /\ Put(r, [req[r] EXCEPT !.pc = "done"])
    /\ UNCHANGED <<outside, accounts, actuals>>

(* A statement or a commit fails: what is not committed is gone.  (A       *)
(* report or a dashboard that fails is one that never finishes.)           *)
Fail(r) ==
    LET q == req[r] IN
    /\ q.kind \in {"actuals", "account"} /\ q.pc \in {"run", "audit"}
    /\ Put(r, [(IF q.committed THEN q ELSE Idle(q.kind)) EXCEPT !.pc = "failed"])
    /\ UNCHANGED <<outside, accounts, actuals>>
-----------------------------------------------------------------------------
(* What the other components commit meanwhile. *)
Elsewhere ==
    /\ writes < MaxWrites /\ writes' = writes + 1
    /\ UNCHANGED <<accounts, actuals, req>>

(* The next version of a series.  Its number was taken before uploaded_at, *)
(* and is only free because the versions before had been committed.        *)
NextVersions(versions, lines) ==
    LET from == IF versions = <<>> THEN 1 ELSE versions[Len(versions)].done + 1
    IN  {Append(versions, [lines |-> lines, at |-> time, done |-> writes + 1]) :
            time \in from..(writes + 1)}

Submit ==
    /\ Elsewhere /\ cycle = "open"
    /\ \E u \in Filing, lines \in SUBSET accounts :
         \E versions \in NextVersions(uploads[u], lines) :
           uploads' = [uploads EXCEPT ![u] = versions]
    /\ UNCHANGED <<cycle, costs, templates, resubmits>>

ImportCosts ==
    /\ Elsewhere /\ cycle = "open"
    /\ \E source \in Sources, units \in SUBSET Units :
         \E versions \in NextVersions(costs[source], {k \in Keys : k[1] \in units /\ k[2] \in accounts}) :
           costs' = [costs EXCEPT ![source] = versions]
    /\ UNCHANGED <<cycle, uploads, templates, resubmits>>

Template ==
    /\ Elsewhere
    /\ \E u \in Filing : templates' = [templates EXCEPT ![u] =
                                         IF @ = "none" THEN "generated" ELSE "downloaded"]
    /\ UNCHANGED <<cycle, uploads, costs, resubmits>>

AskAgain ==
    /\ Elsewhere
    /\ \E u \in Filing \ resubmits : resubmits' = resubmits \cup {u}
    /\ UNCHANGED <<cycle, uploads, costs, templates>>

MoveCycle ==
    /\ Elsewhere
    /\ \E move \in {<<"draft", "open">>, <<"open", "closed">>, <<"closed", "open">>} :
         cycle = move[1] /\ cycle' = move[2]
    /\ UNCHANGED <<uploads, costs, templates, resubmits>>

(* A draft, or a cycle under way in which some units have submitted before *)
(* the clock starts.                                                       *)
Init ==
    /\ cycle \in {"draft", "open"}
    /\ accounts \in {Accounts, {}}
    /\ uploads \in [Units -> {<<>>, <<[lines |-> accounts, at |-> 0, done |-> 0]>>}]
    /\ \A u \in Units : uploads[u] # <<>> => cycle = "open" /\ u \in Filing
    /\ costs = [s \in Sources |-> <<>>]
    /\ actuals = {}
    /\ templates = [u \in Units |-> "none"]
    /\ resubmits = {} /\ writes = 0
    /\ req \in [Requests -> {Idle(k) : k \in Kinds}]

Next ==
    \/ \E r \in Requests :
         \/ StartReport(r) \/ Build(r)
         \/ StartDashboard(r) \/ _build_summary_response(r) \/ Collect(r)
         \/ ReadAccount(r) \/ upsert(r)
         \/ StartImport(r) \/ Validate(r) \/ DeleteOld(r) \/ CommitImport(r)
         \/ Audit(r) \/ Fail(r)
    \/ Submit \/ ImportCosts \/ Template \/ AskAgain \/ MoveCycle

Spec == Init /\ [][Next]_vars
-----------------------------------------------------------------------------
TypeOK ==
    /\ cycle \in {"draft", "open", "closed"}
    /\ accounts \subseteq Accounts
    /\ uploads \in [Units -> Seq(Version(SUBSET Accounts))]
    /\ costs \in [Sources -> Seq(Version(SUBSET Keys))]
    /\ actuals \subseteq Actual
    /\ templates \in [Units -> {"none", "generated", "downloaded"}]
    /\ resubmits \subseteq Units
    /\ writes \in 0..MaxWrites
    /\ req \in [Requests -> Request]

Finished(kind) == {req[r] : r \in {r \in Requests : req[r].kind = kind /\ req[r].pc = "done"}}

(* A finished report has a row for every unit its reader may see, and for  *)
(* no other unit; and a unit is a placeholder exactly if no budget figure  *)
(* of it is shown.                                                         *)
ReportCoversScope ==
    \A q \in Finished("report") :
      LET rows == Rows(q) IN
      /\ {row.unit : row \in rows} = q.scope
      /\ \A u \in q.scope :
           NotUploaded(u) \in rows <=> \A row \in rows : row.unit = u => row.budget = 0

(* What the timestamps of a finished report promise, whatever was uploaded *)
(* while it was built.  No personnel or shared cost figure was uploaded    *)
(* later than the timestamp says.  That of the budgets is the time of some *)
(* version of some unit, whose own figures are no newer, and no figure is  *)
(* of a higher version; but one of another unit may well be newer.         *)
StampCoversFigures ==
    \A q \in Finished("report") :
      LET rows == Rows(q) IN
      /\ \A source \in Sources, row \in rows :
           row[source] # 0 => /\ q.stamps[source] # NULL
                              /\ costs[source][row[source]].at <= q.stamps[source]
      /\ (\E row \in rows : row.budget # 0) =>
           \E u \in Units : \E n \in DOMAIN uploads[u] :
             /\ q.stamps.budget = uploads[u][n].at
             /\ \A row \in rows :
                  /\ row.budget <= n
                  /\ row.unit = u /\ row.budget # 0
                     => uploads[u][row.budget].at <= q.stamps.budget

(* The actuals are those of one import; rows of two stand side by side     *)
(* only if neither had committed when the other deleted.  And an import    *)
(* that has committed is there with all of its file or not at all, in the  *)
(* table and in every report.                                              *)
ActualsOfOneImport ==
    \A table \in {actuals} \cup {q.actuals : q \in Finished("report")} :
      \A a, b \in table :
        /\ a.by \notin req[b.by].before
        /\ {c.key : c \in {c \in table : c.by = a.by}} = req[a.by].sheet

(* The dashboard shows every unit of the scope that had submitted before   *)
(* it was asked for as uploaded, with a version, or as asked to resubmit;  *)
(* and the counts have it among the uploaded.                              *)
SubmittedIsShown ==
    \A q \in Finished("dashboard") :
      /\ q.had \subseteq {u \in Filing : q.budget[u] # 0}
      /\ \A item \in Items(q) :
           item.unit \in q.had
           => item.version # 0 /\ item.status \in {"uploaded", "resubmit_requested"}
=============================================================================
