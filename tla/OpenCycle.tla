----------------------------- MODULE OpenCycle ------------------------------
(***************************************************************************)
(* The opening of a cycle, with all that hangs on it: the manager gate and *)
(* the exclusions it looks at (cycles/service.py, filing_units.py,         *)
(* exclusions.py, admin/org_units.py), the templates                       *)
(* (domain/templates), the orchestrator that opens, generates and mails    *)
(* (api/v1/orchestrators/open_cycle.py), the reminder job, and the mails   *)
(* themselves (Notifications).                                             *)
(*                                                                         *)
(* Every statement reads what is committed; a row in excel_templates is    *)
(* named by the request that wrote it.  Audit rows are kept for mails      *)
(* only: elsewhere they follow the commit they tell of and change nothing  *)
(* here, but in _generate_single_unit, where one that fails counts as a    *)
(* failed generation.                                                      *)
(***************************************************************************)
EXTENDS Notifications

CONSTANTS
    Cycles, This,    \* cycles a unit may be excluded from; the one looked at
    Wired,           \* open_cycle is given a notification service
    MaxMoves         \* bound: changes by other components

ASSUME OpenCycleAssumption ==
    /\ This \in Cycles /\ Wired \in BOOLEAN /\ MaxMoves \in Nat
    /\ NULL \notin (Requests \cup {Earlier}) \X BOOLEAN

VARIABLES
    cycle,           \* budget_cycles.status of This
    excluded,        \* org_units.excluded_for_cycle_ids
    managed,         \* units with an active user in a manager's role
    templates,       \* excel_templates, per unit
    files,           \* template files, named like the mails
    served,          \* history: committed downloads of each file
    moves,
    req

vars == <<cycle, excluded, managed, templates, files, served, moves, req, mailvars>>
-----------------------------------------------------------------------------
Lists == {"exclude", "patch"}
Kinds == {"none", "open", "regenerate", "download"} \cup Lists

Template == [by: Requests \cup {Earlier}, good: BOOLEAN, count: Nat]
Ident(t) == IF t = NULL THEN NULL ELSE <<t.by, t.good>>

Request ==
    [kind: Kinds,
     pc: {"idle", "units", "users", "write", "generate", "delete", "insert", "audit",
          "error", "errorinsert", "dispatch", "mails", "done", "failed", "aborted"},
     unit: Units \cup {NULL},
     exempt: SUBSET Units,                   \* units read as excluded
     todo: SUBSET Units,                     \* units to generate for
     generated: SUBSET Units,                \* results with status generated
     errors: SUBSET Units,                   \* results with status error
     row: {NULL} \cup Template,              \* the template row read
     list: SUBSET Cycles, wanted: SUBSET Cycles,   \* exclusions read, and to write
     flag: BOOLEAN, about: Cycles,           \* apply_exclusion's arguments
     changed: SUBSET Units,                  \* history: changed since the gate read
     before: SUBSET Requests,                \* history: committed when it read
     over: SUBSET Requests,                  \* history: whose lists its own replaced
     committed: BOOLEAN]

Idle(kind) ==
    [kind |-> kind, pc |-> "idle", unit |-> NULL, exempt |-> {}, todo |-> {}, generated |-> {},
     errors |-> {}, row |-> NULL, list |-> {}, wanted |-> {}, flag |-> FALSE, about |-> This,
     changed |-> {}, before |-> {}, over |-> {}, committed |-> FALSE]

Put(r, q) == req' = [req EXCEPT ![r] = q]
Move(r, pc) == Put(r, [req[r] EXCEPT !.pc = pc])
At(r, pc) == req[r].pc = pc
Committed == {r \in Requests : req[r].committed}

admin == <<excluded, managed>>
rows == <<templates, files, served>>
-----------------------------------------------------------------------------
(* CycleService.open: the cycle row and the transition (a closed cycle     *)
(* passes it, see CycleLifecycle) ...                                      *)
ReadCycle(r) ==
    /\ req[r].kind = "open" /\ At(r, "idle")
    /\ Move(r, IF cycle \in {"draft", "closed"} THEN "units" ELSE "failed")
    /\ UNCHANGED <<cycle, admin, rows, moves, mailvars>>

(* ... list_filing_units: the units with their exclusions ... *)
ReadUnits(r) ==
    /\ req[r].kind = "open" /\ At(r, "units")
    /\ Put(r, [req[r] EXCEPT !.pc = "users", !.exempt = {u \in Units : This \in excluded[u]}])
    /\ UNCHANGED <<cycle, admin, rows, moves, mailvars>>

(* (mutant: one manager is enough for all.) *)
AllWithoutManager(exempt) == IF managed = {} THEN Units \ exempt ELSE {}

(* ... and their active users; a unit that is not excluded and has no      *)
(* manager ends it with CYCLE_002.                                         *)
Missing(exempt) == (Units \ exempt) \ managed

ReadUsers(r) ==
    /\ req[r].kind = "open" /\ At(r, "users")
    /\ Move(r, IF Missing(req[r].exempt) = {} THEN "write" ELSE "failed")
    /\ UNCHANGED <<cycle, admin, rows, moves, mailvars>>

(* The commit, whatever the status is by now; then the units that are not  *)
(* excluded are loaded again.                                              *)
CommitOpen(r) ==
    LET q == req[r] IN
    /\ q.kind = "open" /\ At(r, "write")
    /\ cycle' = "open"
    /\ Put(r, [q EXCEPT !.pc = IF q.exempt = Units THEN "dispatch" ELSE "generate",
                        !.todo = Units \ q.exempt, !.committed = TRUE])
    /\ UNCHANGED <<admin, rows, moves, mailvars>>

(* The regenerate route: any unit, whatever the cycle's status. *)
regenerate(r) ==
    /\ req[r].kind = "regenerate" /\ At(r, "idle")
    /\ \E u \in Units : Put(r, [req[r] EXCEPT !.pc = "generate", !.todo = {u}])
    /\ UNCHANGED <<cycle, admin, rows, moves, mailvars>>
-----------------------------------------------------------------------------
(* _generate_single_unit: the actuals are read, the workbook built and     *)
(* saved under a fresh key.                                                *)
Save(r) ==
    /\ At(r, "generate")
    /\ \E u \in req[r].todo :
         /\ files' = files \cup {<<r, u>>}
         /\ Put(r, [req[r] EXCEPT !.pc = "delete", !.unit = u])
    /\ UNCHANGED <<cycle, admin, templates, served, moves, mailvars>>

(* The DELETE of upsert_generated_row and upsert_error_row: the row it     *)
(* sees; it holds a lock on it until the commit.                           *)
Delete(r) ==
    LET q == req[r] IN
    /\ At(r, "delete") \/ At(r, "error")
    /\ Put(r, [q EXCEPT !.pc = IF q.pc = "delete" THEN "insert" ELSE "errorinsert",
                        !.row = templates[q.unit]])
    /\ UNCHANGED <<cycle, admin, rows, moves, mailvars>>

(* uq_templates_cycle_org: another request's row, committed since, refuses *)
(* the INSERT.                                                             *)
Unchanged(q) == Ident(templates[q.unit]) = Ident(q.row)

(* (mutant: the counter of the old row is kept.) *)
CountKept(r, good) ==
    [by |-> r, good |-> good, count |-> IF req[r].row = NULL THEN 0 ELSE req[r].row.count]

(* (mutant: the row is written without its status.) *)
RowWithoutStatus(r, good) == [by |-> r, good |-> NULL, count |-> 0]

NewRow(r, good) == [by |-> r, good |-> good, count |-> 0]

(* When a unit is through: the next one, or the end of the loop. *)
Onto(q) ==
    [q EXCEPT !.todo = @ \ {q.unit}, !.row = NULL,
              !.pc = IF q.todo # {q.unit} THEN "generate"
                     ELSE IF q.kind = "open" THEN "dispatch" ELSE "done"]

(* The INSERT and the commit. *)
Insert(r) ==
    LET q == req[r] IN
    /\ At(r, "insert") /\ Unchanged(q)
    /\ templates' = [templates EXCEPT ![q.unit] = NewRow(r, TRUE)]
    /\ Move(r, "audit")
    /\ UNCHANGED <<cycle, admin, files, served, moves, mailvars>>

(* TEMPLATE_GENERATE and its commit. *)
AuditRow(r) ==
    LET q == req[r] IN
    /\ At(r, "audit")
    /\ Put(r, [Onto(q) EXCEPT !.generated = @ \cup {q.unit}])
    /\ UNCHANGED <<cycle, admin, rows, moves, mailvars>>

(* except Exception: any of these steps fails, the audit row's included.   *)
(* The rollback expires the cycle and the unit; what the log line then     *)
(* reads of them is a database access in the wrong place, which raises and *)
(* ends the request (aborted).  With a session that expires nothing, as    *)
(* the tests have it, _persist_error_result goes on.                       *)
GenerationFails(r) ==
    /\ req[r].pc \in {"generate", "delete", "insert", "audit"}
    /\ \E u \in IF At(r, "generate") THEN req[r].todo ELSE {req[r].unit} :
         Put(r, [req[r] EXCEPT !.pc = "aborted", !.unit = u])
         \/ Put(r, [req[r] EXCEPT !.pc = "error", !.unit = u])
    /\ UNCHANGED <<cycle, admin, rows, moves, mailvars>>

(* The error row, which takes the place of any other. *)
InsertError(r) ==
    LET q == req[r] IN
    /\ At(r, "errorinsert") /\ Unchanged(q)
    /\ templates' = [templates EXCEPT ![q.unit] = NewRow(r, FALSE)]
    /\ Put(r, [Onto(q) EXCEPT !.errors = @ \cup {q.unit}])
    /\ UNCHANGED <<cycle, admin, files, served, moves, mailvars>>

(* Or there is none: best effort. *)
ErrorFails(r) ==
    LET q == req[r] IN
    /\ At(r, "error") \/ At(r, "errorinsert")
    /\ Put(r, [Onto(q) EXCEPT !.errors = @ \cup {q.unit}])
    /\ UNCHANGED <<cycle, admin, rows, moves, mailvars>>
-----------------------------------------------------------------------------
(* _resolve_recipients: the active users of the units that have their      *)
(* template, in whatever role, without those whose address does not read:  *)
(* the units that are left.                                                *)
RecipientsOf(q) == SUBSET q.generated

Dispatch(r) ==
    LET q == req[r] IN
    /\ q.kind = "open" /\ At(r, "dispatch")
    /\ \E units \in IF Wired THEN RecipientsOf(q) ELSE {{}} :
         PutPost(r, Batch("open", {<<r, u>> : u \in units}))
    /\ Move(r, "mails")
    /\ UNCHANGED <<cycle, admin, rows, moves, notes, mails, resubmits, noted>>

(* The response with its two summaries; what ended the mails is swallowed  *)
(* if it is an AppError, else it is a 500.                                 *)
Respond(r) ==
    /\ req[r].kind = "open" /\ At(r, "mails") /\ post[r].pc \in {"done", "failed"}
    /\ Move(r, "done") \/ Move(r, post[r].pc)
    /\ UNCHANGED <<cycle, admin, rows, moves, mailvars>>

(* dispatch_deadline_reminders for a cycle that is due: units that have    *)
(* not submitted and are not excluded, and their managers.                 *)
Remind(r) ==
    /\ post[r].kind = "remind" /\ post[r].pc = "idle" /\ cycle = "open"
    /\ \E unsubmitted \in SUBSET {u \in Units : This \notin excluded[u]} :
         PutPost(r, Batch("remind", {<<r, u>> : u \in unsubmitted \cap managed}))
    /\ UNCHANGED <<cycle, admin, rows, moves, req, notes, mails, resubmits, noted>>
-----------------------------------------------------------------------------
(* TemplateService.download: only a generated row is served ... *)
ReadTemplate(r) ==
    /\ req[r].kind = "download" /\ At(r, "idle")
    /\ \E u \in Units :
         LET t == templates[u] IN
         IF t # NULL /\ t.good /\ <<t.by, u>> \in files
         THEN Put(r, [req[r] EXCEPT !.pc = "write", !.unit = u, !.row = t])
         ELSE Move(r, "failed")
    /\ UNCHANGED <<cycle, admin, rows, moves, mailvars>>

(* ... and its counter set to one more than was read, if the row is still  *)
(* there.                                                                  *)
CountDownload(r) ==
    LET q == req[r] IN
    /\ q.kind = "download" /\ At(r, "write") /\ Unchanged(q)
    /\ templates' = [templates EXCEPT ![q.unit].count = q.row.count + 1]
    /\ served' = [served EXCEPT ![<<q.row.by, q.unit>>] = @ + 1]
    /\ Move(r, "done")
    /\ UNCHANGED <<cycle, admin, files, moves, mailvars>>
-----------------------------------------------------------------------------
(* apply_exclusion and patch_org_unit: the unit's list is read ... *)
ReadUnit(r) ==
    /\ req[r].kind \in Lists /\ At(r, "idle")
    /\ \E u \in Units, c \in Cycles, flag \in BOOLEAN, list \in SUBSET Cycles :
         /\ IF req[r].kind = "patch" THEN c = This /\ ~flag ELSE list = {}
         /\ Put(r, [req[r] EXCEPT !.pc = "write", !.unit = u, !.about = c, !.flag = flag,
                                  !.list = excluded[u], !.wanted = list, !.before = Committed])
    /\ UNCHANGED <<cycle, admin, rows, moves, mailvars>>

(* (mutant: the patch adds to the list.) *)
ListMerged(q) ==
    IF q.kind = "patch" THEN q.list \cup q.wanted
    ELSE IF q.flag THEN q.list \cup {q.about} ELSE q.list \ {q.about}

(* ... a cycle added to it or taken out, or another list put in its place. *)
NewList(q) ==
    IF q.kind = "patch" THEN q.wanted
    ELSE IF q.flag THEN q.list \cup {q.about} ELSE q.list \ {q.about}

(* What an admin change means to the requests past their gate. *)
Touch(f, u) ==
    [s \in Requests |-> IF f[s].pc \in {"users", "write"} /\ f[s].kind = "open"
                        THEN [f[s] EXCEPT !.changed = @ \cup {u}] ELSE f[s]]

(* The commit.  The column is in the UPDATE only if its value is another   *)
(* than the one read: a request that changes nothing found it so when it   *)
(* read, and replaces nobody's list that came after.                       *)
CommitList(r) ==
    LET q == req[r]
        written == NewList(q) # q.list
    IN
    /\ q.kind \in Lists /\ At(r, "write")
    /\ excluded' = [excluded EXCEPT ![q.unit] = IF written THEN NewList(q) ELSE @]
    /\ req' = Touch([req EXCEPT ![r] = [q EXCEPT !.pc = "done", !.committed = TRUE,
                                          !.over = IF written THEN Committed ELSE q.before]],
                    q.unit)
    /\ UNCHANGED <<cycle, managed, rows, moves, mailvars>>

(* A request ends before its commit, or between two of them. *)
Fail(r) ==
    /\ req[r].pc \in {"units", "users", "write", "dispatch"}
    /\ Move(r, "failed")
    /\ UNCHANGED <<cycle, admin, rows, moves, mailvars>>
-----------------------------------------------------------------------------
Elsewhere == moves < MaxMoves /\ moves' = moves + 1

(* Users are deactivated, activated and moved. *)
Staff ==
    /\ Elsewhere
    /\ \E u \in Units :
         managed' = (managed \ {u}) \cup ({u} \ managed) /\ req' = Touch(req, u)
    /\ UNCHANGED <<cycle, excluded, rows, mailvars>>

(* The cycle is closed or reopened. *)
MoveCycle ==
    /\ Elsewhere
    /\ \/ cycle = "open" /\ cycle' = "closed"
       \/ cycle = "closed" /\ cycle' = "open"
    /\ UNCHANGED <<admin, rows, req, mailvars>>

Init ==
    /\ cycle \in {"draft", "open"}
    /\ excluded \in [Units -> SUBSET Cycles]
    /\ managed \in SUBSET Units
    /\ templates \in [Units -> {NULL, [by |-> Earlier, good |-> TRUE, count |-> 1]}]
    /\ files = {<<Earlier, u>> : u \in {v \in Units : templates[v] # NULL}}
    /\ served = [id \in Ids |-> IF id \in files THEN 1 ELSE 0]
    /\ moves = 0
    /\ req \in [Requests -> {Idle(k) : k \in Kinds}]
    /\ post \in [Requests -> {NoPost(k) : k \in PostKinds \ {"open"}}]
    /\ \A r \in Requests : req[r].kind = "none" <=> post[r].kind # "none"
    /\ MailInit

Next ==
    \/ \E r \in Requests :
         \/ ReadCycle(r) \/ ReadUnits(r) \/ ReadUsers(r) \/ CommitOpen(r)
         \/ regenerate(r) \/ Save(r) \/ Delete(r) \/ Insert(r) \/ AuditRow(r)
         \/ GenerationFails(r) \/ InsertError(r) \/ ErrorFails(r)
         \/ Dispatch(r) \/ Respond(r) \/ Remind(r)
         \/ ReadTemplate(r) \/ CountDownload(r)
         \/ ReadUnit(r) \/ CommitList(r)
         \/ Fail(r)
    \/ MailNext /\ UNCHANGED <<cycle, admin, rows, moves, req>>
    \/ Staff \/ MoveCycle

Spec == Init /\ [][Next]_vars
-----------------------------------------------------------------------------
TypeOK ==
    /\ cycle \in {"draft", "open", "closed"}
    /\ excluded \in [Units -> SUBSET Cycles]
    /\ managed \subseteq Units
    /\ templates \in [Units -> {NULL} \cup Template]
    /\ files \subseteq Ids
    /\ served \in [Ids -> Nat]
    /\ moves \in 0..MaxMoves
    /\ req \in [Requests -> Request]
    /\ MailTypeOK

(* When a request is about to commit the opening of the cycle, every unit  *)
(* is excluded or has a manager, but for those an administrator changed    *)
(* since the gate read them (CR-008).                                      *)
GateHolds ==
    \A r \in Requests :
      req[r].kind = "open" /\ At(r, "write")
      => \A u \in Units \ req[r].changed : This \in excluded[u] \/ u \in managed

(* What a request says of a cycle: an exclusion sets or lifts one, a patch *)
(* says of every cycle whether the unit is excluded.                       *)
Covers(q, c) == q.kind = "patch" \/ (q.kind = "exclude" /\ q.about = c)
Wants(q, c)  == IF q.kind = "patch" THEN c \in q.wanted ELSE q.flag

(* s committed after the change of r and for the same unit; it says the    *)
(* contrary, or it is about another cycle and had read the list before r   *)
(* had committed: the lost update of a list that is one column.            *)
Undoes(s, r, c) ==
    /\ s \in Committed \ req[r].over /\ req[s].unit = req[r].unit
    /\ \/ Covers(req[s], c) /\ Wants(req[s], c) # Wants(req[r], c)
       \/ req[s].kind = "exclude" /\ ~Covers(req[s], c) /\ r \notin req[s].before

(* What the last committed change says of a unit and a cycle holds,        *)
(* whatever changes run at a time: where it does not, a later one says the *)
(* contrary, or overlapped with it and is about another cycle.             *)
ExclusionsHold ==
    \A r \in Committed, c \in Cycles :
      LET q == req[r] IN
      q.kind \in Lists /\ Covers(q, c) /\ (c \in excluded[q.unit]) # Wants(q, c)
      => \E s \in Requests : Undoes(s, r, c)

(* A row that offers a template has its file, and its counter counts       *)
(* downloads of that file and of no other: none if there was none, and     *)
(* never more than there were (downloads at a time may count as one).      *)
TemplatesServe ==
    \A u \in Units :
      LET t == templates[u] IN
      t # NULL /\ t.good =>
        /\ <<t.by, u>> \in files
        /\ t.count <= served[<<t.by, u>>]
        /\ t.count = 0 => served[<<t.by, u>>] = 0

(* Every mail stands for something committed: a resubmission for its       *)
(* request, a row that says sent for a mail; and who is told that the      *)
(* cycle was opened has a template which that request has generated.       *)
MailsTellTheTruth ==
    /\ MailsAreBacked
    /\ \A r \in Requests, u \in Units :
         post[r].kind = "open" /\ <<r, u>> \in mails
         => u \in req[r].generated /\ <<r, u>> \in files /\ req[r].committed

(* What the specification of the templates says: a unit that fails is      *)
(* recorded as an error, and the generation is not aborted: no request     *)
(* ends while other units are still to be generated.                       *)
GenerationGoesOn ==
    \A r \in Requests : At(r, "aborted") => req[r].todo \subseteq {req[r].unit}
=============================================================================
