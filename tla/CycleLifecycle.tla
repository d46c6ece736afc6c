--------------------------- MODULE CycleLifecycle ---------------------------
(***************************************************************************)
(* CycleService (src/backend/src/app/domain/cycles/service.py): create,    *)
(* open, close, reopen and set_reminder_schedule, run by concurrent        *)
(* request sessions.                                                       *)
(*                                                                         *)
(* Each handler reads the cycle row in one statement, checks the values it *)
(* read, and writes them back in a later statement by primary key, with no *)
(* lock and no version check, at READ COMMITTED.  The database refuses a   *)
(* commit that breaks a unique index, and the request then fails.  After   *)
(* its commit the handler records an audit row and commits again.          *)
(***************************************************************************)
EXTENDS Naturals, Sequences, FiniteSets

CONSTANTS
    Sessions,          \* concurrent request sessions
    Ops,               \* operations that clients call
    Cycles, YearOf,    \* cycle ids and their fiscal years
    Days,              \* values a reminder schedule may hold
    DefaultDays,       \* _DEFAULT_REMINDER_DAYS
    Window,            \* settings.reopen_window_days
    NULL,              \* SQL NULL
    MaxLists,          \* bound: committed reminder lists per cycle
    MaxClock           \* bound: last day

ASSUME CycleAssumption ==
    /\ DefaultDays \subseteq Days /\ DefaultDays # {}
    /\ Window \in Nat /\ MaxClock \in Nat /\ MaxLists \in Nat
    /\ Ops \subseteq {"create", "open", "close", "reopen", "remind"}
    /\ NULL \notin Nat

VARIABLES
    status,            \* committed status per cycle
    opened_at,         \* BOOLEAN per cycle: opened_at is not NULL
    closed_at,         \* per cycle
    reopened_at,       \* BOOLEAN per cycle: reopened_at is not NULL
    reminders,         \* committed cycle_reminder_schedules rows per cycle
    lists,             \* history: the reminder lists committed per cycle
    clock,             \* now_utc(), in days
    audits,            \* <<action, cycle>> pairs with a committed audit row
    req                \* the request each session is running

vars == <<status, opened_at, closed_at, reopened_at, reminders, lists, clock, audits,
          req>>

C == INSTANCE CycleStatus

Times    == 0..MaxClock
OptTime  == Times \cup {NULL}

\* A row is told from other rows of its day by the list it was inserted with. A
\* list records how many lists its DELETE statement could see.
Reminder == [day: Days, id: Nat]
List     == [days: SUBSET Days, saw: Nat]

Actions  == {"CYCLE_CREATE", "CYCLE_OPEN", "CYCLE_CLOSE", "CYCLE_REOPEN",
             "CYCLE_REMINDER_SET"}

Action(op) == CASE op = "create" -> "CYCLE_CREATE" [] op = "open" -> "CYCLE_OPEN"
                [] op = "close" -> "CYCLE_CLOSE" [] op = "reopen" -> "CYCLE_REOPEN"
                [] op = "remind" -> "CYCLE_REMINDER_SET"

\* A request: its operation, how far it is, and what it holds in memory until
\* its commit. "now" is the closing time close() took; "set" the reminder list
\* to write, NULL to leave the schedule alone; "gone" the rows that its DELETE
\* statement saw, and "saw" (history) how many lists were committed by then.
Phases   == {"gated", "deleting", "loaded"}
Running  == [op: Ops, c: Cycles, pc: Phases,
             now: OptTime, set: (SUBSET Days) \cup {NULL}, gone: SUBSET Reminder,
             saw: Nat]
Auditing == [op: Ops, c: Cycles, pc: {"auditing"}]
Idle     == [pc |-> "idle"]
Request  == Running \cup Auditing \cup {Idle}

-----------------------------------------------------------------------------
(* state_machine.py *)

\* (mutant: drafts may be closed)
AllowedWithDraftClose ==
    {<<"draft", "open">>, <<"open", "closed">>, <<"closed", "open">>, <<"draft", "closed">>}

_ALLOWED == {<<"draft", "open">>, <<"open", "closed">>, <<"closed", "open">>}

can_transition(from, to) == <<from, to>> \in _ALLOWED

-----------------------------------------------------------------------------
(* The first half of each handler: read, check, keep *)

Start(s, op, c, phase, now, set, gone, saw) ==
    /\ op \in Ops /\ req[s].pc = "idle"
    /\ req' = [req EXCEPT ![s] = [op |-> op, c |-> c, pc |-> phase, now |-> now,
                                  set |-> set, gone |-> gone, saw |-> saw]]
    /\ UNCHANGED <<status, opened_at, closed_at, reopened_at, reminders, lists,
                   clock, audits>>

\* The pre-check only sees committed rows of the year. The id is new: no other
\* request uses it or has used it.
LoadCreate(s, c) ==
    /\ status[c] = "absent" /\ lists[c] = <<>>
    /\ \A t \in Sessions : req[t].pc # "idle" => req[t].c # c
    /\ \A d \in Cycles : YearOf[d] = YearOf[c] => status[d] \notin C!Active
    /\ Start(s, "create", c, "loaded", NULL, NULL, {}, 0)

\* Whether a filing unit lacks a manager is decided by the organisation data
\* at that moment: the request goes on, or fails with CYCLE_002 (no step).
LoadOpen(s, c) ==
    /\ can_transition(status[c], "open")
    /\ Start(s, "open", c, "gated", NULL, NULL, {}, 0)

\* The default schedule is taken when the cycle has no reminder row ...
ReadSchedule(s) ==
    LET r == req[s] IN
    /\ r.pc = "gated"
    /\ req' = [req EXCEPT ![s] =
                 IF reminders[r.c] = {}
                 THEN [r EXCEPT !.pc = "deleting", !.set = DefaultDays]
                 ELSE [r EXCEPT !.pc = "loaded"]]
    /\ UNCHANGED <<status, opened_at, closed_at, reopened_at, reminders, lists,
                   clock, audits>>

\* ... and written by set_reminder_schedule, whose DELETE sees the rows that
\* are committed by then.
DeleteSchedule(s) ==
    LET r == req[s] IN
    /\ r.pc = "deleting"
    /\ req' = [req EXCEPT ![s] = [r EXCEPT !.pc = "loaded", !.gone = reminders[r.c],
                                         !.saw = Len(lists[r.c])]]
    /\ UNCHANGED <<status, opened_at, closed_at, reopened_at, reminders, lists,
                   clock, audits>>

LoadClose(s, c) ==
    /\ can_transition(status[c], "closed")
    /\ Start(s, "close", c, "loaded", clock, NULL, {}, 0)

\* (mutant: without a closing time there is no window to elapse)
LoadReopenUnclosed(s, c) ==
    /\ status[c] # "closed" => can_transition(status[c], "open")
    /\ closed_at[c] # NULL => clock - closed_at[c] <= Window
    /\ Start(s, "reopen", c, "loaded", NULL, NULL, {}, 0)

\* By a SystemAdmin. A draft passes assert_transition; its NULL closed_at
\* stops it (CYCLE_005).
LoadReopen(s, c) ==
    /\ status[c] # "closed" => can_transition(status[c], "open")
    /\ closed_at[c] # NULL
    /\ clock - closed_at[c] <= Window
    /\ Start(s, "reopen", c, "loaded", NULL, NULL, {}, 0)

\* The cycle row is not read, so the id may be that of no cycle at all; an id
\* that is being created is not known to anyone else.
LoadRemind(s, c) ==
    /\ \A t \in Sessions : req[t].pc \in Phases /\ req[t].op = "create" => req[t].c # c
    /\ \E days \in SUBSET Days :
         Start(s, "remind", c, "loaded", NULL, days, reminders[c], Len(lists[c]))

-----------------------------------------------------------------------------
(* The second half: flush, commit, audit *)

\* (mutant: reopen() writes a status of its own)
NewStatusReopened(r) ==
    CASE r.op = "create" -> "draft"
      [] r.op = "open" -> "open"
      [] r.op = "reopen" -> "reopened"
      [] r.op = "close" -> "closed"
      [] OTHER -> status[r.c]

NewStatus(r) ==
    CASE r.op = "create" -> "draft"
      [] r.op \in {"open", "reopen"} -> "open"
      [] r.op = "close" -> "closed"
      [] OTHER -> status[r.c]

\* (mutant: the partial index covers drafts only)
YearIndexOfDrafts(r) == NewStatus(r) = "draft" => C!YearFree(r.c)

\* uq_budget_cycles_active_year
YearIndexHolds(r) == NewStatus(r) \in C!Active => C!YearFree(r.c)

\* uq_cycle_reminder_days: no surviving row has a day this request inserts.
ReminderIndexHolds(r) ==
    r.set # NULL => \A x \in reminders[r.c] \ r.gone : x.day \notin r.set

\* Reminder rows refer to a cycle that exists.
ForeignKeyHolds(r) ==
    r.op = "remind" /\ r.set # {} => status[r.c] # "absent"

\* (mutant: the DELETE of set_reminder_schedule is left out)
WrittenWithoutDelete(r) ==
    IF r.set = NULL THEN reminders[r.c]
    ELSE reminders[r.c] \cup {[day |-> d, id |-> Len(lists[r.c]) + 1] : d \in r.set}

Written(r) ==
    IF r.set = NULL THEN reminders[r.c]
    ELSE (reminders[r.c] \ r.gone)
         \cup {[day |-> d, id |-> Len(lists[r.c]) + 1] : d \in r.set}

\* The list joins the history of its cycle.
Recorded(r) ==
    IF r.set = NULL THEN lists[r.c] ELSE Append(lists[r.c], [days |-> r.set, saw |-> r.saw])

\* The commit of the state change: the columns the handler assigned, by id.
Commit(s) ==
    LET r == req[s] IN
    /\ r.pc = "loaded"
    /\ YearIndexHolds(r) /\ ReminderIndexHolds(r) /\ ForeignKeyHolds(r)
    /\ Len(Recorded(r)) <= MaxLists
    /\ status'      = [status EXCEPT ![r.c] = NewStatus(r)]
    /\ opened_at'   = [opened_at EXCEPT ![r.c] = @ \/ r.op = "open"]
    /\ closed_at'   = [closed_at EXCEPT ![r.c] = IF r.op = "close" THEN r.now ELSE @]
    /\ reopened_at' = [reopened_at EXCEPT ![r.c] = @ \/ r.op = "reopen"]
    /\ reminders'   = [reminders EXCEPT ![r.c] = Written(r)]
    /\ lists'       = [lists EXCEPT ![r.c] = Recorded(r)]
    /\ req' = [req EXCEPT ![s] = [op |-> r.op, c |-> r.c, pc |-> "auditing"]]
    /\ UNCHANGED <<clock, audits>>

\* (mutant: the audit row is committed before the state change)
AuditFirst(s) ==
    LET r == req[s] IN
    /\ r.pc \in {"loaded", "auditing"}
    /\ audits' = audits \cup {<<Action(r.op), r.c>>}
    /\ req' = [req EXCEPT ![s] = IF r.pc = "loaded" THEN r ELSE Idle]
    /\ UNCHANGED <<status, opened_at, closed_at, reopened_at, reminders, lists,
                   clock>>

\* AuditService.record, commit, return.
Audit(s) ==
    LET r == req[s] IN
    /\ r.pc = "auditing"
    /\ audits' = audits \cup {<<Action(r.op), r.c>>}
    /\ req' = [req EXCEPT ![s] = Idle]
    /\ UNCHANGED <<status, opened_at, closed_at, reopened_at, reminders, lists,
                   clock>>

\* IntegrityError at the commit, any other exception, or a crash: what is not
\* committed is rolled back.
Fail(s) ==
    /\ req[s].pc # "idle"
    /\ req' = [req EXCEPT ![s] = Idle]
    /\ UNCHANGED <<status, opened_at, closed_at, reopened_at, reminders, lists,
                   clock, audits>>

Tick ==
    /\ clock < MaxClock
    /\ clock' = clock + 1
    /\ UNCHANGED <<status, opened_at, closed_at, reopened_at, reminders, lists,
                   audits, req>>

-----------------------------------------------------------------------------
Init ==
    /\ status      = [c \in Cycles |-> "absent"]
    /\ opened_at   = [c \in Cycles |-> FALSE]
    /\ closed_at   = [c \in Cycles |-> NULL]
    /\ reopened_at = [c \in Cycles |-> FALSE]
    /\ reminders   = [c \in Cycles |-> {}]
    /\ lists       = [c \in Cycles |-> <<>>]
    /\ clock = 0 /\ audits = {}
    /\ req = [s \in Sessions |-> Idle]

Next ==
    \/ Tick
    \/ \E s \in Sessions :
         \/ \E c \in Cycles :
              \/ LoadCreate(s, c) \/ LoadOpen(s, c) \/ LoadClose(s, c)
              \/ LoadReopen(s, c) \/ LoadRemind(s, c)
         \/ ReadSchedule(s) \/ DeleteSchedule(s)
         \/ Commit(s) \/ Audit(s) \/ Fail(s)

Spec == Init /\ [][Next]_vars

-----------------------------------------------------------------------------
(* Properties *)

\* Every variable has its type.
TypeOK ==
    /\ status \in [Cycles -> C!CycleState]
    /\ opened_at \in [Cycles -> BOOLEAN]
    /\ closed_at \in [Cycles -> OptTime]
    /\ reopened_at \in [Cycles -> BOOLEAN]
    /\ reminders \in [Cycles -> SUBSET Reminder]
    /\ lists \in [Cycles -> Seq(List)]
    /\ clock \in Times
    /\ audits \subseteq Actions \X Cycles
    /\ req \in [Sessions -> Request]

\* At most one draft or open cycle per fiscal year, although create() checks
\* before it inserts and open() and reopen() do not look at the year at all.
OneActiveCyclePerYear == C!OneActiveCyclePerYear

\* The committed status only moves along the edges of _ALLOWED, in years that
\* are free, even when a request acts on a status that is stale.
ImplementsCycleStatus == C!Spec

\* No cycle leaves draft but through open(), which checks the filing units'
\* managers: reopen() cannot be used to open a cycle that was never open.
LeavesDraftThroughOpen ==
    \A c \in Cycles : status[c] \in {"open", "closed"} => opened_at[c]

\* An audit row never tells of something that did not happen (CR-006): what
\* a lifecycle action claims is on the committed cycle row.
AuditTellsOnlyWhatHappened ==
    \A c \in Cycles :
        /\ <<"CYCLE_CREATE", c>> \in audits => status[c] # "absent"
        /\ <<"CYCLE_OPEN", c>> \in audits => opened_at[c]
        /\ <<"CYCLE_CLOSE", c>> \in audits => closed_at[c] # NULL
        /\ <<"CYCLE_REOPEN", c>> \in audits => reopened_at[c] /\ closed_at[c] # NULL

\* A cycle that was closed keeps the closing time that reopen() measures from.
ClosedHasClosingTime ==
    \A c \in Cycles : status[c] = "closed" => closed_at[c] # NULL

\* A committed list whose rows no later DELETE could see.
Live(c, i) ==
    \A j \in DOMAIN lists[c] : j > i => lists[c][j].saw < i

\* What a schedule holds when PATCHes of it and open()'s default overlap: every
\* list that no later DELETE could see, whole, and nothing else. So a list that
\* replaced a schedule is not mixed with it, a list that lost a row lost them
\* all, and the lists that do stand side by side were written by requests of
\* which none saw the other, and name no day twice.
SchedulesAreWholeLists ==
    \A c \in Cycles :
        /\ reminders[c] = {x \in [day: Days, id: DOMAIN lists[c]] :
                              x.day \in lists[c][x.id].days /\ Live(c, x.id)}
        /\ \A i, j \in DOMAIN lists[c] : i # j /\ Live(c, i) /\ Live(c, j) =>
             lists[c][i].days \cap lists[c][j].days = {}

-----------------------------------------------------------------------------
(* The inductive invariant behind these properties *)

\* The timestamps of a cycle say which statuses it has been through.
RowsConsistent ==
    \A c \in Cycles :
        /\ opened_at[c] <=> status[c] \in {"open", "closed"}
        /\ closed_at[c] # NULL => opened_at[c]
        /\ status[c] = "closed" => closed_at[c] # NULL

\* A cycle that is being created is known to its creator alone.
CreatorsAlone ==
    \A s, t \in Sessions :
        /\ s # t /\ req[s].pc \in Phases /\ req[s].op = "create" /\ req[t].pc # "idle"
        => req[t].c # req[s].c

\* What a request read may be stale; this much of it stays true.
RequestsConsistent ==
    \A s \in Sessions : LET r == req[s] IN
        /\ r.pc \in Phases /\ r.op # "remind" => (r.op = "create" <=> status[r.c] = "absent")
        /\ r.pc \in Phases /\ r.op = "close" => opened_at[r.c] /\ r.now # NULL
        /\ r.pc \in Phases /\ r.op = "reopen" => closed_at[r.c] # NULL
        /\ r.pc = "auditing" =>
             /\ r.op # "remind" => status[r.c] # "absent"
             /\ r.op = "open" => opened_at[r.c]
             /\ r.op = "close" => closed_at[r.c] # NULL
             /\ r.op = "reopen" => reopened_at[r.c] /\ closed_at[r.c] # NULL

\* What the DELETE of a request saw are the rows of the lists committed by then:
\* of the rows that are there now, those of the first "saw" lists.
DeletesConsistent ==
    \A s \in Sessions : LET r == req[s] IN
        /\ r.pc = "gated" => r.set = NULL
        /\ r.pc = "loaded" /\ r.set # NULL =>
            /\ r.saw <= Len(lists[r.c])
            /\ \A x \in r.gone : x.id <= r.saw
            /\ \A x \in reminders[r.c] : x.id <= r.saw => x \in r.gone

IInv == /\ TypeOK /\ RowsConsistent /\ CreatorsAlone /\ RequestsConsistent
        /\ OneActiveCyclePerYear /\ AuditTellsOnlyWhatHappened
        /\ SchedulesAreWholeLists /\ DeletesConsistent

-----------------------------------------------------------------------------
(* What the documentation says, and the code does not do *)

\* What the docstring of open() says: CYCLE_003 when the cycle is not Draft,
\* so open() never moves a cycle from another status.
OpenOnlyFromDraft ==
    [][\A s \in Sessions : Commit(s) /\ req[s].op = "open" =>
          status[req[s].c] = "draft"]_vars
=============================================================================
