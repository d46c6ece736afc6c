------------------------ MODULE CycleLifecycleProofs ------------------------
(***************************************************************************)
(* CycleLifecycle implements CycleStatus, and its other safety properties, *)
(* for every number of sessions and cycles.                                *)
(***************************************************************************)
EXTENDS CycleLifecycle, TLAPS

\* A request keeps its type when Start puts it in place of an idle one, and
\* everything else is left alone.
LEMMA StartType ==
    ASSUME TypeOK, NEW s \in Sessions, NEW op, NEW c \in Cycles, NEW phase \in Phases,
           NEW now \in OptTime, NEW set \in (SUBSET Days) \cup {NULL},
           NEW gone \in SUBSET Reminder, NEW saw \in Nat,
           Start(s, op, c, phase, now, set, gone, saw)
    PROVE  TypeOK'
  BY DEF TypeOK, Start, Request, Running

LEMMA WrittenType ==
    ASSUME TypeOK, NEW r \in Running
    PROVE  /\ Written(r) \subseteq Reminder
           /\ Recorded(r) \in Seq(List)
<1>1. /\ reminders[r.c] \subseteq Reminder /\ lists[r.c] \in Seq(List)
      /\ r.saw \in Nat /\ r.set \in (SUBSET Days) \cup {NULL}
  BY DEF TypeOK, Running
<1>2. CASE r.set = NULL
  BY <1>1, <1>2 DEF Written, Recorded
<1>3. CASE r.set # NULL
  <2>1. r.set \in SUBSET Days /\ Len(lists[r.c]) + 1 \in Nat
    BY <1>1, <1>3
  <2>2. Written(r) \subseteq Reminder
    BY <1>1, <1>3, <2>1 DEF Written, Reminder
  <2>3. Recorded(r) \in Seq(List)
    BY <1>1, <1>3, <2>1 DEF Recorded, List
  <2> QED  BY <2>2, <2>3
<1> QED  BY <1>2, <1>3

LEMMA PhaseTells ==
    ASSUME TypeOK, NEW s \in Sessions
    PROVE  /\ req[s].pc \in Phases => req[s] \in Running
           /\ req[s].pc = "auditing" => req[s] \in Auditing
           /\ req[s].pc \in Phases \cup {"auditing", "idle"}
           /\ req[s].pc # "idle" => req[s].op \in Ops /\ req[s].c \in Cycles
  BY DEF TypeOK, Request, Running, Auditing, Idle, Phases

LEMMA CommitType ==
    ASSUME TypeOK, NEW s \in Sessions, Commit(s)
    PROVE  TypeOK'
<1> DEFINE r == req[s]
<1>1. r \in Running /\ r.c \in Cycles /\ r.op \in Ops /\ r.now \in OptTime
  BY PhaseTells DEF Commit, Phases, Running
<1>4. reminders' \in [Cycles -> SUBSET Reminder] /\ lists' \in [Cycles -> Seq(List)]
  <2>1. Written(r) \subseteq Reminder /\ Recorded(r) \in Seq(List)
    BY <1>1, WrittenType
  <2> QED  BY <1>1, <2>1 DEF Commit, TypeOK
<1>5. NewStatus(r) \in C!CycleState
  BY <1>1 DEF NewStatus, TypeOK, C!CycleState
<1>6. [op |-> r.op, c |-> r.c, pc |-> "auditing"] \in Request
  BY <1>1 DEF Request, Auditing
<1> QED  BY <1>1, <1>4, <1>5, <1>6 DEF Commit, TypeOK

LEMMA InitType == Init => TypeOK
  BY CycleAssumption DEF Init, TypeOK, C!CycleState, OptTime, Times, Request

LEMMA TypeStep ==
    ASSUME TypeOK, [Next]_vars
    PROVE  TypeOK'
<1>1. CASE Tick
  BY <1>1, CycleAssumption DEF Tick, TypeOK, Times
<1>2. ASSUME NEW s \in Sessions, NEW c \in Cycles,
             \/ LoadCreate(s, c) \/ LoadOpen(s, c) \/ LoadClose(s, c)
             \/ LoadReopen(s, c) \/ LoadRemind(s, c)
      PROVE  TypeOK'
  <2>1. CASE LoadCreate(s, c)
    BY <2>1, StartType DEF LoadCreate, Phases, OptTime
  <2>2. CASE LoadOpen(s, c)
    BY <2>2, StartType DEF LoadOpen, Phases, OptTime
  <2>3. CASE LoadClose(s, c)
    <3>1. clock \in OptTime
      BY DEF TypeOK, OptTime
    <3> QED  BY <2>3, <3>1, StartType DEF LoadClose, Phases
  <2>4. CASE LoadReopen(s, c)
    BY <2>4, StartType DEF LoadReopen, Phases, OptTime
  <2>5. CASE LoadRemind(s, c)
    <3>1. PICK days \in SUBSET Days :
            Start(s, "remind", c, "loaded", NULL, days, reminders[c], Len(lists[c]))
      BY <2>5 DEF LoadRemind
    <3>2. reminders[c] \in SUBSET Reminder /\ Len(lists[c]) \in Nat
      BY DEF TypeOK
    <3> QED  BY <3>1, <3>2, StartType DEF Phases, OptTime
  <2> QED  BY <1>2, <2>1, <2>2, <2>3, <2>4, <2>5
<1>3. ASSUME NEW s \in Sessions,
             ReadSchedule(s) \/ DeleteSchedule(s) \/ Commit(s) \/ Audit(s) \/ Fail(s)
      PROVE  TypeOK'
  <2>1. CASE ReadSchedule(s)
    <3>1. req[s] \in Running
      BY <2>1, PhaseTells DEF ReadSchedule, Phases
    <3>2. req'[s] \in Request /\ req' \in [Sessions -> Request]
      BY <2>1, <3>1, CycleAssumption DEF ReadSchedule, TypeOK, Request, Running, Phases
    <3> QED  BY <2>1, <3>2 DEF ReadSchedule, TypeOK
  <2>2. CASE DeleteSchedule(s)
    <3>1. req[s] \in Running
      BY <2>2, PhaseTells DEF DeleteSchedule, Phases
    <3>3. Len(lists[req[s].c]) \in Nat /\ reminders[req[s].c] \in SUBSET Reminder
      BY <3>1 DEF TypeOK, Running
    <3>2. req' \in [Sessions -> Request]
      BY <2>2, <3>1, <3>3 DEF DeleteSchedule, TypeOK, Request, Running, Phases
    <3> QED  BY <2>2, <3>2 DEF DeleteSchedule, TypeOK
  <2>3. CASE Commit(s)
    BY <2>3, CommitType
  <2>4. CASE Audit(s)
    <3>1. req[s] \in Auditing
      BY <2>4, PhaseTells DEF Audit
    <3>2. <<Action(req[s].op), req[s].c>> \in Actions \X Cycles
      BY <3>1, CycleAssumption DEF Auditing, Action, Actions
    <3> QED  BY <2>4, <3>2 DEF Audit, TypeOK, Request
  <2>5. CASE Fail(s)
    BY <2>5 DEF Fail, TypeOK, Request
  <2> QED  BY <1>3, <2>1, <2>2, <2>3, <2>4, <2>5
<1>4. CASE UNCHANGED vars
  BY <1>4 DEF vars, TypeOK
<1> QED  BY <1>1, <1>2, <1>3, <1>4 DEF Next

\* Every variable keeps its type in every behaviour.
THEOREM TypeCorrect == Spec => []TypeOK
  BY InitType, TypeStep, PTL DEF Spec

-----------------------------------------------------------------------------
(* The inductive invariant *)

\* The rows of a schedule are numbered by the lists they came with.
LEMMA RowsOfLists ==
    ASSUME TypeOK, SchedulesAreWholeLists, NEW c \in Cycles
    PROVE  /\ Len(lists[c]) \in Nat /\ DOMAIN lists[c] = 1..Len(lists[c])
           /\ \A x \in reminders[c] : x.id \in 1..Len(lists[c]) /\ x.id <= Len(lists[c])
<1>1. Len(lists[c]) \in Nat /\ DOMAIN lists[c] = 1..Len(lists[c])
  BY DEF TypeOK
<1>2. \A x \in reminders[c] : x.id \in DOMAIN lists[c]
  BY DEF SchedulesAreWholeLists
<1> QED  BY <1>1, <1>2

\* Starting a request keeps the invariant when what it read justifies it.
LEMMA StartStep ==
    ASSUME IInv, NEW s \in Sessions, NEW op, NEW c \in Cycles, NEW phase \in Phases,
           NEW now \in OptTime, NEW set \in (SUBSET Days) \cup {NULL},
           NEW gone \in SUBSET Reminder, NEW saw \in Nat,
           Start(s, op, c, phase, now, set, gone, saw),
           op # "remind" => (op = "create" <=> status[c] = "absent"),
           \A t \in Sessions : req[t].pc \in Phases /\ req[t].op = "create" => req[t].c # c,
           op = "create" => \A t \in Sessions : req[t].pc # "idle" => req[t].c # c,
           op = "close" => opened_at[c] /\ now # NULL,
           op = "reopen" => closed_at[c] # NULL,
           phase = "gated" => set = NULL,
           phase = "loaded" /\ set # NULL => gone = reminders[c] /\ saw = Len(lists[c])
    PROVE  IInv'
<1> DEFINE new == [op |-> op, c |-> c, pc |-> phase, now |-> now, set |-> set,
                   gone |-> gone, saw |-> saw]
<1>1. TypeOK'
  BY StartType DEF IInv
<1>2. /\ req[s].pc = "idle"
      /\ req'[s] = new
      /\ \A t \in Sessions : t # s => req'[t] = req[t]
  BY DEF Start, IInv, TypeOK
<1>3. /\ new.op = op /\ new.c = c /\ new.pc = phase /\ new.now = now
      /\ new.set = set /\ new.gone = gone /\ new.saw = saw
      /\ phase # "auditing" /\ phase # "idle"
  BY DEF Phases
<1>4. /\ status' = status /\ opened_at' = opened_at /\ closed_at' = closed_at
      /\ reopened_at' = reopened_at /\ reminders' = reminders /\ lists' = lists
      /\ audits' = audits
  BY DEF Start
<1> HIDE DEF new
<1>5. RequestsConsistent'
  BY <1>2, <1>3, <1>4 DEF IInv, RequestsConsistent
<1>6. CreatorsAlone'
  <2> SUFFICES ASSUME NEW t \in Sessions, NEW u \in Sessions, t # u,
                      req'[t].pc \in Phases, req'[t].op = "create", req'[u].pc # "idle"
               PROVE  req'[u].c # req'[t].c
    BY DEF CreatorsAlone
  <2>1. CASE t = s
    BY <2>1, <1>2, <1>3
  <2>2. CASE u = s
    <3>1. req'[t] = req[t] /\ req'[u].c = c
      BY <2>2, <1>2, <1>3
    <3> QED  BY <3>1
  <2>3. CASE t # s /\ u # s
    BY <2>3, <1>2 DEF IInv, CreatorsAlone
  <2> QED  BY <2>1, <2>2, <2>3
<1>7. RowsConsistent' /\ OneActiveCyclePerYear' /\ AuditTellsOnlyWhatHappened'
      /\ SchedulesAreWholeLists'
  BY <1>4 DEF IInv, RowsConsistent, OneActiveCyclePerYear, C!OneActiveCyclePerYear,
              AuditTellsOnlyWhatHappened, SchedulesAreWholeLists, Live
<1>8. DeletesConsistent'
  <2>0. \A t \in Sessions : req'[t].pc = "gated" => req'[t].set = NULL
    BY <1>2, <1>3 DEF IInv, DeletesConsistent
  <2> SUFFICES ASSUME NEW t \in Sessions, req'[t].pc = "loaded", req'[t].set # NULL
               PROVE  /\ req'[t].saw <= Len(lists[req'[t].c])
                      /\ \A x \in req'[t].gone : x.id <= req'[t].saw
                      /\ \A x \in reminders[req'[t].c] : x.id <= req'[t].saw => x \in req'[t].gone
    BY <2>0, <1>4 DEF DeletesConsistent
  <2>1. CASE t # s
    BY <2>1, <1>2 DEF IInv, DeletesConsistent
  <2>2. CASE t = s
    <3>1. gone = reminders[c] /\ saw = Len(lists[c]) /\ req'[t] = new
      BY <2>2, <1>2, <1>3
    <3>2. \A x \in reminders[c] : x.id <= Len(lists[c])
      BY RowsOfLists DEF IInv
    <3>3. Len(lists[c]) <= Len(lists[c])
      BY <3>1
    <3> QED  BY <3>1, <3>2, <3>3, <1>3
  <2> QED  BY <2>1, <2>2
<1> QED  BY <1>1, <1>5, <1>6, <1>7, <1>8 DEF IInv

LEMMA LoadStep ==
    ASSUME IInv, NEW s \in Sessions, NEW c \in Cycles,
           \/ LoadCreate(s, c) \/ LoadOpen(s, c) \/ LoadClose(s, c)
           \/ LoadReopen(s, c) \/ LoadRemind(s, c)
    PROVE  IInv'
<1>0. /\ NULL \in OptTime /\ NULL \in (SUBSET Days) \cup {NULL} /\ {} \in SUBSET Reminder
      /\ "loaded" \in Phases /\ "gated" \in Phases
      /\ clock \in OptTime /\ clock # NULL /\ reminders[c] \in SUBSET Reminder
      /\ 0 \in Nat /\ Len(lists[c]) \in Nat
  BY CycleAssumption DEF OptTime, Times, Phases, IInv, TypeOK
<1>6. status[c] # "absent" =>
        \A t \in Sessions : req[t].pc \in Phases /\ req[t].op = "create" => req[t].c # c
  BY DEF IInv, RequestsConsistent
<1>1. CASE LoadCreate(s, c)
  <2>1. \A t \in Sessions : req[t].pc \in Phases /\ req[t].op = "create" => req[t].c # c
    BY <1>1 DEF LoadCreate, Phases
  <2> QED  BY <1>0, <1>1, <2>1, StartStep DEF LoadCreate
<1>2. CASE LoadOpen(s, c)
  <2>1. status[c] # "absent"
    BY <1>2 DEF LoadOpen, can_transition, _ALLOWED
  <2> QED  BY <1>0, <1>2, <1>6, <2>1, StartStep DEF LoadOpen
<1>3. CASE LoadClose(s, c)
  <2>1. status[c] = "open"
    BY <1>3 DEF LoadClose, can_transition, _ALLOWED
  <2>2. opened_at[c]
    BY <2>1 DEF IInv, RowsConsistent
  <2> QED  BY <1>0, <1>3, <1>6, <2>1, <2>2, StartStep DEF LoadClose
<1>4. CASE LoadReopen(s, c)
  <2>1. status[c] # "absent"
    BY <1>4 DEF LoadReopen, can_transition, _ALLOWED
  <2> QED  BY <1>0, <1>4, <1>6, <2>1, StartStep DEF LoadReopen
<1>5. CASE LoadRemind(s, c)
  <2>1. PICK days \in SUBSET Days :
          Start(s, "remind", c, "loaded", NULL, days, reminders[c], Len(lists[c]))
    BY <1>5 DEF LoadRemind
  <2>2. \A t \in Sessions : req[t].pc \in Phases /\ req[t].op = "create" => req[t].c # c
    BY <1>5 DEF LoadRemind
  <2> QED  BY <1>0, <2>1, <2>2, StartStep
<1> QED  BY <1>1, <1>2, <1>3, <1>4, <1>5

\* A request that is not committed yet acts on a status that may be stale, and
\* still can only move its cycle along an edge, or leave it where it is.
LEMMA CommitMoves ==
    ASSUME IInv, NEW s \in Sessions, Commit(s)
    PROVE  status' = status \/ C!Move(req[s].c, NewStatus(req[s]))
<1> DEFINE r == req[s]
<1>1. /\ r.pc \in Phases /\ r.c \in Cycles
      /\ r.op \in {"create", "open", "close", "reopen", "remind"}
  BY PhaseTells, CycleAssumption DEF Commit, IInv, Phases
<1>2. status \in [Cycles -> C!CycleState]
      /\ status' = [status EXCEPT ![r.c] = NewStatus(r)] /\ YearIndexHolds(r)
  BY DEF Commit, IInv, TypeOK
<1>3. /\ r.op # "remind" => (r.op = "create" <=> status[r.c] = "absent")
      /\ r.op = "close" => opened_at[r.c]
      /\ r.op = "reopen" => closed_at[r.c] # NULL
  BY <1>1 DEF IInv, RequestsConsistent
<1>4. r.op = "close" \/ r.op = "reopen" => status[r.c] \in {"open", "closed"}
  BY <1>1, <1>3 DEF IInv, RowsConsistent
<1>5. <<status[r.c], NewStatus(r)>> \in C!Edges \/ NewStatus(r) = status[r.c]
  BY <1>1, <1>2, <1>3, <1>4 DEF NewStatus, C!Edges, C!CycleState
<1>6. CASE NewStatus(r) = status[r.c]
  BY <1>1, <1>2, <1>6
<1>7. CASE <<status[r.c], NewStatus(r)>> \in C!Edges
  BY <1>1, <1>2, <1>7 DEF C!Move, YearIndexHolds
<1> QED  BY <1>5, <1>6, <1>7

\* The abstract invariant is inductive on its own.
LEMMA MoveKeepsYears ==
    ASSUME status \in [Cycles -> C!CycleState], C!OneActiveCyclePerYear,
           NEW c \in Cycles, NEW to, C!Move(c, to)
    PROVE  C!OneActiveCyclePerYear'
<1> SUFFICES ASSUME NEW a \in Cycles, NEW b \in Cycles, a # b, YearOf[a] = YearOf[b],
                    status'[a] \in C!Active, status'[b] \in C!Active
             PROVE  FALSE
  BY DEF C!OneActiveCyclePerYear
<1>1. /\ status'[c] = to
      /\ \A d \in Cycles : d # c => status'[d] = status[d]
      /\ to \in C!Active => C!YearFree(c)
  BY DEF C!Move
<1>2. CASE a = c
  BY <1>1, <1>2 DEF C!YearFree
<1>3. CASE b = c
  BY <1>1, <1>3 DEF C!YearFree
<1>4. CASE a # c /\ b # c
  BY <1>1, <1>4 DEF C!OneActiveCyclePerYear
<1> QED  BY <1>2, <1>3, <1>4

\* A list that joins the history takes the place of those its DELETE saw, and
\* stands beside the others, with which the unique index lets it share no day.
LEMMA CommitKeepsLists ==
    ASSUME IInv, NEW s \in Sessions, Commit(s)
    PROVE  SchedulesAreWholeLists' /\ DeletesConsistent'
<1> DEFINE r == req[s]
           new == [days |-> r.set, saw |-> r.saw]
<1>0. req[s].c \in Cycles
  BY PhaseTells DEF Commit, IInv
<1> PICK c \in Cycles : c = req[s].c
  BY <1>0
<1> PICK n : n = Len(lists[c])
  OBVIOUS
<1>1. /\ r \in Running /\ c \in Cycles /\ r.pc = "loaded" /\ r.saw \in Nat
      /\ r.set \in (SUBSET Days) \cup {NULL}
      /\ r.set # NULL => \A x \in reminders[c] \ r.gone : x.day \notin r.set
  BY PhaseTells DEF Commit, IInv, Phases, Running, ReminderIndexHolds
<1>2. /\ reminders' = [reminders EXCEPT ![c] = Written(r)]
      /\ lists' = [lists EXCEPT ![c] = Recorded(r)]
      /\ reminders \in [Cycles -> SUBSET Reminder] /\ lists \in [Cycles -> Seq(List)]
      /\ req'[s].pc = "auditing" /\ \A t \in Sessions : t # s => req'[t] = req[t]
  BY DEF Commit, IInv, TypeOK
<1>3. CASE r.set = NULL
  <2>1. reminders' = reminders /\ lists' = lists
    BY <1>1, <1>2, <1>3 DEF Written, Recorded
  <2>2. SchedulesAreWholeLists'
    BY <2>1 DEF IInv, SchedulesAreWholeLists, Live
  <2>3. DeletesConsistent'
    BY <1>2, <2>1 DEF IInv, DeletesConsistent
  <2> QED  BY <2>2, <2>3
<1>4. CASE r.set # NULL
  <2>1. /\ \A d \in Cycles : d # c => reminders'[d] = reminders[d] /\ lists'[d] = lists[d]
        /\ reminders'[c] = (reminders[c] \ r.gone)
                           \cup {[day |-> d, id |-> n + 1] : d \in r.set}
        /\ lists'[c] = Append(lists[c], new)
    BY <1>1, <1>2, <1>4 DEF Written, Recorded
  <2>2. /\ n \in Nat /\ DOMAIN lists[c] = 1..n
        /\ \A x \in reminders[c] : x.id \in 1..n /\ x.id <= n
    BY <1>1, RowsOfLists DEF IInv
  <2>3. /\ DOMAIN lists'[c] = 1..(n + 1) /\ Len(lists'[c]) = n + 1
        /\ \A i \in 1..n : lists'[c][i] = lists[c][i]
        /\ lists'[c][n + 1].days = r.set /\ lists'[c][n + 1].saw = r.saw
    <3>1. new \in List
      BY <1>1, <1>4 DEF List
    <3>2. lists[c] \in Seq(List)
      BY <1>1, <1>2
    <3> QED  BY <2>1, <2>2, <3>1, <3>2
  <2> HIDE DEF new
  <2>4. /\ r.saw <= n
        /\ \A x \in r.gone : x.id <= r.saw
        /\ \A x \in reminders[c] : x.id <= r.saw => x \in r.gone
    BY <1>1, <1>4 DEF IInv, DeletesConsistent
  <2>5. \A i \in 1..n : Live(c, i)' <=> Live(c, i) /\ r.saw < i
    <3> TAKE i \in 1..n
    <3>1. \A j \in 1..n : lists'[c][j].saw = lists[c][j].saw /\ j \in 1..(n + 1)
      BY <2>2, <2>3
    <3>2. \A j \in 1..(n + 1) : j \in 1..n \/ j = n + 1
      BY <2>2
    <3>3. n + 1 > i /\ n + 1 \in 1..(n + 1)
      BY <2>2
    <3>4. Live(c, i)' <=> \A j \in 1..(n + 1) : j > i => lists'[c][j].saw < i
      BY <2>3 DEF Live
    <3>5. Live(c, i) <=> \A j \in 1..n : j > i => lists[c][j].saw < i
      BY <2>2 DEF Live
    <3> QED  BY <3>1, <3>2, <3>3, <3>4, <3>5, <2>3
  <2>6. Live(c, n + 1)'
    BY <2>2, <2>3 DEF Live
  <2>7. /\ reminders[c] = {x \in [day: Days, id: 1..n] :
                             x.day \in lists[c][x.id].days /\ Live(c, x.id)}
        /\ \A i, j \in 1..n : i # j /\ Live(c, i) /\ Live(c, j) =>
             lists[c][i].days \cap lists[c][j].days = {}
    BY <1>1, <2>2 DEF IInv, SchedulesAreWholeLists
  <2>8. SchedulesAreWholeLists'
    <3>1. reminders'[c] = {x \in [day: Days, id: 1..(n + 1)] :
                             x.day \in lists'[c][x.id].days /\ Live(c, x.id)'}
      <4>1. ASSUME NEW x \in reminders'[c]
            PROVE  /\ x \in [day: Days, id: 1..(n + 1)]
                   /\ x.day \in lists'[c][x.id].days /\ Live(c, x.id)'
        <5>1. CASE x \in reminders[c] \ r.gone
          <6>1. /\ x \in [day: Days, id: 1..n] /\ x.id \in 1..n
                /\ x.day \in lists[c][x.id].days /\ Live(c, x.id)
            BY <5>1, <2>7
          <6>2. r.saw < x.id
            BY <5>1, <6>1, <2>2, <2>4, <1>1
          <6>3. x \in [day: Days, id: 1..(n + 1)]
            BY <6>1, <2>2
          <6> QED  BY <6>1, <6>2, <6>3, <2>3, <2>5
        <5>2. CASE x \in {[day |-> d, id |-> n + 1] : d \in r.set}
          <6>1. x.day \in r.set /\ x.id = n + 1 /\ x \in [day: Days, id: 1..(n + 1)]
            BY <5>2, <1>1, <1>4, <2>2
          <6> QED  BY <6>1, <2>3, <2>6
        <5> QED  BY <5>1, <5>2, <2>1
      <4>2. ASSUME NEW x \in [day: Days, id: 1..(n + 1)],
                   x.day \in lists'[c][x.id].days, Live(c, x.id)'
            PROVE  x \in reminders'[c]
        <5>1. CASE x.id \in 1..n
          <6>1. x \in [day: Days, id: 1..n]
            BY <5>1
          <6>2. Live(c, x.id) /\ r.saw < x.id /\ x.day \in lists[c][x.id].days
            BY <4>2, <5>1, <2>3, <2>5
          <6>3. x \in reminders[c] /\ x \notin r.gone
            BY <6>1, <6>2, <2>7, <2>4, <2>2, <1>1
          <6> QED  BY <6>3, <2>1
        <5>2. CASE x.id = n + 1
          <6>1. x = [day |-> x.day, id |-> n + 1] /\ x.day \in r.set
            BY <4>2, <5>2, <2>3
          <6> QED  BY <6>1, <2>1
        <5>3. x.id \in 1..n \/ x.id = n + 1
          BY <2>2
        <5> QED  BY <5>1, <5>2, <5>3
      <4> QED  BY <4>1, <4>2
    <3>2. ASSUME NEW i \in 1..(n + 1), NEW j \in 1..(n + 1), i # j,
                 Live(c, i)', Live(c, j)'
          PROVE  lists'[c][i].days \cap lists'[c][j].days = {}
      <4>1. ASSUME NEW k \in 1..n, Live(c, k)'
            PROVE  lists'[c][k].days \cap r.set = {}
        <5> SUFFICES ASSUME NEW d \in r.set, d \in lists[c][k].days
                     PROVE  FALSE
          BY <4>1, <2>3
        <5>1. Live(c, k) /\ r.saw < k
          BY <4>1, <2>5
        <5>2. d \in Days
          BY <1>1, <1>4
        <5> DEFINE x == [day |-> d, id |-> k]
        <5>3. x \in [day: Days, id: 1..n] /\ x.day = d /\ x.id = k
          BY <5>2
        <5> HIDE DEF x
        <5>4. x \in reminders[c]
          BY <5>1, <5>3, <2>7
        <5>5. x \notin r.gone
          BY <5>1, <5>3, <2>4, <2>2, <1>1
        <5> QED  BY <5>3, <5>4, <5>5, <1>1, <1>4
      <4>2. CASE i \in 1..n /\ j \in 1..n
        BY <3>2, <4>2, <2>3, <2>5, <2>7
      <4>3. CASE i = n + 1
        <5>1. j \in 1..n
          BY <3>2, <4>3, <2>2
        <5> QED  BY <3>2, <4>1, <4>3, <5>1, <2>3
      <4>4. CASE j = n + 1
        <5>1. i \in 1..n
          BY <3>2, <4>4, <2>2
        <5> QED  BY <3>2, <4>1, <4>4, <5>1, <2>3
      <4> QED  BY <4>2, <4>3, <4>4, <2>2
    <3>3. ASSUME NEW d \in Cycles, d # c
          PROVE  /\ reminders'[d] = {x \in [day: Days, id: DOMAIN lists'[d]] :
                                        x.day \in lists'[d][x.id].days /\ Live(d, x.id)'}
                 /\ \A i, j \in DOMAIN lists'[d] : i # j /\ Live(d, i)' /\ Live(d, j)' =>
                      lists'[d][i].days \cap lists'[d][j].days = {}
      <4>1. reminders'[d] = reminders[d] /\ lists'[d] = lists[d]
        BY <3>3, <2>1
      <4>2. \A i : Live(d, i)' <=> Live(d, i)
        BY <4>1 DEF Live
      <4> QED  BY <4>1, <4>2 DEF IInv, SchedulesAreWholeLists
    <3> SUFFICES ASSUME NEW d \in Cycles
                 PROVE  /\ reminders'[d] = {x \in [day: Days, id: DOMAIN lists'[d]] :
                                        x.day \in lists'[d][x.id].days /\ Live(d, x.id)'}
                        /\ \A i, j \in DOMAIN lists'[d] : i # j /\ Live(d, i)' /\ Live(d, j)' =>
                             lists'[d][i].days \cap lists'[d][j].days = {}
      BY DEF SchedulesAreWholeLists
    <3>4. CASE d = c
      <4>1. DOMAIN lists'[d] = 1..(n + 1)
        BY <3>4, <2>3
      <4> QED  BY <3>1, <3>2, <3>4, <4>1
    <3> QED  BY <3>3, <3>4
  <2>9. DeletesConsistent'
    <3>0. \A t \in Sessions : req'[t].pc = "gated" => req'[t].set = NULL
      BY <1>2 DEF IInv, DeletesConsistent
    <3> SUFFICES ASSUME NEW t \in Sessions, req'[t].pc = "loaded", req'[t].set # NULL
                 PROVE  /\ req'[t].saw <= Len(lists'[req'[t].c])
                        /\ \A x \in req'[t].gone : x.id <= req'[t].saw
                        /\ \A x \in reminders'[req'[t].c] :
                             x.id <= req'[t].saw => x \in req'[t].gone
      BY <3>0 DEF DeletesConsistent
    <3>1. t # s /\ req'[t] = req[t]
      BY <1>2
    <3>2. /\ req[t].saw <= Len(lists[req[t].c])
          /\ \A x \in req[t].gone : x.id <= req[t].saw
          /\ \A x \in reminders[req[t].c] : x.id <= req[t].saw => x \in req[t].gone
      BY <3>1 DEF IInv, DeletesConsistent
    <3>3. req[t].c \in Cycles /\ req[t].saw \in Nat
      BY <3>1, PhaseTells DEF IInv, Phases, Running
    <3>4. CASE req[t].c # c
      BY <3>1, <3>2, <3>3, <3>4, <2>1
    <3>5. CASE req[t].c = c
      <4>1. req[t].saw <= n
        BY <3>2, <3>5
      <4>2. ASSUME NEW x \in reminders'[c], x.id <= req[t].saw
            PROVE  x \in reminders[c]
        <5>1. CASE x \in {[day |-> d, id |-> n + 1] : d \in r.set}
          <6>1. x.id = n + 1
            BY <5>1
          <6> QED  BY <6>1, <4>1, <4>2, <2>2, <3>3
        <5> QED  BY <5>1, <2>1
      <4> QED  BY <3>1, <3>2, <3>3, <3>5, <4>1, <4>2, <2>2, <2>3
    <3> QED  BY <3>4, <3>5
  <2> QED  BY <2>8, <2>9
<1> QED  BY <1>3, <1>4

LEMMA CommitStep ==
    ASSUME IInv, NEW s \in Sessions, Commit(s)
    PROVE  IInv'
<1> DEFINE r == req[s]
           new == [op |-> r.op, c |-> r.c, pc |-> "auditing"]
<1>1. TypeOK'
  BY CommitType DEF IInv
<1>2. /\ r.pc \in Phases /\ r.pc # "auditing" /\ r.pc # "idle" /\ r.c \in Cycles
      /\ r.op \in {"create", "open", "close", "reopen", "remind"}
  BY PhaseTells, CycleAssumption DEF Commit, IInv, Phases
<1>3. /\ req'[s] = new /\ new.pc = "auditing" /\ new.op = r.op /\ new.c = r.c
      /\ \A t \in Sessions : t # s => req'[t] = req[t]
  BY DEF Commit, IInv, TypeOK
<1>4. /\ r.op # "remind" => (r.op = "create" <=> status[r.c] = "absent")
      /\ r.op = "close" => opened_at[r.c] /\ r.now # NULL
      /\ r.op = "reopen" => closed_at[r.c] # NULL
  BY <1>2 DEF IInv, RequestsConsistent
<1>5. /\ \A c \in Cycles : c # r.c => /\ status'[c] = status[c]
                                      /\ opened_at'[c] = opened_at[c]
                                      /\ closed_at'[c] = closed_at[c]
                                      /\ reopened_at'[c] = reopened_at[c]
      /\ status'[r.c] = NewStatus(r)
      /\ opened_at'[r.c] = (opened_at[r.c] \/ r.op = "open")
      /\ closed_at'[r.c] = IF r.op = "close" THEN r.now ELSE closed_at[r.c]
      /\ reopened_at'[r.c] = (reopened_at[r.c] \/ r.op = "reopen")
      /\ audits' = audits
  BY <1>2 DEF Commit, IInv, TypeOK
<1>6. /\ r.op # "remind" => status'[r.c] # "absent"
      /\ status[r.c] # "absent" => status'[r.c] # "absent"
      /\ opened_at[r.c] => opened_at'[r.c]
      /\ closed_at[r.c] # NULL => closed_at'[r.c] # NULL
      /\ reopened_at[r.c] => reopened_at'[r.c]
      /\ r.op = "open" => opened_at'[r.c]
      /\ r.op = "close" => closed_at'[r.c] # NULL
      /\ r.op = "reopen" => reopened_at'[r.c] /\ closed_at'[r.c] # NULL
  BY <1>2, <1>4, <1>5 DEF NewStatus
<1> HIDE DEF new
<1>7. RowsConsistent'
  <2> SUFFICES ASSUME NEW c \in Cycles
               PROVE  /\ opened_at'[c] <=> status'[c] \in {"open", "closed"}
                      /\ closed_at'[c] # NULL => opened_at'[c]
                      /\ status'[c] = "closed" => closed_at'[c] # NULL
    BY DEF RowsConsistent
  <2>1. /\ opened_at[c] <=> status[c] \in {"open", "closed"}
        /\ closed_at[c] # NULL => opened_at[c]
        /\ status[c] = "closed" => closed_at[c] # NULL
        /\ opened_at[c] \in BOOLEAN /\ opened_at'[c] \in BOOLEAN
    BY <1>1 DEF IInv, TypeOK, RowsConsistent
  <2>2. CASE c # r.c
    BY <2>1, <2>2, <1>5
  <2>3. CASE c = r.c
    BY <2>1, <2>3, <1>2, <1>4, <1>5, <1>6 DEF NewStatus
  <2> QED  BY <2>2, <2>3
<1>8. CreatorsAlone'
  <2> SUFFICES ASSUME NEW t \in Sessions, NEW u \in Sessions, t # u,
                      req'[t].pc \in Phases, req'[t].op = "create", req'[u].pc # "idle"
               PROVE  req'[u].c # req'[t].c
    BY DEF CreatorsAlone
  <2>1. t # s
    BY <1>3 DEF Phases
  <2>2. req[u].pc # "idle" /\ req'[u].c = req[u].c
    BY <1>2, <1>3
  <2> QED  BY <2>1, <2>2, <1>3 DEF IInv, CreatorsAlone
<1>9. RequestsConsistent'
  <2> SUFFICES ASSUME NEW t \in Sessions
               PROVE  LET q == req'[t] IN
                 /\ q.pc \in Phases /\ q.op # "remind" =>
                      (q.op = "create" <=> status'[q.c] = "absent")
                 /\ q.pc \in Phases /\ q.op = "close" => opened_at'[q.c] /\ q.now # NULL
                 /\ q.pc \in Phases /\ q.op = "reopen" => closed_at'[q.c] # NULL
                 /\ q.pc = "auditing" =>
                      /\ q.op # "remind" => status'[q.c] # "absent"
                      /\ q.op = "open" => opened_at'[q.c]
                      /\ q.op = "close" => closed_at'[q.c] # NULL
                      /\ q.op = "reopen" => reopened_at'[q.c] /\ closed_at'[q.c] # NULL
    BY DEF RequestsConsistent
  <2>1. CASE t = s
    BY <2>1, <1>3, <1>6 DEF Phases
  <2>2. CASE t # s /\ req[t].pc # "idle"
    <3>1. req'[t] = req[t] /\ req[t].c \in Cycles
      BY <2>2, <1>3, PhaseTells DEF IInv
    <3> DEFINE q == req[t]
    <3>0. /\ q.pc \in Phases /\ q.op # "remind" =>
               (q.op = "create" <=> status[q.c] = "absent")
          /\ q.pc \in Phases /\ q.op = "close" => opened_at[q.c] /\ q.now # NULL
          /\ q.pc \in Phases /\ q.op = "reopen" => closed_at[q.c] # NULL
          /\ q.pc = "auditing" =>
               /\ q.op # "remind" => status[q.c] # "absent"
               /\ q.op = "open" => opened_at[q.c]
               /\ q.op = "close" => closed_at[q.c] # NULL
               /\ q.op = "reopen" => reopened_at[q.c] /\ closed_at[q.c] # NULL
      BY DEF IInv, RequestsConsistent
    <3>2. req[t].pc \in Phases /\ req[t].op = "create" => req[t].c # r.c
      BY <2>2, <1>2 DEF IInv, CreatorsAlone
    <3>3. req[t].pc \in Phases /\ r.op = "create" => req[t].c # r.c
      BY <2>2, <1>2 DEF IInv, CreatorsAlone
    <3>5. CASE req[t].c # r.c
      BY <3>0, <3>1, <3>5, <1>5
    <3>6. CASE req[t].c = r.c
      BY <3>0, <3>1, <3>2, <3>3, <3>6, <1>4, <1>6
    <3> QED  BY <3>5, <3>6
  <2>3. CASE t # s /\ req[t].pc = "idle"
    BY <2>3, <1>3 DEF Phases
  <2> QED  BY <2>1, <2>2, <2>3
<1>10. OneActiveCyclePerYear'
  <2>1. CASE status' = status
    BY <2>1 DEF IInv, OneActiveCyclePerYear, C!OneActiveCyclePerYear
  <2>2. CASE C!Move(r.c, NewStatus(r))
    BY <2>2, <1>2, MoveKeepsYears DEF IInv, TypeOK, OneActiveCyclePerYear
  <2> QED  BY <2>1, <2>2, CommitMoves
<1>11. AuditTellsOnlyWhatHappened'
  <2> SUFFICES ASSUME NEW c \in Cycles
               PROVE  /\ status[c] # "absent" => status'[c] # "absent"
                      /\ opened_at[c] => opened_at'[c]
                      /\ closed_at[c] # NULL => closed_at'[c] # NULL
                      /\ reopened_at[c] => reopened_at'[c]
    BY <1>5 DEF IInv, AuditTellsOnlyWhatHappened
  <2> QED  BY <1>5, <1>6
<1>12. SchedulesAreWholeLists' /\ DeletesConsistent'
  BY CommitKeepsLists
<1> QED  BY <1>1, <1>7, <1>8, <1>9, <1>10, <1>11, <1>12 DEF IInv

\* A step of open() on its reminder schedule changes the request alone, and
\* nothing the invariant says of the request.
LEMMA ScheduleStep ==
    ASSUME IInv, NEW s \in Sessions, ReadSchedule(s) \/ DeleteSchedule(s)
    PROVE  IInv'
<1>1. TypeOK'
  BY TypeStep DEF IInv, Next
<1>2. /\ req[s] \in Running /\ req[s].pc \in Phases /\ req[s].pc # "idle"
      /\ \A t \in Sessions : t # s => req'[t] = req[t]
  BY PhaseTells DEF ReadSchedule, DeleteSchedule, IInv, TypeOK, Phases
<1>3. /\ req'[s].op = req[s].op /\ req'[s].c = req[s].c /\ req'[s].now = req[s].now
      /\ req'[s].pc \in Phases
  <2>1. req \in [Sessions -> Request]
    BY DEF IInv, TypeOK
  <2>2. CASE ReadSchedule(s)
    <3>1. req'[s] = IF reminders[req[s].c] = {}
                    THEN [req[s] EXCEPT !.pc = "deleting", !.set = DefaultDays]
                    ELSE [req[s] EXCEPT !.pc = "loaded"]
      BY <2>1, <2>2 DEF ReadSchedule
    <3> QED  BY <3>1, <1>2 DEF Running, Phases
  <2>3. CASE DeleteSchedule(s)
    <3>1. req'[s] = [req[s] EXCEPT !.pc = "loaded", !.gone = reminders[req[s].c],
                                   !.saw = Len(lists[req[s].c])]
      BY <2>1, <2>3 DEF DeleteSchedule
    <3> QED  BY <3>1, <1>2 DEF Running, Phases
  <2> QED  BY <2>2, <2>3
<1>4. /\ status' = status /\ opened_at' = opened_at /\ closed_at' = closed_at
      /\ reopened_at' = reopened_at /\ reminders' = reminders /\ lists' = lists
      /\ audits' = audits
  BY DEF ReadSchedule, DeleteSchedule
<1>5. RequestsConsistent'
  BY <1>2, <1>3, <1>4 DEF IInv, RequestsConsistent, Phases
<1>6. CreatorsAlone'
  <2>1. \A t \in Sessions : /\ req'[t].pc \in Phases <=> req[t].pc \in Phases
                            /\ req'[t].op = req[t].op \/ t # s
                            /\ req'[t].pc # "idle" <=> req[t].pc # "idle"
    BY <1>2, <1>3 DEF Phases
  <2> QED  BY <2>1, <1>2, <1>3 DEF IInv, CreatorsAlone
<1>7. RowsConsistent' /\ OneActiveCyclePerYear' /\ AuditTellsOnlyWhatHappened'
      /\ SchedulesAreWholeLists'
  BY <1>4 DEF IInv, RowsConsistent, OneActiveCyclePerYear, C!OneActiveCyclePerYear,
              AuditTellsOnlyWhatHappened, SchedulesAreWholeLists, Live
<1>8. DeletesConsistent'
  <2>1. \A t \in Sessions : t # s =>
          /\ req'[t].pc = "gated" => req'[t].set = NULL
          /\ req'[t].pc = "loaded" /\ req'[t].set # NULL =>
               /\ req'[t].saw <= Len(lists'[req'[t].c])
               /\ \A x \in req'[t].gone : x.id <= req'[t].saw
               /\ \A x \in reminders'[req'[t].c] : x.id <= req'[t].saw => x \in req'[t].gone
    BY <1>2, <1>4 DEF IInv, DeletesConsistent
  <2>2. CASE ReadSchedule(s)
    <3>1. req[s].set = NULL /\ req \in [Sessions -> Request]
      BY <2>2 DEF ReadSchedule, IInv, TypeOK, DeletesConsistent
    <3>2. \/ req'[s].pc = "deleting"
          \/ req'[s].pc = "loaded" /\ req'[s].set = req[s].set
      <4>1. req'[s] = IF reminders[req[s].c] = {}
                      THEN [req[s] EXCEPT !.pc = "deleting", !.set = DefaultDays]
                      ELSE [req[s] EXCEPT !.pc = "loaded"]
        BY <2>2, <3>1 DEF ReadSchedule
      <4> QED  BY <4>1, <1>2 DEF Running
    <3> QED  BY <2>1, <3>1, <3>2 DEF DeletesConsistent
  <2>3. CASE DeleteSchedule(s)
    <3> DEFINE c == req[s].c
    <3>1. c \in Cycles
      BY <1>2 DEF Running
    <3>2. Len(lists[c]) \in Nat /\ \A x \in reminders[c] : x.id <= Len(lists[c])
      BY <3>1, RowsOfLists DEF IInv
    <3>3. /\ req'[s].pc = "loaded" /\ req'[s].gone = reminders[c]
          /\ req'[s].saw = Len(lists[c]) /\ req'[s].c = c
      <4>1. req'[s] = [req[s] EXCEPT !.pc = "loaded", !.gone = reminders[c],
                                     !.saw = Len(lists[c])]
        BY <2>3 DEF DeleteSchedule, IInv, TypeOK
      <4> QED  BY <4>1, <1>2 DEF Running
    <3> QED  BY <2>1, <3>2, <3>3, <1>4 DEF DeletesConsistent
  <2> QED  BY <2>2, <2>3
<1> QED  BY <1>1, <1>5, <1>6, <1>7, <1>8 DEF IInv

\* A request that ends leaves the invariant to the others.
LEMMA EndStep ==
    ASSUME IInv, NEW s \in Sessions, Audit(s) \/ Fail(s)
    PROVE  IInv'
<1>1. TypeOK'
  BY TypeStep DEF IInv, Next
<1>2. req'[s].pc = "idle" /\ \A t \in Sessions : t # s => req'[t] = req[t]
  BY DEF Audit, Fail, Idle, IInv, TypeOK
<1>3. /\ status' = status /\ opened_at' = opened_at /\ closed_at' = closed_at
      /\ reopened_at' = reopened_at /\ reminders' = reminders /\ lists' = lists
  BY DEF Audit, Fail
<1>4. RequestsConsistent' /\ CreatorsAlone' /\ DeletesConsistent'
  BY <1>2, <1>3 DEF IInv, RequestsConsistent, CreatorsAlone, DeletesConsistent, Phases
<1>5. RowsConsistent' /\ OneActiveCyclePerYear' /\ SchedulesAreWholeLists'
  BY <1>3 DEF IInv, RowsConsistent, OneActiveCyclePerYear, C!OneActiveCyclePerYear,
              SchedulesAreWholeLists, Live
<1>6. AuditTellsOnlyWhatHappened'
  <2>1. CASE Fail(s)
    BY <2>1, <1>3 DEF Fail, IInv, AuditTellsOnlyWhatHappened
  <2>2. CASE Audit(s)
    <3> DEFINE r == req[s]
    <3>1. /\ r.op \in {"create", "open", "close", "reopen", "remind"} /\ r.c \in Cycles
          /\ audits' = audits \cup {<<Action(r.op), r.c>>}
      BY <2>2, PhaseTells, CycleAssumption DEF Audit, IInv
    <3>2. /\ r.op # "remind" => status[r.c] # "absent"
          /\ r.op = "open" => opened_at[r.c]
          /\ r.op = "close" => closed_at[r.c] # NULL
          /\ r.op = "reopen" => reopened_at[r.c] /\ closed_at[r.c] # NULL
      BY <2>2 DEF Audit, IInv, RequestsConsistent
    <3>3. /\ Action(r.op) = "CYCLE_CREATE" => r.op = "create"
          /\ Action(r.op) = "CYCLE_OPEN" => r.op = "open"
          /\ Action(r.op) = "CYCLE_CLOSE" => r.op = "close"
          /\ Action(r.op) = "CYCLE_REOPEN" => r.op = "reopen"
      BY <3>1 DEF Action
    <3> QED  BY <3>1, <3>2, <3>3, <1>3 DEF IInv, AuditTellsOnlyWhatHappened
  <2> QED  BY <2>1, <2>2
<1> QED  BY <1>1, <1>4, <1>5, <1>6 DEF IInv

LEMMA IdleStep ==
    ASSUME IInv, Tick \/ UNCHANGED vars
    PROVE  IInv'
<1>1. TypeOK'
  BY TypeStep DEF IInv, Next
<1> QED
  BY <1>1 DEF Tick, vars, IInv, RowsConsistent, CreatorsAlone, RequestsConsistent,
              OneActiveCyclePerYear, C!OneActiveCyclePerYear,
              AuditTellsOnlyWhatHappened, SchedulesAreWholeLists, Live, DeletesConsistent

LEMMA InvariantInit == Init => IInv
<1> SUFFICES ASSUME Init PROVE IInv
  OBVIOUS
<1>1. SchedulesAreWholeLists
  <2> SUFFICES ASSUME NEW c \in Cycles
               PROVE  /\ reminders[c] = {} /\ DOMAIN lists[c] = {}
    BY DEF SchedulesAreWholeLists
  <2> QED  BY DEF Init
<1> QED
  BY <1>1, InitType DEF Init, Idle, Phases, IInv, RowsConsistent, CreatorsAlone,
     RequestsConsistent, OneActiveCyclePerYear, C!OneActiveCyclePerYear, C!Active,
     AuditTellsOnlyWhatHappened, DeletesConsistent

LEMMA InvariantStep == IInv /\ [Next]_vars => IInv'
<1> SUFFICES ASSUME IInv, [Next]_vars PROVE IInv'
  OBVIOUS
<1>1. CASE Tick \/ UNCHANGED vars
  BY <1>1, IdleStep
<1>2. ASSUME NEW s \in Sessions, NEW c \in Cycles,
             \/ LoadCreate(s, c) \/ LoadOpen(s, c) \/ LoadClose(s, c)
             \/ LoadReopen(s, c) \/ LoadRemind(s, c)
      PROVE  IInv'
  BY <1>2, LoadStep
<1>3. ASSUME NEW s \in Sessions, ReadSchedule(s) \/ DeleteSchedule(s)
      PROVE  IInv'
  BY <1>3, ScheduleStep
<1>4. ASSUME NEW s \in Sessions, Commit(s)
      PROVE  IInv'
  BY <1>4, CommitStep
<1>5. ASSUME NEW s \in Sessions, Audit(s) \/ Fail(s)
      PROVE  IInv'
  BY <1>5, EndStep
<1> QED  BY <1>1, <1>2, <1>3, <1>4, <1>5 DEF Next

\* The invariant that ties what concurrent requests hold in memory to the
\* committed rows holds in every reachable state.
THEOREM InductiveInvariant == Spec => []IInv
  BY InvariantInit, InvariantStep, PTL DEF Spec

\* Never two draft or open cycles in one fiscal year: create() checks before
\* it inserts, open() and reopen() do not check at all, the index decides.
THEOREM OneActivePerYear == Spec => []OneActiveCyclePerYear
<1>1. IInv => OneActiveCyclePerYear
  BY DEF IInv
<1> QED  BY <1>1, InductiveInvariant, PTL

\* No audit row of a lifecycle action tells of something that the committed
\* cycle row does not show.
THEOREM AuditIsTruthful == Spec => []AuditTellsOnlyWhatHappened
<1>1. IInv => AuditTellsOnlyWhatHappened
  BY DEF IInv
<1> QED  BY <1>1, InductiveInvariant, PTL

\* However PATCHes of the schedule and open() interleave, the schedule is made
\* of whole lists: each as it was sent, gone as a whole once a later DELETE
\* could see it, and beside others only when neither request saw the other's,
\* with no day in two of them.
THEOREM SchedulesNeverMix == Spec => []SchedulesAreWholeLists
<1>1. IInv => SchedulesAreWholeLists
  BY DEF IInv
<1> QED  BY <1>1, InductiveInvariant, PTL

\* A cycle is opened for the first time by open(), never by reopen(), and a
\* closed cycle has the time that the reopen window is measured from.
THEOREM OpenedAndClosedInOrder ==
    Spec => [](LeavesDraftThroughOpen /\ ClosedHasClosingTime)
<1>1. IInv => LeavesDraftThroughOpen /\ ClosedHasClosingTime
  BY DEF IInv, RowsConsistent, LeavesDraftThroughOpen, ClosedHasClosingTime
<1> QED  BY <1>1, InductiveInvariant, PTL

-----------------------------------------------------------------------------
(* Refinement *)

LEMMA StepImplements == IInv /\ [Next]_vars => [C!Next]_status
<1> SUFFICES ASSUME IInv, [Next]_vars PROVE C!Next \/ status' = status
  OBVIOUS
<1>1. ASSUME NEW s \in Sessions, Commit(s)
      PROVE  C!Next \/ status' = status
  <2>1. req[s].c \in Cycles
    BY <1>1, PhaseTells DEF Commit, IInv
  <2>2. ASSUME C!Move(req[s].c, NewStatus(req[s]))
        PROVE  C!Next
    <3>1. NewStatus(req[s]) \in C!CycleState
      BY <2>2 DEF C!Move, C!Edges, C!CycleState
    <3> QED  BY <2>1, <2>2, <3>1 DEF C!Next
  <2> QED  BY <1>1, <2>2, CommitMoves
<1>2. CASE ~ \E s \in Sessions : Commit(s)
  BY <1>2 DEF Next, Tick, LoadCreate, LoadOpen, LoadClose, LoadReopen, LoadRemind, Start,
              ReadSchedule, DeleteSchedule, Audit, Fail, vars
<1> QED  BY <1>1, <1>2

\* The handlers of CycleService, interleaved statement by statement, implement
\* the abstract status machine: every step moves one cycle along an edge of
\* state_machine.py in a year that is free, or changes no status.
THEOREM Implements == Spec => ImplementsCycleStatus
<1>1. Init => C!Init
  BY DEF Init, C!Init
<1> QED  BY <1>1, StepImplements, InductiveInvariant, PTL DEF Spec, C!Spec, ImplementsCycleStatus
=============================================================================
