SPECIFICATION Spec
CONSTANTS
    Sessions = {s1, s2}
    Ops = {"create", "open", "close", "reopen", "remind"}
    Cycles = {c1, c2}
    Year = 2026
    YearOf <- OneYear
    Days = {7, 3}
    DefaultDays = {7}
    Window = 0
    NULL = NULL
    MaxLists = 3
    MaxClock = 1
SYMMETRY Symmetry
CONSTRAINT OneHazard
INVARIANTS
    TypeOK
    OneActiveCyclePerYear
    LeavesDraftThroughOpen
    AuditTellsOnlyWhatHappened
    SchedulesAreWholeLists
PROPERTY
    ImplementsCycleStatus
