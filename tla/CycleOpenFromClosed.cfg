SPECIFICATION Spec
CONSTANTS
    Sessions = {s1}
    Ops = {"create", "open", "close", "reopen"}
    Cycles = {c1}
    Year = 2026
    YearOf <- OneYear
    Days = {7}
    DefaultDays = {7}
    Window = 0
    NULL = NULL
    MaxLists = 3
    MaxClock = 1
PROPERTY
    OpenOnlyFromDraft
