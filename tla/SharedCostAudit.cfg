SPECIFICATION Spec
CONSTANTS
    Sessions = {s1}
    Cycle = c1
    Cycles = {c1}
    Year = 2026
    YearOf <- TheYear
    Personnel = personnel
    Shared = shared
    Series = {budget, personnel, shared}
    CycleOf <- TheCycle
    KindOf <- Importers
    Docs = {d1, d2}
    MaxVersion = 2
PROPERTY
    SuccessIsAudited
