SPECIFICATION Spec
CONSTANTS
    Sessions = {s1, s2, s3}
    Cycle = c1
    Cycles = {c1}
    Year = 2026
    YearOf <- TheYear
    Personnel = personnel
    Shared = shared
    Series = {budget, personnel, shared}
    CycleOf <- TheCycle
    KindOf <- Importers
    Docs = {d1, d2, d3}
    MaxVersion = 3
SYMMETRY Symmetry
INVARIANTS
    TypeOK
    ClosedCycleAdmitsNoNewWork
    UploadsHaveTheirFiles
    AuditTellsOnlyCommitted
    ComparedWithEarlier
PROPERTY
    ImplementsVersionLog
