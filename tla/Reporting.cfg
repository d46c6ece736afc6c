SPECIFICATION MCSpec
CONSTANTS
    company = company
    filing = filing
    Units = {company, filing}
    OrgUnits = {u1, u2, u3}
    NULL = NULL
    Requests = {r1, r2}
    Accounts = {a}
    Parent <- Tree
    Top <- Companies
    Aggregate <- Companies
    Filing <- FilingUnits
    Excluded <- NoUnit
    MaxWrites = 2
    Amounts <- Mills
    MaxRows = 2
    Pending = Pending
SYMMETRY Symmetry
CONSTRAINT OnlyWhatIsRead
CHECK_DEADLOCK FALSE
INVARIANTS
    TypeOK
    ReportCoversScope
    StampCoversFigures
    ActualsOfOneImport
    SubmittedIsShown
    ScopeIsSubtree
    NearestIsTold
    WalksEnd
    ValidationComplete
