SPECIFICATION MCSpec
CONSTANTS
    Requests = {r1, r2}
    Units = {u1, u2}
    Earlier = earlier
    NULL = NULL
    Cycles = {this, other}
    This = this
    Wired = TRUE
    MaxMoves = 1
SYMMETRY Symmetry
CHECK_DEADLOCK FALSE
INVARIANTS
    TypeOK
    GateHolds
    ExclusionsHold
    TemplatesServe
    MailsTellTheTruth
