SPECIFICATION MCSpec
CONSTANTS
    Requests = {r1}
    Units = {u1, u2}
    Earlier = earlier
    NULL = NULL
    Cycles = {this, other}
    This = this
    Wired = TRUE
    MaxMoves = 0
SYMMETRY Symmetry
CHECK_DEADLOCK FALSE
INVARIANT
    GenerationGoesOn
