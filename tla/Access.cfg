SPECIFICATION Spec
CONSTANTS
    Requests = {r1, r2}
    Users = {u1, u2}
    Roles = {admin, manager}
    Admin = admin
    NULL = NULL
SYMMETRY Symmetry
CHECK_DEADLOCK FALSE
INVARIANTS
    TypeOK
    TokenExchangedOnce
    LogoutEndsEarlierSessions
    AdministrationHolds
PROPERTY
    NoSessionForInactive
