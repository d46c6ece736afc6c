SPECIFICATION Spec
CONSTANTS
    Writers = {w1, w2, w3}
    MaxSeq = 4
    MaxClock = 1
SYMMETRY WriterSymmetry
INVARIANTS
    TypeOK
    LinksResolve
    BreaksOnlyBetweenOverlappingWriters
    WindowsVerifyWithTable
