SPECIFICATION Spec
CONSTANTS
    Writers = {w1, w2}
    MaxSeq = 3
    MaxClock = 0
INVARIANT
    UntamperedTableVerifies
