SPECIFICATION Spec
CONSTANTS
    r1 = r1  r2 = r2  r3 = r3  r4 = r4  r5 = r5  a = a  b = b
    Requests <- FourRequests
    Clients <- OneClient
    Limits <- TwoOrOff
    Window = 3
    MaxTime = 7
    Skew = 1
SYMMETRY Symmetry
INVARIANTS
    RollingLimit
