SPECIFICATION Spec
CONSTANTS
    r1 = r1  r2 = r2  r3 = r3  r4 = r4  r5 = r5  a = a  b = b
    Requests <- FiveRequests
    Clients <- TwoClients
    Limits <- TwoOrOff
    Window = 4
    MaxTime = 8
    Skew = 1
SYMMETRY Symmetry
INVARIANTS
    IdleClientsForgotten SkewedLimit
PROPERTIES
    ExactDecisions
