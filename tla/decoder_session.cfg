SPECIFICATION Spec
CONSTANTS
    c1 = c1  c2 = c2  m1 = m1  m2 = m2  a = a
    NoOne = NoOne
    Nobody = NoOne
    Eos = Eos
    Callers <- TwoCallers
    Gens <- TwoCallers
    Models <- TwoModels
    Tokens <- OneToken
    MaxLoads = 3
    Context = 4
    MaxNew = 2
SYMMETRY Symmetry
INVARIANTS
    OneOpenDecoder RightDecoder PrefixExact FreshLogits InsideWindow ServedFresh
