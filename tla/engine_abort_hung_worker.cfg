SPECIFICATION HungWorkerSpec
CONSTANTS
    p = p  c1 = c1  c2 = c2  c3 = c3
    Closer = Closer
    NoOne = NoOne
    Calls <- WarmAndOne
    Prewarms <- OnlyPrewarm
    LargeCalls <- OnlyFirst
    MaxChunks = 1
PROPERTIES
    AbortReturns
